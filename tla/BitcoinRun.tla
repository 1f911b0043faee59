----------------------------- MODULE BitcoinRun -----------------------------
(***************************************************************************)
(* One bitcoin job on the DFE, from the start of the run to the last       *)
(* submission: the state machine Control.maxj, the per-pipe record RAMs of *)
(* BitcoinMinerKernel.maxj, the cycle count dfe_setup_run_bitcoin gives    *)
(* the run, and bitcoin_process_result_and_send_work, which walks over the *)
(* records.                                                                *)
(*                                                                         *)
(* Hashing is abstracted to the set "hits" of nonces whose double hash is  *)
(* below the target.  A step of the kernel is one tick: all pipes look at  *)
(* one nonce each, or one record goes to the host.                         *)
(***************************************************************************)
EXTENDS Integers, Sequences, FiniteSets

CONSTANTS
  NumPipes,         \* Bitcoin_numPipes
  NumRecords,       \* Bitcoin_numRecordsPerPipe
  NonceSpace,       \* 2^32, the number of nonces
  Base,             \* limits.base
  Limit,            \* limits.length, as create_limits leaves it
  Stale             \* whatever an earlier run, or nobody, left in a RAM or a buffer

Nonces == 0 .. NonceSpace - 1
Pipes == 0 .. NumPipes - 1
Slots == 0 .. NumRecords - 1

\* ROUND_UP of common/dfe.c.
Steps == (Limit + NumPipes - 1) \div NumPipes
Length == Steps * NumPipes

ASSUME PipesAssumption == NumPipes \in Nat \ {0}
ASSUME RecordsAssumption == NumRecords \in Nat \ {0}
ASSUME NonceAssumption == NonceSpace \in Nat \ {0} /\ Base \in Nonces /\ Stale \notin Nonces
\* dfe_init rejects a length of 0; Control.length has one bit more than a nonce.
ASSUME LimitAssumption == Limit \in Nat \ {0} /\ Length < 2 * NonceSpace

TotalRecords == NumPipes * NumRecords

\* The ticks that dfe_setup_run_bitcoin gives the run.
ShortCycles == Steps + TotalRecords - 1   \* (Mutant: one tick too few.)
NumCycles == Steps + TotalRecords

VARIABLES
  hits,             \* nonces that meet the current job's target
  mode, nonce, iPipe, iRead,    \* Control
  iWrite, ram,      \* per pipe: write counter and record RAM
  tick,             \* ticks left in the run
  sent,             \* records the run has sent to the host
  buffer,           \* bitcoin_output of the slot, where max_run puts them
  host,             \* "fetch", "run", "scan" or "exited"
  i,                \* index of the scan
  submitted         \* nonces submitted for the current job, in order

control == <<mode, nonce, iPipe, iRead>>
records == <<iWrite, ram>>
vars == <<hits, control, records, tick, sent, buffer, host, i, submitted>>

Record == [nonce : Nonces \cup {Stale}, match : BOOLEAN]

\* A RAM and a buffer that nothing was written to in this run.  The worst a
\* buffer can hold are records that all claim to be matches.
OldRam == [r \in Slots |-> Stale]
OldBuffer == [n \in 0 .. TotalRecords - 1 |-> [nonce |-> Stale, match |-> TRUE]]

Init ==
  /\ hits = {}
  /\ mode = "COMPUTE" /\ nonce = 0 /\ iPipe = 0 /\ iRead = 0
  /\ iWrite = [p \in Pipes |-> 0]
  /\ ram = [p \in Pipes |-> OldRam]
  /\ tick = 0
  /\ sent = 0
  /\ buffer = OldBuffer
  /\ host = "fetch"
  /\ i = 0
  /\ submitted = <<>>

-----------------------------------------------------------------------------
\* The run.

\* A new job is fetched and its run starts.  max_run resets the kernel's state
\* machine and counters; the RAMs and the buffer keep what they hold, which is
\* nothing that belongs to this job.
StartRun ==
  /\ host = "fetch"
  /\ hits' \in SUBSET Nonces
  /\ mode' = "COMPUTE" /\ nonce' = 0 /\ iPipe' = 0 /\ iRead' = 0
  /\ iWrite' = [p \in Pipes |-> 0]
  /\ ram' = [p \in Pipes |-> OldRam]
  /\ tick' = NumCycles
  /\ sent' = 0
  /\ buffer' = OldBuffer
  /\ host' = "run"
  /\ submitted' = <<>>
  /\ UNCHANGED i

\* The nonce pipe p looks at: all of these are 32-bit values.
SameNonce(offset, p) == (offset + Base) % NonceSpace    \* (Mutant: no "+ p".)
NonceOf(offset, p) == (((offset + Base) % NonceSpace) + p) % NonceSpace
PipeNonce(p) == NonceOf(nonce, p)

\* The counter chain of recordMatches.
NoWrap(w) == w + 1                  \* (Mutant: the counter saturates too late.)
NextWrite(w) == (w + 1) % NumRecords

\* COMPUTE: every pipe tries a nonce and records a match.
Compute ==
  /\ host = "run" /\ tick > 0
  /\ mode = "COMPUTE"
  /\ ram' = [p \in Pipes |->
       IF PipeNonce(p) \in hits THEN [ram[p] EXCEPT ![iWrite[p]] = PipeNonce(p)]
                                ELSE ram[p]]
  /\ iWrite' = [p \in Pipes |->
       IF PipeNonce(p) \in hits THEN NextWrite(iWrite[p]) ELSE iWrite[p]]
  /\ LET next == (nonce + NumPipes) % (2 * NonceSpace)
     IN  IF next = Length THEN nonce' = 0 /\ mode' = "OUTPUT"
                          ELSE nonce' = next /\ UNCHANGED mode
  /\ tick' = tick - 1
  /\ UNCHANGED <<hits, iPipe, iRead, sent, buffer, host, i, submitted>>

\* The match bit of a record that is read out.
ReadAll(r, w) == r <= w             \* (Mutant: one record too many.)
ReadFewer(r, w) == r + 1 < w        \* (Mutant: one too few.)
IsMatch(r, w) == r < w

\* OUTPUT: one record to the host, slot by slot and pipe by pipe.
Output ==
  /\ host = "run" /\ tick > 0
  /\ mode = "OUTPUT"
  /\ sent < TotalRecords
  /\ buffer' = [buffer EXCEPT ![sent] = [nonce |-> ram[iPipe][iRead],
                                         match |-> IsMatch(iRead, iWrite[iPipe])]]
  /\ sent' = sent + 1
  /\ iRead' = (iRead + 1) % NumRecords
  /\ iPipe' = IF iRead = NumRecords - 1 THEN (iPipe + 1) % NumPipes ELSE iPipe
  /\ mode' = IF iRead = NumRecords - 1 /\ iPipe = NumPipes - 1 THEN "COMPUTE" ELSE mode
  /\ tick' = tick - 1
  /\ UNCHANGED <<hits, nonce, records, host, i, submitted>>

\* max_run returns when the ticks are used up and the queued buffer is full.
FinishRun ==
  /\ host = "run" /\ tick = 0
  /\ sent = TotalRecords
  /\ host' = "scan"
  /\ i' = 0
  /\ UNCHANGED <<hits, control, records, tick, sent, buffer, submitted>>

-----------------------------------------------------------------------------
\* The host: bitcoin_process_result_and_send_work.

\* (Mutant: every record is submitted, as if all were matches.)
SubmitAny ==
  /\ host = "scan" /\ i < TotalRecords
  /\ submitted' = Append(submitted, buffer[i].nonce)
  /\ i' = i + 1
  /\ UNCHANGED <<hits, control, records, tick, sent, buffer, host>>

\* A match is submitted and the pool accepts or rejects it: the scan goes on.
SubmitMatch ==
  /\ host = "scan" /\ i < TotalRecords
  /\ buffer[i].match
  /\ submitted' = Append(submitted, buffer[i].nonce)
  /\ i' = i + 1
  /\ UNCHANGED <<hits, control, records, tick, sent, buffer, host>>

SkipRecord ==
  /\ host = "scan" /\ i < TotalRecords
  /\ ~buffer[i].match
  /\ i' = i + 1
  /\ UNCHANGED <<hits, control, records, tick, sent, buffer, host, submitted>>

EndScan ==
  /\ host = "scan" /\ i = TotalRecords
  /\ host' = "fetch"
  /\ UNCHANGED <<hits, control, records, tick, sent, buffer, i, submitted>>

\* LOG_FATAL in send_getwork_completion: the other matches are lost.
FailSubmit ==
  /\ host = "scan" /\ i < TotalRecords
  /\ buffer[i].match
  /\ host' = "exited"
  /\ UNCHANGED <<hits, control, records, tick, sent, buffer, i, submitted>>

Exited == host = "exited" /\ UNCHANGED vars

Next ==
  \/ StartRun \/ Compute \/ Output \/ FinishRun
  \/ SubmitMatch \/ SkipRecord \/ EndScan
  \/ FailSubmit \/ Exited

Spec == Init /\ [][Next]_vars

-----------------------------------------------------------------------------
\* Properties.

TypeOK ==
  /\ hits \subseteq Nonces
  /\ mode \in {"COMPUTE", "OUTPUT"}
  /\ nonce \in 0 .. 2 * NonceSpace - 1
  /\ iPipe \in Pipes /\ iRead \in Slots
  /\ iWrite \in [Pipes -> Slots]
  /\ ram \in [Pipes -> [Slots -> Nonces \cup {Stale}]]
  /\ tick \in 0 .. NumCycles
  /\ sent \in 0 .. TotalRecords
  /\ buffer \in [0 .. TotalRecords - 1 -> Record]
  /\ host \in {"fetch", "run", "scan", "exited"}
  /\ i \in 0 .. TotalRecords
  /\ submitted \in Seq(Nonces \cup {Stale})

\* Nothing but nonces that meet the current job's target is ever submitted:
\* no nonce of an earlier run that the RAMs or the buffer still hold.
OnlyHitsSubmitted ==
  \A n \in 1 .. Len(submitted) : submitted[n] \in hits

\* The ticks the host asks for are exactly one sweep and one read-out: when they
\* are used up the stream the host waits for is full, and Control is back where
\* a run starts.
RunEndsDrained ==
  host = "run" /\ tick = 0 =>
    sent = TotalRecords /\ mode = "COMPUTE" /\ nonce = 0 /\ iPipe = 0 /\ iRead = 0

\* How far a run has come, by its ticks: in the sweep, in the read-out, or at its
\* end.
Sweeping ==
  /\ mode = "COMPUTE" /\ sent = 0 /\ iPipe = 0 /\ iRead = 0
  /\ \E c \in 0 .. Steps - 1 : nonce = c * NumPipes /\ tick = Steps - c + TotalRecords
ReadingOut ==
  /\ mode = "OUTPUT" /\ nonce = 0
  /\ sent = iPipe * NumRecords + iRead /\ tick = TotalRecords - sent
Drained ==
  /\ mode = "COMPUTE" /\ nonce = 0 /\ iPipe = 0 /\ iRead = 0
  /\ sent = TotalRecords /\ tick = 0

\* The inductive invariant: where the run is, and that what the counters mark as
\* valid, in the RAMs and in the buffer, is of this job.
Phase ==
  /\ host = "run" => Sweeping \/ ReadingOut \/ Drained
  /\ host = "scan" => sent = TotalRecords
RamOfThisJob == \A p \in Pipes, r \in Slots : r < iWrite[p] => ram[p][r] \in hits
BufferOfThisJob ==
  \A n \in 0 .. TotalRecords - 1 : n < sent /\ buffer[n].match => buffer[n].nonce \in hits

RunInv == TypeOK /\ Phase /\ RamOfThisJob /\ BufferOfThisJob /\ OnlyHitsSubmitted

\* The steps of one sweep at which pipe p finds a match.
PipeHits(p) == {c \in 0 .. Steps - 1 : NonceOf(c * NumPipes, p) \in hits}

\* The sweep passes every nonce in range; the length was rounded up, so that it
\* may pass the first ones twice.
InRange(n) == (n - Base) % NonceSpace < Length
PassedTwice(n) == (n - Base) % NonceSpace < Length - NonceSpace

\* When a job has been scanned, every nonce in range that meets the target has
\* been submitted, provided no pipe found as many as its RAM has room for.
NoHitMissed ==
  host = "fetch" /\ (\A p \in Pipes : Cardinality(PipeHits(p)) < NumRecords) =>
    \A n \in hits : InRange(n) => \E m \in 1 .. Len(submitted) : submitted[m] = n

\* What a pipe that finds more loses: it reports the number of its matches modulo
\* the size of its RAM, so that exactly as many as fit are reported as none.
ReportedModulo ==
  host = "scan" =>
    \A p \in Pipes :
      Cardinality({r \in Slots : buffer[p * NumRecords + r].match})
        = Cardinality(PipeHits(p)) % NumRecords

\* A share is submitted twice for one job only if the rounded length carries the
\* sweep past its nonce twice.
SubmittedOnce ==
  \A m, n \in 1 .. Len(submitted) :
    m # n /\ submitted[m] = submitted[n] => PassedTwice(submitted[m])

\* "Matches are recorded into per-pipe RAMs.  In the second phase, these results
\* are read out of the RAMs and sent back to the host."
AllMatchesSentBack ==
  host = "scan" =>
    \A n \in hits : InRange(n) =>
      \E m \in 0 .. TotalRecords - 1 : buffer[m].match /\ buffer[m].nonce = n
=============================================================================
