# Verification of HybridMiner

HybridMiner mines bitcoins (double SHA-256) and litecoins (scrypt) on a Maxeler
dataflow engine (DFE).  One bitstream holds a *bitcoin kernel* and a *scrypt
kernel*; a C program fetches jobs from two mining pools, runs both kernels side
by side on them and submits the nonces they find.  This directory holds TLA+
models of the program and of its kernels, the TLC configurations that check
them, and TLAPS proofs about them.

* [The system](#the-system)
* [The modules](#the-modules)
* [The runs](#the-runs)
* [The theorems](#the-theorems)
* [What is only model-checked](#what-is-only-model-checked)
* [What is not modelled](#what-is-not-modelled)
* [What the checks found](#what-the-checks-found)
* [Plan](#plan)
* [Running it](#running-it)

## The system

| Part | Source | State it keeps | Operations |
|---|---|---|---|
| Live loop | `main.c`: `run_live`, `run_bitcoin`, `run_scrypt` | eight semaphores per slot, `worker_to_process`, the job and the results of each thread | create threads, hand the DFE from slot to slot, set up a run, wait for it, submit |
| DFE set-up | `common/dfe.c` | limits, `num_scrypt`, one `max_actions_t`, buffers of each slot | `create_limits`, `dfe_init`, `dfe_setup_run_*`, `dfe_process` |
| Bitcoin kernel | `Control.maxj`, `BitcoinMinerKernel.maxj`, `SHA256.maxj` | mode, nonce, read counters; per pipe a RAM of records and its write counter | sweep all nonces, then read out the records |
| Scrypt kernel | `ScryptKernel.maxj`, `MemoryBuffer.maxj` | batch and cycle counters, start-up counter, per pipe a C-slow loop and a scratchpad split over memory blocks | read a job, fill the scratchpad, mix, write the result |
| Pool session | `bitcoin.c`, `scrypt.c`, `json_wrapper.c`, `gbuf.c` | curl handle, growable buffer, work, statistics | `getwork` with retries, walk over the results, submission of each match |
| Host arithmetic | `sha2.c`, `sha2.h`, `scrypt.c` | per header two hash values that wait for the DFE; in the self test one scratchpad for all headers | SHA-256, HMAC, PBKDF2, salsa, comparison with the target |
| Build | `HybridMinerManager.maxj`, `HybridMinerEngineParameters.maxj` | none at run time | stream wiring, constants of the maxfile |
| Test mode, command line, logging | `main.c`, `logging.*`, `timer.h` | the mismatches of the self test | one sequential pass: a run of the DFE, the same on the CPU, a comparison |

How the parts interact.  Two threads per slot, one for each coin, and one
dispatcher (the main thread) share **one** action set, `ctx->actions`, and the
DFE.  The threads write their jobs into that set without a lock; the dispatcher
queues the slot's buffers in it and runs the DFE.  Only the hand-shake over
`process_mutex`, `load_data_mutex`, `dfe_data_ready_mutex` and `data_mutex`
keeps them apart.  Within a run the two kernels are independent: each has a
number of ticks that the host computes, and streams to and from buffers of the
host whose lengths must be what the kernel consumes and produces.

Where it is hard:

* *interleaving*: nothing but the order of semaphore operations protects the
  action set, the buffers and the jobs; sixteen semaphores are created while
  threads of earlier slots already run;
* *counting*: the host's tick counts, the kernels' counter chains and the
  lengths of the streams are computed in three places, in two languages and
  partly in floating point.  A run whose ticks or stream lengths are off by one
  does not return, because `max_run` has no timeout;
* *boundaries*: record RAMs that fill up, a length rounded up past the last
  nonce, pipes that start one after another, the round in which the kernel has
  no next word to add;
* *stale data*: RAMs, scratchpads, buffers and the reply buffer are never
  cleared, so that old contents must never be taken for new; the hash values a
  header needs after the DFE run are used up in place;
* *written by hand*: there is no general SHA-256, only blocks with the padding and
  the length that each of them needs, on the host and again in the kernel;
* *partial failure*: a pool that answers late, twice, with an error or with
  nothing at all.

`PROJECT.json` lists these hazards one by one, with the line where each bites
and the properties that watch it.

What makes each part correct:

* live loop: a run works on the jobs of one slot, the slot whose turn it is; an
  answer belongs to the job its thread holds and does not change until it is
  submitted; nobody waits forever;
* bitcoin run: it submits the job's matches, all of them, and nothing else, in
  exactly the ticks it was given;
* scrypt run: result `k` is scrypt of input `k`, for the streams and ticks the
  host sets up, and the run returns;
* pool session: the statistics are the pool's, no match is forgotten, each
  matching result is sent once, and retrying ends;
* cycle budget: scrypt fills the time of the sweep and does not exceed it;
* encodings: the share submitted is the header that was hashed, and both
  comparisons order hashes and targets alike;
* arithmetic: host and kernel compute the same functions, what a run hashes is
  scrypt, or double SHA-256, of the header, and the self test logs exactly the
  faults there are.

## The modules

| Module | Models |
|---|---|
| `MiningRounds` | the abstract specification of the live loop: slots take turns, in a turn the slot's jobs are answered together, each from itself alone |
| `LiveMiner` | the threads, semaphores, action set and buffers of `main.c` and `dfe.c`; implements `MiningRounds` |
| `BitcoinRun` | one bitcoin job: tick count, `Control`, record RAMs, read-out, the scan over the records |
| `PoolSession` | one thread's requests to its pool |
| `ScryptRun` | one scrypt run: counters, staggered C-slow pipes, banked scratchpads, streams, the in-place buffer |
| `CycleBudget` | `create_limits`, `dfe_init` and both `dfe_setup_run_*` as arithmetic |
| `Sha256Words`, `Sha256Kernel`, `Sha256Host` | words, the kernel's `hashBlock`, the host's `sha256_transform`; the host implements the kernel |
| `SalsaKernel`, `SalsaHost` | the kernel's and the host's `xor_salsa8`; the host implements the kernel |
| `HashStandards` | what is to be computed: SHA-256 of a message, HMAC, PBKDF2, scrypt, double SHA-256, as their standards define them |
| `RunHashing` | what a run hashes: both halves of scrypt on the host, the blocks of the bitcoin kernel, the self test on the CPU |
| `ShareEncoding` | one nonce from the getwork text to the hashed words, the verdict on its hash, and the text of the share |
| `LiveMinerProofs`, `BitcoinRunProofs`, `PoolSessionProofs`, `ScryptRunProofs`, `CycleBudgetProofs`, `HostArithmeticProofs`, `RunHashingProofs`, `ShareEncodingProofs` | the theorems |
| `MCLiveMiner`, `MCCycleBudget`, `MCHostArithmetic`, `MCShareEncoding` | instances for TLC that need definitions |

Each definition that stands for code is listed with its lines under `map` in
`PROJECT.json`.  Definitions keep the source's names; where the code has an
anonymous step, the action is named for what it does.

### LiveMiner

`pc[k][w]` is where the thread of kernel `k` in slot `w` is, `dpc` and `dk` the
dispatcher's operation and the coin it is at.  One semaphore operation is one
action, `Up` is `sem_post`, `Down` is `sem_wait`, and each of the three scalar
inputs and the tick count that a thread writes into the action set is a step of
its own, so that a second writer would be seen between them.  `QueueBuffers` is
`dfe_process` up to `max_run`, `RunDone` what the DFE has done when `max_run`
returns.  Data is abstracted to its origin: a scalar, an output and a buffer say
which job they were made from.

`MiningRounds` knows nothing of all that: its state is whose turn it is and for
each thread whether its job is absent, held or answered.  `ImplementsRounds`
states the refinement, with the stage of a thread computed from `pc` and from
whether `data_mutex` is up for it.

### BitcoinRun

A step of the kernel is a tick.  Hashing is the set `hits` of nonces whose
double hash is below the target, chosen anew for each job, so that every
pattern of matches occurs.  RAMs and buffers start with `Stale` contents.
`Steps`, `Length` and `NumCycles` are the host's `CEIL_DIV`, `ROUND_UP` and
`set_ticks`.  The write counter of a pipe wraps at the size of its RAM, as
`makeCounterChain` does, and the record's `match` flag compares against it.

### PoolSession

Each curl request is one action: it fails, or the pool answers with one of the
replies the parsers tell apart.  The buffer is modelled by the text at its
start: `gbuf_reset` sets the size to 0 and leaves the bytes, `write_cb` is called
only for a body, and the parsers read the bytes without looking at the size.  The
pool accepts a share once and may act on a request whose answer is lost.

The walk goes over results, the pool's shares are nonces.  `found` gives for each
job the results that match and the nonce that each holds: a scrypt result is that
of its index (`ScryptFindings`), a bitcoin result is a record whose nonce is data
(`Findings`), and several records of a job may hold the same one.  That happens
when the length is rounded up past 2^32 (`BitcoinRun`, `SubmittedOnce`); the
bitcoin walk then hands the nonce in once for each of them, and the pool rejects
what it has accepted before.  `SentOncePerResult` therefore counts: as long as
every answer has had a body, the pool receives a share at most as often as there
are matching results with it.

### ScryptRun

A value is "job `k` after `s` rounds of salsa" or `Junk`, which is what any
mixture of jobs and any uninitialised memory gives.  The address a mixing round
reads depends on the data, so it is left open: `ScratchpadOwned` demands the
right contents at *every* address a pipe might read, and with it `ResultsInOrder`
holds whatever the addresses are.  `Locate` is the address arithmetic with which
`memory` splits a scratchpad over blocks of at most `MAX_DEPTH` words.  The host
side feeds inputs from, and drains results into, one buffer.

### CycleBudget

The quotients in double are exact rationals, except that one which is an integer
may come out just below it; `Truncations` gives both outcomes when it is then
converted to an integer.

### Sha256Words, Sha256Kernel, Sha256Host

Words have `Width` bits and wrap.  What both programs have alike, the table of
round constants (equal entry by entry) and the four sigmas (equal rotations and
shifts), is a constant.  What they write differently is spelled out: `Ch` and
`Maj`, over bitwise operations known by what they do to each bit; the message
schedule, two words per iteration on the host; and the rounds.  The host keeps
the eight working variables where they are and turns their roles, so that role
`j` of round `r` is `S[(64 + j - r) % 8]`; the kernel moves them along, and adds
`w[t] + K[t]` to `h` one round early, while it is still `g`.

### SalsaKernel, SalsaHost

`xor_salsa8` adds words, turns the sum and takes it into a third word, 128 times.
The kernel does it in groups of four, which read before any of them writes; the
host writes every statement out, and each reads what the ones before it have
left.  `Columns` and `Rows` are the host's 32 statements of a double round as
`scrypt.c` has them, `Groups` the kernel's.  In the refinement the kernel does a
group with the host's first statement of it, so that the host's words are the
kernel's once the statements that are `Left` of the group are done too.

### HashStandards, RunHashing

`HashStandards` is written from the standards alone, for messages of any number
of words, over a compression function and a salsa core that may be anything:
`Sha256Host` and `SalsaHost` are about those.  `RunHashing` is the program's way:
`keypad`, `innerpad`, `outerpad` and `finalblk` of `sha2.h`, `HASH1_BITS` and
`HASH2_BITS` of the kernel, and one action per loop body.  `PrepareRun` hashes
the first block of the job once; `Before(k)` and `After(k)` are the two parallel
loops over the headers, whose threads take them in any order; `tstates` and
`ostates` wait while `DfeRun` mixes.  `DfeRun` may get any set of jobs wrong.  In
the self test, `RunCpuNew`, `CpuFill` and `CpuMix` do the same jobs again with one
scratchpad for all headers, and `Mismatched` is what is logged.  The kernel's
swap of the bytes of each nonce is in `ComputeHash1`.  `MCHostArithmetic` puts
the three parts side by side: a behaviour is one call of `sha256_transform`, one
of `xor_salsa8`, or one program's runs.

### ShareEncoding

A text is a sequence of digits, `HexToBytes` makes bytes of it, and from there
the coins part.  Bitcoin's bytes are packed into 64-bit scalar inputs
(`Scalars`), joined to raw bits by the kernel's library and sliced into words
(`Split32`, `Cat`), and the nonce is byte-swapped into its place among them.
Scrypt's bytes are decoded into words on the host (`Decoded`), and the nonce is
the last word as it is.  A hash is any digest: `CalcMatch` judges it as the
kernel does, in pieces of 16 bits and with the top word apart, `Smaller` as the
host does.  `Submit` writes the nonce into the text, as a number for bitcoin and
byte by byte for scrypt.  `SentIsHashed` then decodes the text of the share and
compares it with the words that were hashed.  Digits have a smaller base than
16, so that bytes, words and texts keep their shape with fewer values; texts have
the length the job needs.

## The runs

| Run | Question | Instance |
|---|---|---|
| `live_hybrid` | do slots, jobs, action set, buffers and answers stay apart in every interleaving, and are the rounds implemented? | both kernels, 2 slots (`NUM_WORKERS`), 2 jobs |
| `live_progress` | is every job answered and every slot served? | both kernels, 2 slots, 1 job |
| `bitcoin_run` | are the right nonces submitted, in exactly the ticks given? | 3 pipes, RAMs of 2, 10 nonces, all 1024 sets of matches |
| `bitcoin_overflow` | are all matches sent back? *(no)* | as above |
| `pool_session` | do the books agree, is no match lost, do retries end? | both coins, 2 jobs, 2 results each with any of 2 nonces, 3 rounds, 5 tries |
| `pool_silent` | is a share counted by its own answer? *(no)* | as above |
| `scrypt_run` | does every job get its own result, and does the run return? | 3 pipes, 7 slots in flight, 4 iterations, 2 batches, FIFO of 3 |
| `scrypt_ragged` | does a run return when the jobs are not whole batches? *(no)* | 2 pipes, 3 slots in flight, 7 jobs |
| `cycle_budget` | does scrypt fit the sweep, and fill it? | 435 builds, the source's test length and 1024 iterations |
| `cycle_rounding` | does `create_limits` round up? *(no)* | as above |
| `host_arithmetic` | do host and kernel compute the same functions, is each run's hash the standard's, and does the self test find what is wrong? | words of 6 bits; 64 rounds of SHA-256 on 4 blocks and 6 hash values; 128 statements of salsa on 4 by 4 halves; runs of 2 headers, 4 iterations, 3 bitcoin nonces, every set of faulty pipes, two runs in a row |
| `share_encoding` | is the share the header that was hashed, and is it below the target? | bytes of 2 bits, 3 data words, hashes of 3 words; 3 texts, 7 targets, 6 nonces, 216 digests |

Why the bounds are enough.  *Live loop:* threads of different slots meet only
through the dispatcher and the shared action set, and two slots are what the
program is built with; other numbers of slots, and bitstreams without one of the
kernels, are covered by the theorems.  Two jobs tell a thread's own job from any other; they are
interchangeable, hence the symmetry, which is left out where liveness is
checked.  *Bitcoin:* ten nonces on three pipes make the rounded length twelve, so
that the sweep wraps past two nonces; up to four matches of a pipe meet a RAM of
two, so that the counter wraps once and twice; jobs follow each other with the
RAMs as they were left.  *Pool:* three rounds are enough to mine two jobs and one
of them again; two results are enough for two records with one nonce, and for a
walk that breaks off before the second; the number of tries is the source's.  *Scrypt:* seven slots times
four iterations need a block of 16 words and one of 12, so that banks and the
boundary between them matter; three pipes make the tail two pipes long; two
batches give the hand-over from one to the next.  *Cycle budget:* the builds
vary every constant that enters the arithmetic around the values the parameters
declare.  *Host arithmetic:* all 64 rounds
and all 128 statements run; six bits are enough for carries to be lost, for the
bits of a word to differ and for three bytes of two bits to be swapped.  Within
the runs the compression function and the salsa core are mixtures in which
every word counts by its place, so that a word left out, doubled or moved shows
in the hash; the length in the padding is a different word for every length.  Two
headers tell one's hash values from another's and make the shared scratchpad
stale; two runs in a row do the same for the buffers; four iterations are enough
for an unwritten word of the scratchpad to be read.  *Encodings:* the source's four bytes
per word and three data words, so that the last scalar input is half empty; the
words have bytes that all differ, one byte set, all or none.

Deadlock is checked except where the modelled program ends or stops:
`host_arithmetic` models calls, which return, and a bounded number of runs,
`share_encoding` one attempt, and `scrypt_ragged` shows a run
that stops.  `LiveMiner`, `PoolSession` and `CycleBudget` have an explicit
stuttering step for the process that has exited or settled.

### Fairness

* `LiveMiner` (`live_progress`): weak fairness of the dispatcher and of every
  thread.  The operating system schedules them, `max_run` returns (for the run
  lengths that `BitcoinRun` and `ScryptRun` justify), and a semaphore has a
  single waiter, so that weak fairness is enough.  Fetching and submitting return
  because the pools answer.  The program sets no timeout on a transfer, so this
  last point is an assumption about the pools, and without it nothing progresses:
  one pool that never answers stops both coins in all slots.
* `PoolSession` (`FetchEnds`): a request returns, with an answer or without, and
  the thread is scheduled.
* `ScryptRun` (`RunReturns`): the kernel's clock ticks whenever its streams let
  it, and DMA moves a value whenever there is one to move and room for it.

## The theorems

TLC checks the instances above; the theorems hold for every value of the
constants that satisfies the named assumptions (at least one slot, one kernel,
one pipe, a length that is not zero, and so on).  TLC evaluates the assumptions
in every run.

**Live loop** (`LiveMinerProofs`; any number of slots, jobs, either or both
kernels).  No property of `LiveMiner` is inductive alone: that a run reads only
the slot's own jobs depends on who may be between `load_data_mutex` and
`data_mutex`.  The invariant `IInv` says four things.  `TypeOK`.  `Handshake`: of
the four semaphores between a thread and the dispatcher at most one is up, and
which one follows from where the two are.  `Control`: which threads exist, and
which hold a job.  `Data`: which scalars and buffers have been written from
which job at each location.  `InvariantHolds` proves it inductive action by
action; `RunsAreOwn`, `AnswersAreOwn`, `ActionsAreOwned` and `BuffersAreOwned`
follow from it, and `AnswersAreStable`, an action property, from one step under
it.  `RoundsImplemented` is the refinement: every step is a step of the rounds or
leaves their state alone; the end of a run answers the slot's jobs.

**Bitcoin run** (`BitcoinRunProofs`).  `RunInv` adds to the types where a run is
by its ticks (in the sweep, in the read-out or at its end), and that every RAM
cell below the write counter, and every record marked as a match, is of this
job.  From it, `CyclesSuffice`: the ticks end exactly when the records are out,
and `SharesAreHits`: only matches of the job are submitted, whatever RAMs and
buffer held before.  That none is missing needs the way of a match through the
whole run, and `ScanInv` follows it: at each tick a pipe's write counter is the
number of matches it has met so far modulo the size of its RAM (`Counted`); as
long as that is below the size, each of them is still in the RAM (`Kept`), in
the order they were met (`InOrder`); what has been read out is in the host's buffer
at its place (`Delivered`); and what the scan has passed has been submitted, in
the buffer's order (`Walked`).  `NothingMissed` concludes that a job whose matches fit
the RAMs has all of them submitted, `ReportsWrap` that a pipe reports as many as
it found modulo the size of its RAM, which is what `bitcoin_overflow` runs into,
and `SubmitsOnce` that a nonce is submitted twice only if the rounded sweep
passed it twice.

**Pool session** (`PoolSessionProofs`; any jobs, results, nonces, tries and
rounds).  `SessionInv` says that, as long as every answer has had a body, the
worker's job is one the pool issued, the pool has had shares of issued jobs only,
each at most once for each result with it that the walk has passed
(`OncePassed`), and the walk has passed no match without handing it in.
`OncePassed` is kept because a step that hands in a share also passes its result
(`TimesStep`), and because a new job is one the pool has had no share of.
`MatchesAreSent` and `ResultsSentOnce` follow.  `BooksHold` is proved from the
types alone, since both sides of the books move together.  `NoneIsCounted` needs
an invariant of its own, which says for the round in progress whether it, and
every round before it, was barren.

**Cycle budget** (`CycleBudgetProofs`; every build, every length, and so also the
live one of 2^32, which TLC's integers cannot hold).  `ScryptFitsAlways`,
`NoRoomEver` and `LengthStaysNear` carry the bounds of a truncated quotient, and
of the quotient one lower where the doubles may fall short, through the formulas
of `create_limits` and `dfe_init`.

**Scrypt run** (`ScryptRunProofs`).  `RunInv` is `TypeOK` and `CountInv`, which
ties the tick to batch and cycle counters, the start-up counter to both, and the
two streams to the windows in which the kernel reads and writes.  `CountsHold`
proves it, `CyclesSuffice` concludes that `nmax` batches and the tail of the
staggered pipes are exactly the ticks needed.  `ShapeAssumption` limits the shape
to what the kernel can be built with (more than half as many iterations as
pipes), and `BatchAssumption` makes the host's `nmax` fit its 16 bits.

`ScratchpadOwned` and `ResultsInOrder` are not inductive: what a pipe reads now
was written up to a batch ago, and what it writes to the stream depends on every
round in between.  `DataInv` adds to `RunInv` what each part of the kernel holds
while a run is on:

* `InStep`: a pipe's own counters are where the kernel's `n` and `cycleCount` say,
  `Cslow` ticks later per pipe; a pipe that has not started stands at its start;
* `LoopHolds`: the value of slot `t` in the loop of a pipe is its job, after as
  many rounds as the slot has had (`Done`), at the place `Index` in the loop;
* `MemoryHolds`: the cells that slot `t` has written in this batch hold the rounds
  of its own job, one round for each address;
* `InputsInOrder`: the stream and the rest of the buffer hold the inputs in order,
  and the input that is held is the last one read;
* `MuxInStep`: the output multiplexer is at the pipe and slot that end this tick.

Each has a lemma for the tick (`InStepTick`, `LoopTick`, `MemoryTick`,
`InputsTick`, `MuxTick`, `ResultsTick`).  `MemoryTick` rests on `Locate` being
one-to-one, so that no slot writes another's cell however the scratchpad is split,
`LoopTick` on the window of the reads passing over the pipes as they start, and
`ResultsTick` on nothing being written before it is read, since results replace
inputs in one buffer.  `DataHolds` puts them together; `ScratchpadsAreOwned` and
`ResultsAreInOrder` follow.  `JunkAssumption` says that `Junk` is no round of a job.

**SHA-256** (`HostArithmeticProofs`).  `HostImplementsKernel` is a refinement: the
kernel's working variables are the host's in the order of their roles, plus the
word of the coming round in `h`.  It rests on `TypeOK` and on lemmas about words:
addition is commutative and associative, cutting a sum of three once is as good
as cutting it twice (the kernel sums with bit growth), and, as `ChForms` and
`MajForms`, the two ways of writing `Ch` and `Maj` agree.

**Salsa** (`HostArithmeticProofs`).  `SalsaImplementsKernel`: for every word width and
every rotation, the host's statements are the kernel's groups.  The tables are
compared entry by entry, and the lemma behind the step is that four statements
of a group, done one after another, give what doing them at once gives, because
none reads a word that an earlier one of the group has written.

**Run hashing** (`RunHashingProofs`; every width of a word, compression function,
salsa core, power of two up to 1024 as the number of iterations, header and number
of headers).  The host has no SHA-256 for messages: it has blocks, padded by hand.
The proof goes from the blocks to the standards in five steps:

* *messages*: the length and the words of what is concatenated, cut out and filled
  up (`ConcatLemma`, `SubSeqLemma`, `PaddedLemma`);
* *recursion*: the standards chain blocks, derive bytes and mix scratchpads by
  recursive functions.  That these exist, and what they give, is shown by
  induction, `Induction`, which is the fact that a set of natural numbers that is
  not empty has a least element;
* *padding*: `TailBlock` says when the last block a program makes by hand is the
  last block of the padded message, and `Sha20` to `Sha49` apply it to the
  messages of the 20, 24, 37 and 49 words that occur;
* *functions*: with these `HMAC_SHA256_80_init` and the two derivations are HMAC and
  PBKDF2 (`HmacKey`, `DeriveFour`, `DeriveOne`), and filling and mixing are
  scryptROMix (`ROMixLemma`).  `ScryptInHalves` puts them together: what is begun
  from a midstate, mixed and finished is scrypt of the header;
* *the run*: `HashingInv` says at each stage how far each header has come.  Its
  parts are named for the stages: `BeforeInv` and `AfterInv` for the two parallel
  loops, where a header is either through or untouched, `OutputInv` for what waits
  between, `CpuInv`, `FillInv`, `MixInv` and `ComparedInv` for the self test, whose
  scratchpad is shared: `FillInv` speaks only of the words that this header has
  written.  `HashingInvariant` proves it action by action.

`OutputsAreScrypt`, `BlocksAreHashedTwice` and `FaultsAreAllLogged` follow.  The
assumptions are what the functions that the model leaves open must give: words,
for a word; that `Xor` is the bitwise one; that masking with `Iterations - 1` is the
remainder, which holds in the source because 1024 is a power of two
(`MaskAssumption`).

**Encodings** (`ShareEncodingProofs`; every base of the text, number of words before
the nonce, length of a hash, and everything a pool may send).  Bytes, words, scalar
inputs and slices are all digits of one number, in groups of different sizes, so
the proof is about numerals.  `NumeralBound` bounds them, `NumeralSplit` cuts them in
two, and from these come what the conversions do: `Regrouped` (bytes put together
to words and the words to a number are the bytes' number), `SliceOfNumeral` (some
bytes of a number are the number of those bytes) and `Expansion` (a number is the
numeral of its slices).  `BelowIsLess` and `NeitherIsSame` compare two numbers at
their highest digit that differs.  With them,

* `SlicesOfScalars`: what the kernel slices out of its raw bits is what the host
  packed into scalar inputs, also where the last input is filled up with zeros;
* `KernelMessage` and `HostMessage`: the words that are hashed are those of the
  header, with the nonce, byte-swapped or as it is, as the last;
* `PipelineIsLess`: the chain of 16-bit comparisons is the order of numbers;
  `KernelVerdict` adds the test of the top word, `HostVerdict` is the host's loop;
* `ShareText` and `NonceDigits`: the text of the share decodes to the header's words
  and, at the nonce's place, to the word that was hashed.

`EncodingInv` only holds these together along one attempt, and `SharesAreHashed` and
`VerdictsAreOrder` follow from it.  The kernel misses a hash below the target
only if the target's top word is not zero; a hash equal to the target, which the
host takes and the kernel does not, is left open.

## What is only model-checked

Liveness (`JobAnswered`, `EveryWorkerServed`, `FetchEnds`, `RunReturns`) needs
fairness and is beyond the prover.  Every invariant and action property that a
passing run checks is a theorem.  The runs with violations have no theorem: they
show single behaviours.

Two remarks on what the theorems do not say.  The compression function of
`RunHashing` and the one of `Sha256Host`, and its salsa core and the one of
`SalsaHost`, are not composed: the former are any functions, the latter are shown
to be the same on the host and in the kernel.  And the theorems about a run speak
of one coin's run alone; that the two run side by side in one call of `max_run`
is in `LiveMiner`, where a run is one step.

## What is not modelled

* `sha256d` of `sha2.c`, its padding included, and the 4- and 8-way code: nothing
  calls the former, the latter is not compiled.
* What `strtoul` makes of a text that has not the length the job needs.
* The rotations and the table of SHA-256 as such: both programs have the same, by
  comparison of the sources, and the model takes them as constants.
* `HybridMinerManager` and the engine parameters: they build a bitstream and have
  no state at run time.  Their constants are parameters of the models.
* The pipeline registers that the compiler inserts in the kernels.
* `ScryptControl.maxj`: no kernel uses it.
* Command line, log levels, timer: set-up and output.  Of the test mode, the
  length (`CycleBudget`) and the scrypt self test (`RunHashing`) are modelled.
* Inside libcurl, json-c and SLiC: external, modelled by what the code may see of
  them.  Two effects remain outside: `dfe_setup_run_bitcoin` and
  `dfe_setup_run_scrypt` of a slot call into SLiC at the same time for one action
  set, and `curl_global_init` is called by threads; each call is one step here.
* The length 2^32 of live mining in a run: TLC's integers have 32 bits, and
  `cycle_budget` uses the length of the test mode.  The theorems about the budget
  hold for any length.

## What the checks found

Each is shown by a run that expects a violation.

* `bitcoin_overflow`: a pipe's write counter wraps at the size of its RAM and a
  record counts as a match when its index is below the counter.  A pipe with as
  many matches as records reports none, and the last record is never reported
  (`BitcoinMinerKernel.maxj:147`).  Real targets make several matches in one pipe
  unlikely, easy pool targets less so.
* `pool_silent`: an answer without a body is parsed as the previous text
  (`gbuf.c:45`), so a share can be counted by another share's verdict.
* `scrypt_ragged`: without a bitcoin kernel `num_scrypt` is `2000000 /
  Scrypt_ComputeUnit` (`dfe.c:212`), which need not be a multiple of the compute
  unit; the last inputs and outputs are then queued but never processed, and
  `max_run` does not return.
* `cycle_rounding`: `create_limits` truncates ticks before it rounds up
  (`dfe.c:118`) and may return fewer nonces than it was given: 9999980 for
  10000000.

Seen while modelling, without a run: the scrypt worker's message says "after 5
tries" when it has made six (`scrypt.c:257`, `:264`).  The scrypt worker stops
walking at the first rejected share (`scrypt.c:447`) and counts fruitless jobs
only until its first share (`scrypt.c:456`); `NoMatchForgotten` and `NoneCounts`
state what holds all the same.  The bitcoin kernel demands that the top word of
the hash is zero and ignores the target's (`BitcoinMinerKernel.maxj:231`): with an
easier target it misses shares, but reports no wrong one; `FoundIsBelow` states
both.  The bitcoin self test logs that it passed whatever it found
(`bitcoin.c:196`).  The scrypt self test takes its CPU nonces from the header's own
on (`scrypt.c:517`) where the DFE's start at 0 (`scrypt.c:371`); the two agree only
because the test's job has the nonce 0, which `RunAssumption` states.

## Plan

The order was: the live loop first, since everything shares it, then the bitcoin
run, the pool session, the scrypt run, the cycle budget, SHA-256, the encodings,
and then salsa and what surrounds both on the host; the proofs followed the same
order.  What is left:

1. *Composition*: a live round whose run is `BitcoinRun` and `ScryptRun` side by
   side, with the ticks `CycleBudget` gives them.
2. *Arithmetic as one*: the compression function of the standard, by recursion
   over the rounds; `Sha256Host` shown to compute it, and likewise `SalsaHost` the
   salsa core, so that `RunHashing` holds over what the two compute.

## Running it

    tlc -config LiveHybrid.cfg MCLiveMiner      # and so on, see PROJECT.json
    tlapm LiveMinerProofs.tla                   # and the other *Proofs modules

Each run takes about a minute or less on two cores.  An operator marked as a mutant is not used by the specification:
it is the form a definition would take with a plausible mistake in the code, and
replacing the definition by it makes TLC refute the property that `PROJECT.json`
names.
