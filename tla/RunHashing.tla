----------------------------- MODULE RunHashing -----------------------------
(***************************************************************************)
(* What one run hashes, for both coins, in live mode and in the self test  *)
(* of run_test.  Neither coin is hashed by a general SHA-256: every block  *)
(* is put together by hand, with its padding and its length, on the host   *)
(* and in the bitcoin kernel.  Scrypt is begun on the host, mixed on the   *)
(* DFE and finished on the host, which keeps two hash values per header in *)
(* between; the self test does it all again on the CPU and compares.  One  *)
(* header stands for the jobs of both coins.                               *)
(*                                                                         *)
(* The DFE returns for each scrypt job what the standard says, or anything *)
(* else: a fault, which the self test is there to find.                    *)
(***************************************************************************)
EXTENDS HashStandards

CONSTANTS
  NumScrypt,                          \* dfe_get_num_scrypt: jobs of a run
  Headers,                            \* the twenty words of a job, as decoded
  TestHeader,                         \* scrypt_generate_test_work
  BlockNonces,                        \* bitcoin nonces tried
  Garbage,                            \* what a faulty pipe returns
  MaxRuns                             \* bound: runs of the live loop

Items == 0 .. NumScrypt - 1

ASSUME RunAssumption ==
  /\ NumScrypt \in Nat \ {0} /\ NumScrypt <= Modulus /\ MaxRuns \in Nat
  /\ Headers \subseteq Words(20) /\ TestHeader \in Words(20) /\ TestHeader[20] = 0
  /\ BlockNonces \subseteq Word /\ Garbage \in Words(32)

VARIABLES
  stage,        \* "idle", "before", "dfe", "after", "hashed", "fill", "mix", "compared"
  testing,      \* args.test
  runs,         \* jobs fetched
  header,       \* work.result.data
  left,         \* headers the parallel loop has still to do
  midstate,
  tstates, ostates, X, output,        \* the worker's buffers, and the hashes
  bad,          \* the jobs the DFE has got wrong
  block,        \* the bitcoin kernel: a nonce, and hash2 of it
  cpu,          \* dfescrypt_cpu: its tstates, ostates and X
  p, iter, V,      \* its loops over headers and iterations, and its scratchpad
  mismatches    \* what the self test logs

buffers == <<tstates, ostates, X, output>>
cpuVars == <<cpu, p, iter, V>>
hashingVars == <<stage, testing, runs, header, left, midstate, buffers, bad, block, cpuVars, mismatches>>

-----------------------------------------------------------------------------
\* sha2.h: what follows the message in a block; the lengths are 0x280, 0x4a0, 0x300
\* and 0x620 bits.
keypad == <<TopBit>> \o Zeros(10) \o <<LengthWord(640)>>
innerpad == <<TopBit>> \o Zeros(9) \o <<LengthWord(1184)>>
outerpad == <<TopBit>> \o Zeros(6) \o <<LengthWord(768)>>
finalblk == <<1, TopBit>> \o Zeros(13) \o <<LengthWord(1568)>>

\* HMAC_SHA256_80_init, which is given the midstate of the key in tstate.
HmacInit(key, tstate) ==
  LET ihash == Compress(tstate, SubSeq(key, 17, 20) \o keypad)
  IN [o |-> Compress(InitialHash, Masked(ihash, Opad) \o Fill(8, Opad)),
      t |-> Compress(InitialHash, Masked(ihash, Ipad) \o Fill(8, Ipad))]

\* PBKDF2_SHA256_80_128
Derive80to128(tstate, ostate, salt) ==
  LET istate == Compress(tstate, SubSeq(salt, 1, 16))
      obuf(k) == Compress(istate, SubSeq(salt, 17, 20) \o <<k>> \o innerpad)
      part(k) == Swabbed(Compress(ostate, obuf(k) \o outerpad))
  IN part(1) \o part(2) \o part(3) \o part(4)

\* (Mutant: the words from the DFE are hashed as they are.)
NoSwap(tstate, ostate, salt) ==
  LET first == Compress(tstate, SubSeq(salt, 1, 16))
      inner == Compress(Compress(first, SubSeq(salt, 17, 32)), finalblk)
      outer == Compress(ostate, inner \o outerpad)
  IN [t |-> inner, o |-> outer, hash |-> Swabbed(outer)]

\* PBKDF2_SHA256_128_32, which uses tstate and ostate up.
Derive128to32(tstate, ostate, salt) ==
  LET first == Compress(tstate, Swabbed(SubSeq(salt, 1, 16)))
      inner == Compress(Compress(first, Swabbed(SubSeq(salt, 17, 32))), finalblk)
      outer == Compress(ostate, inner \o outerpad)
  IN [t |-> inner, o |-> outer, hash |-> Swabbed(outer)]

\* The header a worker hashes for its k-th job.
WithNonce(words, nonce) == [words EXCEPT ![20] = nonce]

\* SHA256_before on one header.
Begun(words, state) ==
  LET key == HmacInit(words, state)
  IN [t |-> key.t, o |-> key.o, x |-> Derive80to128(key.t, key.o, words)]

-----------------------------------------------------------------------------
\* The bitcoin kernel.

HASH1_BITS == <<TopBit>> \o Zeros(10) \o <<LengthWord(640)>>
HASH2_BITS == <<TopBit>> \o Zeros(6) \o <<LengthWord(256)>>

ShortPad(state, block2Start, nonce) ==     \* (Mutant: the length of the second block alone.)
  Compress(state, block2Start \o <<Swab(nonce)>> \o <<TopBit>> \o Zeros(10) \o <<LengthWord(128)>>)
ComputeHash1(state, block2Start, nonce) ==
  Compress(state, block2Start \o <<Swab(nonce)>> \o HASH1_BITS)
ComputeHash2(hash1) == Compress(InitialHash, hash1 \o HASH2_BITS)

\* The midstate a pool sends with its work.
PoolMidstate(words) == Compress(InitialHash, SubSeq(words, 1, 16))

-----------------------------------------------------------------------------
HashingInit ==
  /\ stage = "idle" /\ testing \in BOOLEAN /\ runs = 0
  /\ header = TestHeader /\ left = {}
  /\ midstate = InitialHash
  /\ tstates = [k \in Items |-> InitialHash] /\ ostates = [k \in Items |-> InitialHash]
  /\ X = [k \in Items |-> Garbage] /\ output = [k \in Items |-> Zeros(8)]
  /\ bad = {} /\ block = [nonce |-> 0, hash2 |-> Zeros(8)]
  /\ cpu = <<>> /\ p = 0 /\ iter = 0 /\ V = [k \in 0 .. Iterations - 1 |-> Garbage]
  /\ mismatches = {}

\* The job: one of the test's, or one after another of the pool's.  The hash of
\* its first block is computed once for all nonces (scrypt_prepare_run).
PrepareRun ==
  /\ stage = "idle" /\ stage' = "before"
  /\ IF testing THEN runs = 0 /\ header' = TestHeader
     ELSE runs < MaxRuns /\ header' \in Headers
  /\ runs' = runs + 1
  /\ midstate' = Compress(InitialHash, SubSeq(header', 1, 16))
  /\ left' = Items
  /\ UNCHANGED <<testing, buffers, bad, block, cpuVars, mismatches>>

\* One header of the first parallel loop; the threads take them in any order.
Before(k) ==
  /\ stage = "before" /\ k \in left
  /\ LET begun == Begun(WithNonce(header, k), midstate)
     IN /\ tstates' = [tstates EXCEPT ![k] = begun.t]
        /\ ostates' = [ostates EXCEPT ![k] = begun.o]
        /\ X' = [X EXCEPT ![k] = begun.x]
  /\ left' = left \ {k}
  /\ stage' = IF left' = {} THEN "dfe" ELSE stage
  /\ UNCHANGED <<testing, runs, header, midstate, output, bad, block, cpuVars, mismatches>>

\* dfe_process: both kernels.
DfeRun ==
  /\ stage = "dfe" /\ stage' = "after"
  /\ bad' \in SUBSET Items
  /\ X' = [k \in Items |-> IF k \in bad' THEN Garbage ELSE ROMix(X[k])]
  /\ \E nonce \in BlockNonces :
       block' = [nonce |-> nonce,
                 hash2 |-> ComputeHash2(ComputeHash1(PoolMidstate(header), SubSeq(header, 17, 19), nonce))]
  /\ left' = Items
  /\ UNCHANGED <<testing, runs, header, midstate, tstates, ostates, output, cpuVars, mismatches>>

\* One header of the second loop: SHA256_after.  It is parallel in live mode and
\* walks through the headers in the self test.
After(k) ==
  /\ stage = "after" /\ k \in left
  /\ testing => \A j \in left : k <= j
  /\ LET done == Derive128to32(tstates[k], ostates[k], X[k])
     IN /\ tstates' = [tstates EXCEPT ![k] = done.t]
        /\ ostates' = [ostates EXCEPT ![k] = done.o]
        /\ output' = [output EXCEPT ![k] = done.hash]
  /\ left' = left \ {k}
  /\ stage' = IF left' = {} THEN "hashed" ELSE stage
  /\ UNCHANGED <<testing, runs, header, midstate, X, bad, block, cpuVars, mismatches>>

\* The live loop is done with the hashes, and the next job is fetched.
NextJob ==
  /\ stage = "hashed" /\ ~testing /\ stage' = "idle"
  /\ UNCHANGED <<testing, runs, header, left, midstate, buffers, bad, block, cpuVars, mismatches>>

\* run_cpu_new, up to the loops of dfescrypt_cpu: its nonces start with the
\* header's own, where scrypt_prepare_run starts with 0.
RunCpuNew ==
  /\ stage = "hashed" /\ testing /\ stage' = "fill"
  /\ cpu' = [k \in Items |-> Begun(WithNonce(header, Low(header[20] + k)),
                                   Compress(InitialHash, SubSeq(header, 1, 16)))]
  /\ p' = 0 /\ iter' = 0
  /\ UNCHANGED <<testing, runs, header, left, midstate, buffers, bad, block, V, mismatches>>

\* xor_salsa8(&Y[0], &Y[16]); xor_salsa8(&Y[16], &Y[0])
XorSalsas(Y) ==
  LET first == Salsa(XorWords(SubSeq(Y, 1, 16), SubSeq(Y, 17, 32)))
  IN first \o Salsa(XorWords(SubSeq(Y, 17, 32), first))

\* (Mutant: the last word is not filled.)
FillShort == iter < Iterations - 2
FillMore == iter < Iterations - 1

\* The first loop over a header, which fills the scratchpad.
CpuFill ==
  /\ stage = "fill"
  /\ V' = [V EXCEPT ![iter] = cpu[p].x]
  /\ cpu' = [cpu EXCEPT ![p].x = XorSalsas(@)]
  /\ IF FillMore THEN iter' = iter + 1 /\ UNCHANGED stage ELSE iter' = 0 /\ stage' = "mix"
  /\ UNCHANGED <<testing, runs, header, left, midstate, buffers, bad, block, p, mismatches>>

\* What the self test logs: the headers whose two hashes differ.
Mismatched(done) ==
  {k \in Items : output[k] # Derive128to32(done[k].t, done[k].o, done[k].x).hash}

\* The second loop, which reads it; after the last header, both sets of hashes
\* are compared.
CpuMix ==
  /\ stage = "mix"
  /\ LET j == And(cpu[p].x[17], Iterations - 1)
     IN cpu' = [cpu EXCEPT ![p].x = XorSalsas(XorWords(@, V[j]))]
  /\ IF iter < Iterations - 1 THEN iter' = iter + 1 /\ UNCHANGED <<stage, p, mismatches>>
     ELSE /\ iter' = 0
          /\ IF p < NumScrypt - 1 THEN p' = p + 1 /\ stage' = "fill" /\ UNCHANGED mismatches
             ELSE p' = p /\ stage' = "compared" /\ mismatches' = Mismatched(cpu')
  /\ UNCHANGED <<testing, runs, header, left, midstate, buffers, bad, block, V>>

HashingNext ==
  \/ PrepareRun \/ DfeRun \/ NextJob \/ RunCpuNew \/ CpuFill \/ CpuMix
  \/ \E k \in Items : Before(k) \/ After(k)

HashingSpec == HashingInit /\ [][HashingNext]_hashingVars

-----------------------------------------------------------------------------
\* Properties.

\* What a run should find for each header and nonce.
ScryptOf == [words \in Headers \cup {TestHeader} |->
               [k \in Items |-> Scrypt(WithNonce(words, k))]]

\* Hash k is scrypt of the job's header with nonce k, for every job the DFE has
\* mixed right: the midstate is computed once, the hash values wait in tstates and
\* ostates while the DFE runs and are used up by it, and every pad has its length
\* (SHA256_before and SHA256_after of scrypt.c, sha2.h:14-25).
OutputIsScrypt ==
  stage \in {"hashed", "fill", "mix", "compared"} =>
    \A k \in Items \ bad : output[k] = ScryptOf[header][k]

\* The bitcoin kernel hashes the header with the nonce's bytes swapped, twice
\* (computeHash1 and computeHash2 with HASH1_BITS, HASH2_BITS and the pool's midstate).
BlockIsHashedTwice ==
  stage \notin {"idle", "before", "dfe"} =>
    block.hash2 = DoubleSha256(WithNonce(header, Swab(block.nonce)))

\* The self test logs exactly the jobs whose hash is not scrypt of their header: it
\* misses no fault, and blames no correct pipe (scrypt_process_test_result).
FaultsAreLogged ==
  stage = "compared" =>
    mismatches = {k \in Items : output[k] # ScryptOf[header][k]}

=============================================================================
