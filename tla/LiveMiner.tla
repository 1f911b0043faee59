----------------------------- MODULE LiveMiner -----------------------------
(***************************************************************************)
(* The live mining loop: run_live, run_bitcoin and run_scrypt of           *)
(* APP/CPUCode/main.c, with the part of common/dfe.c they share.           *)
(*                                                                         *)
(* One dispatcher (the main thread) and, per worker slot, one bitcoin and  *)
(* one scrypt thread.  For every slot and kernel four semaphores carry the *)
(* hand-shake                                                              *)
(*                                                                         *)
(*      thread       process_mutex      ->  dispatcher   (work fetched)    *)
(*      dispatcher   load_data_mutex    ->  thread       (set up actions)  *)
(*      thread       dfe_data_ready_mutex -> dispatcher  (actions set up)  *)
(*      dispatcher   data_mutex         ->  thread       (results ready)   *)
(*                                                                         *)
(* All threads write their job into ONE action set, ctx->actions, and the  *)
(* DFE reads and writes the buffers of the slot being processed.  Nothing  *)
(* but the semaphores keeps them apart.                                    *)
(*                                                                         *)
(* A semaphore operation, a scalar write, and the start and the end of a   *)
(* DFE run are steps of their own.  Fetching and submitting work are one   *)
(* step each here: nothing another thread can see happens inside them.     *)
(***************************************************************************)
EXTENDS Integers

CONSTANTS
  NumWorkers,   \* NUM_WORKERS
  Kernels,      \* kernels with at least one pipe in the bitstream
  Jobs,         \* jobs the pools hand out
  None          \* no job (uninitialised memory)

Kinds == {"bc", "s"}

ASSUME NumWorkersAssumption == NumWorkers \in Nat \ {0}
ASSUME KernelsAssumption == Kernels \subseteq Kinds /\ Kernels # {}
ASSUME JobsAssumption == None \notin Jobs

Workers == 0 .. NumWorkers - 1

\* The parts of the bitcoin job that are written as scalar inputs.
Fields == {"target", "midstate", "hash1block2"}

VARIABLES
  dpc,                   \* operation the dispatcher performs next
  dk,                    \* kind whose half of that operation is next
  boot,                  \* slot being created
  cur,                   \* worker_to_process
  pc,                    \* pc[k][w]: where the k thread of slot w is
  process_mutex, load_data_mutex, dfe_data_ready_mutex, data_mutex,
  work,                  \* work[k][w]: bitcoin_work / scrypt_work
  scalars,               \* job each scalar of ctx->actions was taken from
  ticks,                 \* ticks[k]: the cycle count of kernel k has been set
  queued,                \* slots whose buffers are queued in ctx->actions
  bitcoin_output,        \* per slot: the scalars its records come from
  scrypt_buffer,         \* per slot: what the in-place buffer holds
  alive                  \* FALSE once some thread has called LOG_FATAL

semaphores == <<process_mutex, load_data_mutex, dfe_data_ready_mutex, data_mutex>>
actions == <<scalars, ticks, queued>>
buffers == <<bitcoin_output, scrypt_buffer>>
dispatcher == <<dpc, dk, boot, cur>>
vars == <<dispatcher, pc, semaphores, work, actions, buffers, alive>>

-----------------------------------------------------------------------------
\* Dispatcher and thread locations.

Booting == dpc \in {"sem_init", "create"}

\* The dispatcher handles bitcoin before scrypt in every operation.
Past(k) == k = "bc" /\ dk = "s"

\* First location of a thread, and the one after its results are handed over:
\* a thread without a kernel only takes part in the hand-shake.
LoopStart(k) == IF k \in Kernels THEN "getwork" ELSE "process"
\* (Mutant: the target is not written, as if it never changed.)
StaleTarget(k) == CASE k \notin Kernels -> "ready"
                    [] k \in Kernels /\ k = "bc" -> "midstate"
                    [] k \in Kernels /\ k = "s" -> "ticks"
SetupStart(k) == CASE k \notin Kernels -> "ready"
                   [] k \in Kernels /\ k = "bc" -> "target"
                   [] k \in Kernels /\ k = "s" -> "ticks"

Setup == {"target", "midstate", "hash1block2", "ticks"}

NextField == [target |-> "midstate", midstate |-> "hash1block2", hash1block2 |-> "ticks"]

Raw == [content |-> "raw", job |-> None]
Input(j) == [content |-> "input", job |-> j]
Output(j) == [content |-> "output", job |-> j]

\* What the scrypt kernel leaves in a buffer it was given.
ScryptResult(b) == IF b.content = "input" THEN Output(b.job) ELSE Raw

\* sem_post and the effect of a successful sem_wait.
Up(sem, k, w) == [sem EXCEPT ![k][w] = @ + 1]
Down(sem, k, w) == [sem EXCEPT ![k][w] = @ - 1]

Init ==
  /\ dpc = "sem_init"
  /\ dk = "bc"
  /\ boot = 0
  /\ cur = 0
  /\ pc = [k \in Kinds |-> [w \in Workers |-> "unborn"]]
  /\ process_mutex = [k \in Kinds |-> [w \in Workers |-> 0]]
  /\ load_data_mutex = [k \in Kinds |-> [w \in Workers |-> 0]]
  /\ dfe_data_ready_mutex = [k \in Kinds |-> [w \in Workers |-> 0]]
  /\ data_mutex = [k \in Kinds |-> [w \in Workers |-> 0]]
  /\ work = [k \in Kinds |-> [w \in Workers |-> None]]
  /\ scalars = [f \in Fields |-> None]
  /\ ticks = [k \in Kinds |-> FALSE]
  /\ queued = {}
  /\ bitcoin_output = [w \in Workers |-> [f \in Fields |-> None]]
  /\ scrypt_buffer = [w \in Workers |-> Raw]
  /\ alive = TRUE

-----------------------------------------------------------------------------
\* The dispatcher: run_live.

\* (Mutant: the semaphores of every slot are initialised in every iteration.)
InitAllSems ==
  /\ dpc = "sem_init"
  /\ process_mutex' = [k \in Kinds |-> [w \in Workers |-> 0]]
  /\ load_data_mutex' = [k \in Kinds |-> [w \in Workers |-> 0]]
  /\ dfe_data_ready_mutex' = [k \in Kinds |-> [w \in Workers |-> 0]]
  /\ data_mutex' = [k \in Kinds |-> [w \in Workers |-> 0]]
  /\ dpc' = "create"
  /\ UNCHANGED <<dk, boot, cur, pc, work, actions, buffers>>

\* sem_init of the eight semaphores of slot boot.
InitSems ==
  /\ dpc = "sem_init"
  /\ process_mutex' = [k \in Kinds |-> [process_mutex[k] EXCEPT ![boot] = 0]]
  /\ load_data_mutex' = [k \in Kinds |-> [load_data_mutex[k] EXCEPT ![boot] = 0]]
  /\ dfe_data_ready_mutex' = [k \in Kinds |-> [dfe_data_ready_mutex[k] EXCEPT ![boot] = 0]]
  /\ data_mutex' = [k \in Kinds |-> [data_mutex[k] EXCEPT ![boot] = 0]]
  /\ dpc' = "create"
  /\ UNCHANGED <<dk, boot, cur, pc, work, actions, buffers>>

\* pthread_create: bitcoin, then scrypt, then the next slot or the main loop.
CreateThread(k) ==
  /\ dpc = "create"
  /\ dk = k
  /\ pc' = [pc EXCEPT ![k][boot] = LoopStart(k)]
  /\ IF k = "bc"
       THEN dk' = "s" /\ UNCHANGED <<dpc, boot>>
       ELSE /\ dk' = "bc"
            /\ IF boot + 1 \in Workers
                 THEN boot' = boot + 1 /\ dpc' = "sem_init"
                 ELSE dpc' = "process" /\ UNCHANGED boot
  /\ UNCHANGED <<cur, semaphores, work, actions, buffers>>

\* The dispatcher has done kind k's half of an operation; "then" follows scrypt.
Advance(k, then) ==
  /\ dk' = IF k = "bc" THEN "s" ELSE "bc"
  /\ dpc' = IF k = "bc" THEN dpc ELSE then
  /\ UNCHANGED boot

\* sem_wait on process_mutex: wait until the thread has fetched work.
AwaitWork(k) ==
  /\ dpc = "process" /\ dk = k
  /\ process_mutex[k][cur] > 0
  /\ process_mutex' = Down(process_mutex, k, cur)
  /\ Advance(k, "load")
  /\ UNCHANGED <<cur, pc, load_data_mutex, dfe_data_ready_mutex, data_mutex,
                 work, actions, buffers>>

\* sem_post on load_data_mutex: let the thread set up ctx->actions.
SignalLoad(k) ==
  /\ dpc = "load" /\ dk = k
  /\ load_data_mutex' = Up(load_data_mutex, k, cur)
  /\ Advance(k, "ready")
  /\ UNCHANGED <<cur, pc, process_mutex, dfe_data_ready_mutex, data_mutex,
                 work, actions, buffers>>

\* sem_wait on dfe_data_ready_mutex: wait until the thread has set them up.
AwaitReady(k) ==
  /\ dpc = "ready" /\ dk = k
  /\ dfe_data_ready_mutex[k][cur] > 0
  /\ dfe_data_ready_mutex' = Down(dfe_data_ready_mutex, k, cur)
  /\ Advance(k, "queue")
  /\ UNCHANGED <<cur, pc, process_mutex, load_data_mutex, data_mutex,
                 work, actions, buffers>>

\* max_clear_queues, then the queueing of the slot's buffers.
NoClear == queued   \* (Mutant: max_clear_queues is left out.)
AfterClear == {}
QueueBuffers ==
  /\ dpc = "queue"
  /\ queued' = AfterClear \cup {cur}
  /\ dpc' = "running"
  /\ UNCHANGED <<dk, boot, cur, pc, semaphores, work, scalars, ticks, buffers>>

\* max_run returns: the DFE has read the scalars and the input buffer and has
\* overwritten every queued buffer.  A kernel that is not there has none.
RunDone ==
  /\ dpc = "running"
  /\ bitcoin_output' = [w \in Workers |->
       IF "bc" \in Kernels /\ w \in queued THEN scalars ELSE bitcoin_output[w]]
  /\ scrypt_buffer' = [w \in Workers |->
       IF "s" \in Kernels /\ w \in queued THEN ScryptResult(scrypt_buffer[w])
                                           ELSE scrypt_buffer[w]]
  /\ dpc' = "data"
  /\ UNCHANGED <<dk, boot, cur, pc, semaphores, work, actions>>

\* (Mutant: the slot is not advanced.)
SameWorker(w) == w
NextWorker(w) == (w + 1) % NumWorkers

\* sem_post on data_mutex: hand the results over; after scrypt's, move on.
SignalData(k) ==
  /\ dpc = "data" /\ dk = k
  /\ data_mutex' = Up(data_mutex, k, cur)
  /\ Advance(k, "process")
  /\ cur' = IF k = "s" THEN NextWorker(cur) ELSE cur
  /\ UNCHANGED <<pc, process_mutex, load_data_mutex, dfe_data_ready_mutex,
                 work, actions, buffers>>

Dispatch ==
  /\ alive
  /\ UNCHANGED alive
  /\ \/ InitSems \/ QueueBuffers \/ RunDone
     \/ \E k \in Kinds : \/ CreateThread(k) \/ AwaitWork(k) \/ SignalLoad(k)
                         \/ AwaitReady(k) \/ SignalData(k)

-----------------------------------------------------------------------------
\* The worker threads: run_bitcoin (k = "bc") and run_scrypt (k = "s").

Goto(k, w, loc) == pc' = [pc EXCEPT ![k][w] = loc]

\* bitcoin_send_getwork / scrypt_send_getwork, once it has an answer.
Getwork(k, w) ==
  /\ pc[k][w] = "getwork"
  /\ \E j \in Jobs : work' = [work EXCEPT ![k][w] = j]
  /\ Goto(k, w, IF k = "s" THEN "prepare" ELSE "process")
  /\ UNCHANGED <<dispatcher, semaphores, actions, buffers>>

\* scrypt_prepare_run: fill the slot's buffer with the kernel's input.
Prepare(w) ==
  /\ pc["s"][w] = "prepare"
  /\ scrypt_buffer' = [scrypt_buffer EXCEPT ![w] = Input(work["s"][w])]
  /\ Goto("s", w, "process")
  /\ UNCHANGED <<dispatcher, semaphores, work, actions, bitcoin_output>>

PostProcess(k, w) ==
  /\ pc[k][w] = "process"
  /\ process_mutex' = Up(process_mutex, k, w)
  /\ Goto(k, w, "load")
  /\ UNCHANGED <<dispatcher, load_data_mutex, dfe_data_ready_mutex, data_mutex,
                 work, actions, buffers>>

\* (Mutant: the thread does not wait for its turn to set up the actions.)
EagerWaitLoad(k, w) ==
  /\ pc[k][w] = "load"
  /\ Goto(k, w, SetupStart(k))
  /\ UNCHANGED <<dispatcher, semaphores, work, actions, buffers>>

WaitLoad(k, w) ==
  /\ pc[k][w] = "load"
  /\ load_data_mutex[k][w] > 0
  /\ load_data_mutex' = Down(load_data_mutex, k, w)
  /\ Goto(k, w, SetupStart(k))
  /\ UNCHANGED <<dispatcher, process_mutex, dfe_data_ready_mutex, data_mutex,
                 work, actions, buffers>>

\* One set_multi_scalar_inputs of dfe_setup_run_bitcoin.
SetScalar(w) ==
  /\ pc["bc"][w] \in Fields
  /\ scalars' = [scalars EXCEPT ![pc["bc"][w]] = work["bc"][w]]
  /\ Goto("bc", w, NextField[pc["bc"][w]])
  /\ UNCHANGED <<dispatcher, semaphores, work, ticks, queued, buffers>>

\* Control.base, Control.length and max_set_ticks of dfe_setup_run_bitcoin, or
\* dfe_setup_run_scrypt: values that are the same in every round.
SetTicks(k, w) ==
  /\ pc[k][w] = "ticks"
  /\ ticks' = [ticks EXCEPT ![k] = TRUE]
  /\ Goto(k, w, "ready")
  /\ UNCHANGED <<dispatcher, semaphores, work, scalars, queued, buffers>>

PostReady(k, w) ==
  /\ pc[k][w] = "ready"
  /\ dfe_data_ready_mutex' = Up(dfe_data_ready_mutex, k, w)
  /\ Goto(k, w, "data")
  /\ UNCHANGED <<dispatcher, process_mutex, load_data_mutex, data_mutex,
                 work, actions, buffers>>

\* (Mutant: the thread does not wait for the end of the run.)
EagerWaitData(k, w) ==
  /\ pc[k][w] = "data"
  /\ Goto(k, w, IF k \in Kernels THEN "submit" ELSE "process")
  /\ UNCHANGED <<dispatcher, semaphores, work, actions, buffers>>

WaitData(k, w) ==
  /\ pc[k][w] = "data"
  /\ data_mutex[k][w] > 0
  /\ data_mutex' = Down(data_mutex, k, w)
  /\ Goto(k, w, IF k \in Kernels THEN "submit" ELSE "process")
  /\ UNCHANGED <<dispatcher, process_mutex, load_data_mutex, dfe_data_ready_mutex,
                 work, actions, buffers>>

\* bitcoin_/scrypt_process_result_and_send_work; work goes out of scope.
Submit(k, w) ==
  /\ pc[k][w] = "submit"
  /\ work' = [work EXCEPT ![k][w] = None]
  /\ Goto(k, w, "getwork")
  /\ UNCHANGED <<dispatcher, semaphores, actions, buffers>>

Thread(k, w) ==
  /\ alive
  /\ UNCHANGED alive
  /\ \/ Getwork(k, w) \/ PostProcess(k, w) \/ WaitLoad(k, w)
     \/ SetTicks(k, w) \/ PostReady(k, w) \/ WaitData(k, w) \/ Submit(k, w)
     \/ k = "bc" /\ SetScalar(w)
     \/ k = "s" /\ Prepare(w)

\* LOG_FATAL: exit(1) of the whole process.  Threads reach it while talking to
\* the pool, the dispatcher when max_run reports an error.
Fatal ==
  /\ alive
  /\ \/ \E k \in Kinds, w \in Workers : pc[k][w] \in {"getwork", "submit"}
     \/ dpc = "running"
  /\ alive' = FALSE
  /\ UNCHANGED <<dispatcher, pc, semaphores, work, actions, buffers>>

\* A dead process stays dead (a self-loop, so that deadlock can be checked).
Halted == ~alive /\ UNCHANGED vars

Next ==
  \/ Dispatch
  \/ \E k \in Kinds, w \in Workers : Thread(k, w)
  \/ Fatal
  \/ Halted

Spec == Init /\ [][Next]_vars

\* The scheduler runs every thread, max_run returns, and every request to a
\* pool is answered (curl is given no timeout, so this is an assumption).
FairSpec ==
  /\ Spec
  /\ WF_vars(Dispatch)
  /\ \A k \in Kinds, w \in Workers : WF_vars(Thread(k, w))

-----------------------------------------------------------------------------
\* What the dispatcher is doing for the k thread of slot w:
\*   idle     not waiting for it: its turn has not come, or is over
\*   taken    it has been told that work is fetched
\*   loading  it has let the thread set up the actions
\*   armed    it has been told that the actions are set up
Disp(k, w) ==
  CASE Booting \/ w # cur -> "idle"
    [] ~Booting /\ w = cur /\ dpc = "process" -> IF Past(k) THEN "taken" ELSE "idle"
    [] ~Booting /\ w = cur /\ dpc = "load" -> IF Past(k) THEN "loading" ELSE "taken"
    [] ~Booting /\ w = cur /\ dpc = "ready" -> IF Past(k) THEN "armed" ELSE "loading"
    [] ~Booting /\ w = cur /\ dpc \in {"queue", "running"} -> "armed"
    [] ~Booting /\ w = cur /\ dpc = "data" -> IF Past(k) THEN "idle" ELSE "armed"

\* The thread of kernel k in slot w holds a job the DFE has answered.
Answered(k, w) ==
  /\ k \in Kernels
  /\ \/ pc[k][w] = "submit"
     \/ pc[k][w] = "data" /\ (data_mutex[k][w] > 0 \/ (w = cur /\ dpc = "data"))

\* Locations: all of them, those where a thread works on its own, and, per
\* scalar, those of a round in which it has been written.
Locations == {"unborn", "getwork", "prepare", "process", "load", "ready", "data", "submit"} \cup Setup
Private == {"unborn", "getwork", "prepare", "process", "submit"}
Before(f) == CASE f = "target" -> {"target"}
               [] f = "midstate" -> {"target", "midstate"}
               [] f = "hash1block2" -> {"target", "midstate", "hash1block2"}
Has(k, loc) ==
  CASE loc \in {"getwork", "submit"} -> k \in Kernels
    [] loc \in {"prepare"} -> k = "s" /\ k \in Kernels
    [] loc \in Fields -> k = "bc" /\ k \in Kernels
    [] loc = "ticks" -> k \in Kernels
    [] OTHER -> TRUE

TypeOK ==
  /\ dpc \in {"sem_init", "create", "process", "load", "ready", "queue", "running", "data"}
  /\ dk \in Kinds
  /\ boot \in Workers
  /\ cur \in Workers
  /\ pc \in [Kinds -> [Workers -> Locations]]
  /\ process_mutex \in [Kinds -> [Workers -> Nat]]
  /\ load_data_mutex \in [Kinds -> [Workers -> Nat]]
  /\ dfe_data_ready_mutex \in [Kinds -> [Workers -> Nat]]
  /\ data_mutex \in [Kinds -> [Workers -> Nat]]
  /\ work \in [Kinds -> [Workers -> Jobs \cup {None}]]
  /\ scalars \in [Fields -> Jobs \cup {None}]
  /\ ticks \in [Kinds -> BOOLEAN]
  /\ queued \subseteq Workers
  /\ bitcoin_output \in [Workers -> [Fields -> Jobs \cup {None}]]
  /\ scrypt_buffer \in [Workers ->
       [content : {"raw", "input", "output"}, job : Jobs \cup {None}]]
  /\ alive \in BOOLEAN

-----------------------------------------------------------------------------
\* Safety.

\* While the DFE runs, every scalar, input buffer and cycle count it reads
\* comes from the jobs that the slot being processed holds, although all slots
\* write their jobs into the same action set; and only this slot's buffers are
\* queued (dfe_process, dfe_setup_run_bitcoin, dfe_setup_run_scrypt).
RunUsesOwnJobs ==
  dpc = "running" =>
    /\ queued = {cur}
    /\ \A k \in Kernels : ticks[k] /\ work[k][cur] # None
    /\ "bc" \in Kernels => \A f \in Fields : scalars[f] = work["bc"][cur]
    /\ "s" \in Kernels => scrypt_buffer[cur] = Input(work["s"][cur])

\* The results a thread walks through and submits are the DFE's answer to the
\* job that thread holds: never another slot's, an earlier round's or a mixture.
AnswersMatchJobs ==
  \A w \in Workers :
    /\ pc["bc"][w] = "submit" =>
         \A f \in Fields : bitcoin_output[w][f] = work["bc"][w]
    /\ pc["s"][w] = "submit" => scrypt_buffer[w] = Output(work["s"][w])

\* ctx->actions is unlocked: a thread writes into it only in its own slot's
\* turn, after the previous run has ended and before the next one is queued,
\* and no other slot's thread is doing so at the same time.
ActionsOwned ==
  \A k \in Kinds, w \in Workers :
    pc[k][w] \in Setup => w = cur /\ dpc \in {"load", "ready"}

\* A thread is never preparing or reading its slot's buffer while that buffer
\* is queued in a run of the DFE.
BuffersOwned ==
  dpc = "running" =>
    \A k \in Kernels, w \in queued : pc[k][w] \notin {"prepare", "submit"}

-----------------------------------------------------------------------------
\* What an action may never do.

\* An answer waits for its thread: between the end of the run and the end of
\* the submission no step alters it or the job it belongs to.
AnswersStable ==
  [][\A w \in Workers :
       /\ Answered("bc", w) /\ Answered("bc", w)' =>
            bitcoin_output'[w] = bitcoin_output[w] /\ work'["bc"][w] = work["bc"][w]
       /\ Answered("s", w) /\ Answered("s", w)' =>
            scrypt_buffer'[w] = scrypt_buffer[w] /\ work'["s"][w] = work["s"][w]]_vars

-----------------------------------------------------------------------------
\* Liveness, under FairSpec.

\* A job that has been fetched is submitted, unless the process exits.
JobAnswered ==
  \A k \in Kernels, w \in Workers :
    work[k][w] # None ~> (pc[k][w] = "submit" \/ ~alive)

\* Every slot gets the DFE again and again, unless the process exits.
EveryWorkerServed ==
  \A w \in Workers : []<>((dpc = "running" /\ cur = w) \/ ~alive)

-----------------------------------------------------------------------------
\* The inductive invariant.

\* Which side has moved how far, and so which semaphores are up.
HandshakeAt(k, w) ==
  /\ process_mutex[k][w] = IF pc[k][w] = "load" /\ Disp(k, w) = "idle" THEN 1 ELSE 0
  /\ load_data_mutex[k][w] = IF pc[k][w] = "load" /\ Disp(k, w) = "loading" THEN 1 ELSE 0
  /\ dfe_data_ready_mutex[k][w] = IF pc[k][w] = "data" /\ Disp(k, w) = "loading" THEN 1 ELSE 0
  /\ data_mutex[k][w] = IF pc[k][w] = "data" /\ Disp(k, w) = "idle" THEN 1 ELSE 0
  /\ pc[k][w] \in Private => Disp(k, w) = "idle"
  /\ pc[k][w] = "load" => Disp(k, w) # "armed"
  /\ pc[k][w] \in Setup \cup {"ready"} => Disp(k, w) = "loading"
  /\ pc[k][w] = "data" => Disp(k, w) # "taken"

Handshake == \A k \in Kinds, w \in Workers : HandshakeAt(k, w)

\* Which threads exist, which locations they can reach, who holds a job.
ThreadAt(k, w) ==
  /\ pc[k][w] = "unborn" <=>
       Booting /\ (w > boot \/ (w = boot /\ ~(dpc = "create" /\ Past(k))))
  /\ Has(k, pc[k][w])
  /\ work[k][w] = None <=> k \notin Kernels \/ pc[k][w] \in {"unborn", "getwork"}

Control ==
  /\ dpc \in {"sem_init", "queue", "running"} => dk = "bc"
  /\ ~Booting => boot = NumWorkers - 1
  /\ Booting => cur = 0
  /\ \A k \in Kinds, w \in Workers : ThreadAt(k, w)

\* Where each job has got to.
BitcoinDataAt(w) ==
  /\ pc["bc"][w] \in Setup \cup {"ready", "data"} /\ ~Answered("bc", w) =>
       \A f \in Fields :
         \/ "bc" \notin Kernels
         \/ pc["bc"][w] \in Before(f)
         \/ scalars[f] = work["bc"][w]
  /\ Answered("bc", w) => \A f \in Fields : bitcoin_output[w][f] = work["bc"][w]

ScryptDataAt(w) ==
  /\ "s" \in Kernels
     /\ pc["s"][w] \in {"process", "load", "ready", "data"} \cup Setup
     /\ ~Answered("s", w) => scrypt_buffer[w] = Input(work["s"][w])
  /\ Answered("s", w) => scrypt_buffer[w] = Output(work["s"][w])

Data ==
  /\ dpc = "running" => queued = {cur}
  /\ \A k \in Kernels, w \in Workers : pc[k][w] \in {"ready", "data", "submit"} => ticks[k]
  /\ \A w \in Workers : BitcoinDataAt(w) /\ ScryptDataAt(w)

IInv == TypeOK /\ Handshake /\ Control /\ Data

-----------------------------------------------------------------------------
\* The loop implements MiningRounds: jobs are answered slot by slot, each from
\* itself alone, none is lost and none is answered twice.

\* What the rounds see of the thread of kernel k in slot w.
StageAt(k, w) == IF work[k][w] = None THEN "free"
                 ELSE IF Answered(k, w) THEN "answered" ELSE "held"
AnswerAt(k, w) == IF ~Answered(k, w) THEN {}
                  ELSE IF k = "bc" THEN {bitcoin_output[w][f] : f \in Fields}
                                   ELSE {scrypt_buffer[w].job}

mapTurn == IF dpc = "data" THEN NextWorker(cur) ELSE cur
mapStage == [k \in Kernels |-> [w \in Workers |-> StageAt(k, w)]]
mapJob == [k \in Kernels |-> work[k]]
mapAnswer == [k \in Kernels |-> [w \in Workers |-> AnswerAt(k, w)]]

Rounds == INSTANCE MiningRounds WITH
  turn <- mapTurn, stage <- mapStage, job <- mapJob, answer <- mapAnswer,
  halted <- ~alive

\* run_live with its threads implements the abstract rounds.
ImplementsRounds == Rounds!Spec
=============================================================================
