---------------------------- MODULE MiningRounds ----------------------------
(***************************************************************************)
(* What the live miner promises, with the semaphores, threads and shared   *)
(* buffers of main.c and dfe.c left out.                                   *)
(*                                                                         *)
(* The accelerator (DFE) is shared by NumWorkers slots.  A slot holds one  *)
(* job per kernel in the bitstream.  Slots take turns: in its turn a slot  *)
(* has the jobs of all its kernels answered together, each answer computed *)
(* from that slot's own job and from no other.  An answer stays with the   *)
(* slot until it has been handed back to the pool, and only then may a new *)
(* job be taken.  The whole program may stop at any moment.                *)
(***************************************************************************)
EXTENDS Integers

CONSTANTS
  NumWorkers,   \* number of slots
  Kernels,      \* kernels present in the bitstream
  Jobs,         \* jobs a pool can hand out
  None          \* "no job"

Workers == 0 .. NumWorkers - 1

VARIABLES
  turn,         \* slot whose jobs are answered next
  stage,        \* stage[k][w]: "free", "held" or "answered"
  job,          \* job[k][w]: job held by kernel k in slot w
  answer,       \* answer[k][w]: jobs that the answer was computed from
  halted

vars == <<turn, stage, job, answer, halted>>

Init ==
  /\ turn = 0
  /\ stage = [k \in Kernels |-> [w \in Workers |-> "free"]]
  /\ job = [k \in Kernels |-> [w \in Workers |-> None]]
  /\ answer = [k \in Kernels |-> [w \in Workers |-> {}]]
  /\ halted = FALSE

\* Slot w takes a job for kernel k.
Take(k, w) ==
  /\ ~halted
  /\ stage[k][w] = "free"
  /\ \E j \in Jobs : job' = [job EXCEPT ![k][w] = j]
  /\ stage' = [stage EXCEPT ![k][w] = "held"]
  /\ UNCHANGED <<turn, answer, halted>>

\* The accelerator answers all jobs of the slot whose turn it is.
Run ==
  /\ ~halted
  /\ \A k \in Kernels : stage[k][turn] = "held"
  /\ stage' = [k \in Kernels |-> [stage[k] EXCEPT ![turn] = "answered"]]
  /\ answer' = [k \in Kernels |-> [answer[k] EXCEPT ![turn] = {job[k][turn]}]]
  /\ turn' = (turn + 1) % NumWorkers
  /\ UNCHANGED <<job, halted>>

\* Slot w has reported the answer of kernel k to the pool.
HandBack(k, w) ==
  /\ ~halted
  /\ stage[k][w] = "answered"
  /\ stage' = [stage EXCEPT ![k][w] = "free"]
  /\ job' = [job EXCEPT ![k][w] = None]
  /\ answer' = [answer EXCEPT ![k][w] = {}]
  /\ UNCHANGED <<turn, halted>>

Halt ==
  /\ ~halted
  /\ halted' = TRUE
  /\ UNCHANGED <<turn, stage, job, answer>>

Next ==
  \/ \E k \in Kernels, w \in Workers : Take(k, w) \/ HandBack(k, w)
  \/ Run
  \/ Halt

Spec == Init /\ [][Next]_vars
=============================================================================
