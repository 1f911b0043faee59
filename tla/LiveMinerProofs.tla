-------------------------- MODULE LiveMinerProofs --------------------------
(***************************************************************************)
(* Proofs about LiveMiner, for every number of slots, kernels and jobs:    *)
(* its safety, and that it implements MiningRounds.                        *)
(***************************************************************************)
EXTENDS LiveMiner, TLAPS

USE NumWorkersAssumption, KernelsAssumption, JobsAssumption

-----------------------------------------------------------------------------
\* The semaphores.

Semaphores == [Kinds -> [Workers -> Nat]]

\* sem_post keeps a family of semaphores well-typed and raises exactly one.
LEMMA UpLemma ==
  ASSUME NEW sem \in Semaphores, NEW k \in Kinds, NEW w \in Workers
  PROVE  /\ Up(sem, k, w) \in Semaphores
         /\ \A i \in Kinds, v \in Workers :
              Up(sem, k, w)[i][v] = IF i = k /\ v = w THEN sem[i][v] + 1 ELSE sem[i][v]
BY DEF Semaphores, Up

\* A successful sem_wait keeps it well-typed and lowers exactly one.
LEMMA DownLemma ==
  ASSUME NEW sem \in Semaphores, NEW k \in Kinds, NEW w \in Workers, sem[k][w] > 0
  PROVE  /\ Down(sem, k, w) \in Semaphores
         /\ \A i \in Kinds, v \in Workers :
              Down(sem, k, w)[i][v] = IF i = k /\ v = w THEN sem[i][v] - 1 ELSE sem[i][v]
<1>1. sem[k][w] - 1 \in Nat
  BY DEF Semaphores
<1> QED BY <1>1 DEF Semaphores, Down

-----------------------------------------------------------------------------
\* Type correctness.

\* The invariant holds before run_live has initialised a semaphore.
LEMMA InitIInv == Init => IInv
<1> SUFFICES ASSUME Init PROVE IInv
  OBVIOUS
<1>1. TypeOK
  BY DEF Init, TypeOK, Locations, Raw, Kinds, Fields, Workers
<1>2. Handshake
  BY DEF Init, Handshake, HandshakeAt, Disp, Booting, Kinds, Private, Setup
<1>3. Control
  BY DEF Init, Control, ThreadAt, Booting, Past, Kinds, Has, Fields, Workers
<1>4. Data
  BY DEF Init, Data, BitcoinDataAt, ScryptDataAt, Answered, Kinds, Setup
<1> QED BY <1>1, <1>2, <1>3, <1>4 DEF IInv

\* Every step keeps the types.
LEMMA TypeStep == TypeOK /\ [Next]_vars => TypeOK'
<1> SUFFICES ASSUME TypeOK, [Next]_vars PROVE TypeOK'
  OBVIOUS
<1>0. /\ process_mutex \in Semaphores /\ load_data_mutex \in Semaphores
      /\ dfe_data_ready_mutex \in Semaphores /\ data_mutex \in Semaphores
      /\ cur \in Workers
  BY DEF TypeOK, Semaphores
<1>1. CASE Dispatch
  <2>1. CASE InitSems
    BY <2>1, <1>1 DEF TypeOK, Dispatch, InitSems, actions, buffers, Workers
  <2>2. CASE QueueBuffers
    BY <2>2, <1>1 DEF TypeOK, Dispatch, QueueBuffers, AfterClear, semaphores, buffers
  <2>3. CASE RunDone
    BY <2>3, <1>1 DEF TypeOK, Dispatch, RunDone, semaphores, actions, ScryptResult, Raw, Output
  <2>4. ASSUME NEW k \in Kinds, CreateThread(k) PROVE TypeOK'
    BY <2>4, <1>1 DEF TypeOK, Dispatch, CreateThread, semaphores, actions, buffers,
      LoopStart, Kinds, Workers, Locations
  <2>5. ASSUME NEW k \in Kinds, AwaitWork(k) PROVE TypeOK'
    <3>1. process_mutex' \in Semaphores
      BY <1>0, <2>5, DownLemma DEF AwaitWork
    <3> QED BY <3>1, <2>5, <1>1 DEF TypeOK, Dispatch, AwaitWork, Advance, actions,
          buffers, Semaphores, Kinds
  <2>6. ASSUME NEW k \in Kinds, SignalLoad(k) PROVE TypeOK'
    <3>1. load_data_mutex' \in Semaphores
      BY <1>0, <2>6, UpLemma DEF SignalLoad
    <3> QED BY <3>1, <2>6, <1>1 DEF TypeOK, Dispatch, SignalLoad, Advance, actions,
          buffers, Semaphores, Kinds
  <2>7. ASSUME NEW k \in Kinds, AwaitReady(k) PROVE TypeOK'
    <3>1. dfe_data_ready_mutex' \in Semaphores
      BY <1>0, <2>7, DownLemma DEF AwaitReady
    <3> QED BY <3>1, <2>7, <1>1 DEF TypeOK, Dispatch, AwaitReady, Advance, actions,
          buffers, Semaphores, Kinds
  <2>8. ASSUME NEW k \in Kinds, SignalData(k) PROVE TypeOK'
    <3>1. data_mutex' \in Semaphores
      BY <1>0, <2>8, UpLemma DEF SignalData
    <3>2. cur' \in Workers
      BY <2>8, <1>0 DEF SignalData, NextWorker, Workers
    <3> QED BY <3>1, <3>2, <2>8, <1>1 DEF TypeOK, Dispatch, SignalData, Advance, actions,
          buffers, Semaphores, Kinds
  <2> QED BY <1>1, <2>1, <2>2, <2>3, <2>4, <2>5, <2>6, <2>7, <2>8 DEF Dispatch
<1>2. ASSUME NEW k \in Kinds, NEW w \in Workers, Thread(k, w) PROVE TypeOK'
  <2> USE <1>2 DEF Thread, Goto
  <2>1. CASE Getwork(k, w)
    BY <2>1 DEF TypeOK, Getwork, dispatcher, semaphores, actions, buffers, Locations
  <2>2. CASE PostProcess(k, w)
    <3>1. process_mutex' \in Semaphores
      BY <1>0, <2>2, UpLemma DEF PostProcess
    <3> QED BY <3>1, <2>2 DEF TypeOK, PostProcess, dispatcher, actions, buffers,
          Semaphores, Locations
  <2>3. CASE WaitLoad(k, w)
    <3>1. load_data_mutex' \in Semaphores
      BY <1>0, <2>3, DownLemma DEF WaitLoad
    <3> QED BY <3>1, <2>3 DEF TypeOK, WaitLoad, SetupStart, dispatcher, actions, buffers,
          Semaphores, Locations, Setup, Kinds
  <2>4. CASE SetTicks(k, w)
    BY <2>4 DEF TypeOK, SetTicks, dispatcher, semaphores, buffers, Locations
  <2>5. CASE PostReady(k, w)
    <3>1. dfe_data_ready_mutex' \in Semaphores
      BY <1>0, <2>5, UpLemma DEF PostReady
    <3> QED BY <3>1, <2>5 DEF TypeOK, PostReady, dispatcher, actions, buffers,
          Semaphores, Locations
  <2>6. CASE WaitData(k, w)
    <3>1. data_mutex' \in Semaphores
      BY <1>0, <2>6, DownLemma DEF WaitData
    <3> QED BY <3>1, <2>6 DEF TypeOK, WaitData, dispatcher, actions, buffers,
          Semaphores, Locations
  <2>7. CASE Submit(k, w)
    BY <2>7 DEF TypeOK, Submit, dispatcher, semaphores, actions, buffers, Locations
  <2>8. CASE k = "bc" /\ SetScalar(w)
    BY <2>8 DEF TypeOK, SetScalar, NextField, Fields, dispatcher, semaphores, buffers,
      Locations, Setup, Kinds
  <2>9. CASE k = "s" /\ Prepare(w)
    BY <2>9 DEF TypeOK, Prepare, Input, dispatcher, semaphores, actions, Locations, Kinds
  <2> QED BY <1>2, <2>1, <2>2, <2>3, <2>4, <2>5, <2>6, <2>7, <2>8, <2>9 DEF Thread
<1>3. CASE Fatal
  BY <1>3 DEF TypeOK, Fatal, dispatcher, semaphores, actions, buffers
<1>4. CASE UNCHANGED vars
  BY <1>4 DEF TypeOK, vars, dispatcher, semaphores, actions, buffers
<1> QED BY <1>1, <1>2, <1>3, <1>4 DEF Next, Halted

-----------------------------------------------------------------------------
\* The hand-shake: the semaphores always tell how far each side has moved,
\* and every semaphore operation keeps it so.
LEMMA HandshakeStep == TypeOK /\ Handshake /\ Control /\ [Next]_vars => Handshake'
<1> SUFFICES ASSUME TypeOK, Handshake, Control, [Next]_vars,
                    NEW i \in Kinds, NEW v \in Workers
             PROVE  HandshakeAt(i, v)'
  BY DEF Handshake
<1>0. /\ process_mutex \in Semaphores /\ load_data_mutex \in Semaphores
      /\ dfe_data_ready_mutex \in Semaphores /\ data_mutex \in Semaphores
      /\ cur \in Workers /\ pc \in [Kinds -> [Workers -> Locations]]
      /\ dk \in Kinds
      /\ HandshakeAt(i, v) /\ ThreadAt(i, v)
  BY DEF TypeOK, Semaphores, Handshake, Control
<1>1. CASE Dispatch
  <2>2. CASE QueueBuffers
    BY <2>2, <1>0 DEF HandshakeAt, Disp, Past, Booting, Kinds, QueueBuffers, semaphores
  <2>3. CASE RunDone
    BY <2>3, <1>0 DEF HandshakeAt, Disp, Past, Booting, Kinds, Control, RunDone, semaphores
  <2>5. ASSUME NEW k \in Kinds, AwaitWork(k) PROVE HandshakeAt(i, v)'
    <3>1. Disp(k, cur) = "idle"
      BY <1>0, <2>5 DEF AwaitWork, Disp, Past, Booting, Kinds
    <3>2. Disp(i, v)' = IF i = k /\ v = cur THEN "taken" ELSE Disp(i, v)
      BY <1>0, <2>5 DEF AwaitWork, Advance, Disp, Past, Booting, Kinds
    <3>3. process_mutex'[i][v] = IF i = k /\ v = cur THEN process_mutex[i][v] - 1 ELSE process_mutex[i][v]
      BY <1>0, <2>5, DownLemma DEF AwaitWork
    <3> QED BY <1>0, <2>5, <3>1, <3>2, <3>3 DEF AwaitWork, HandshakeAt, Private, Setup, Locations
  <2>6. ASSUME NEW k \in Kinds, SignalLoad(k) PROVE HandshakeAt(i, v)'
    <3>1. Disp(k, cur) = "taken"
      BY <1>0, <2>6 DEF SignalLoad, Disp, Past, Booting, Kinds
    <3>2. Disp(i, v)' = IF i = k /\ v = cur THEN "loading" ELSE Disp(i, v)
      BY <1>0, <2>6 DEF SignalLoad, Advance, Disp, Past, Booting, Kinds
    <3>3. load_data_mutex'[i][v] = IF i = k /\ v = cur THEN load_data_mutex[i][v] + 1 ELSE load_data_mutex[i][v]
      <4>1. load_data_mutex' = Up(load_data_mutex, k, cur)
        BY <2>6 DEF SignalLoad
      <4>2. Up(load_data_mutex, k, cur)[i][v]
              = IF i = k /\ v = cur THEN load_data_mutex[i][v] + 1 ELSE load_data_mutex[i][v]
        BY <1>0 DEF Up, Semaphores
      <4> QED BY <4>1, <4>2
    <3> QED BY <1>0, <2>6, <3>1, <3>2, <3>3 DEF SignalLoad, HandshakeAt, Private, Setup, Locations
  <2>7. ASSUME NEW k \in Kinds, AwaitReady(k) PROVE HandshakeAt(i, v)'
    <3>1. Disp(k, cur) = "loading"
      BY <1>0, <2>7 DEF AwaitReady, Disp, Past, Booting, Kinds
    <3>2. Disp(i, v)' = IF i = k /\ v = cur THEN "armed" ELSE Disp(i, v)
      BY <1>0, <2>7 DEF AwaitReady, Advance, Disp, Past, Booting, Kinds
    <3>3. dfe_data_ready_mutex'[i][v] = IF i = k /\ v = cur THEN dfe_data_ready_mutex[i][v] - 1 ELSE dfe_data_ready_mutex[i][v]
      BY <1>0, <2>7, DownLemma DEF AwaitReady
    <3> QED BY <1>0, <2>7, <3>1, <3>2, <3>3 DEF AwaitReady, HandshakeAt, Private, Setup, Locations
  <2>8. ASSUME NEW k \in Kinds, SignalData(k) PROVE HandshakeAt(i, v)'
    <3>1. Disp(k, cur) = "armed"
      BY <1>0, <2>8 DEF SignalData, Disp, Past, Booting, Kinds
    <3>2. Disp(i, v)' = IF i = k /\ v = cur THEN "idle" ELSE Disp(i, v)
      BY <1>0, <2>8 DEF SignalData, Advance, Disp, Past, Booting, Kinds, NextWorker, Workers
    <3>3. data_mutex'[i][v] = IF i = k /\ v = cur THEN data_mutex[i][v] + 1 ELSE data_mutex[i][v]
      <4>1. data_mutex' = Up(data_mutex, k, cur)
        BY <2>8 DEF SignalData
      <4>2. Up(data_mutex, k, cur)[i][v]
              = IF i = k /\ v = cur THEN data_mutex[i][v] + 1 ELSE data_mutex[i][v]
        BY <1>0 DEF Up, Semaphores
      <4> QED BY <4>1, <4>2
    <3> QED BY <1>0, <2>8, <3>1, <3>2, <3>3 DEF SignalData, HandshakeAt, Private, Setup, Locations
  <2>1. CASE InitSems
    BY <2>1, <1>0 DEF HandshakeAt, Disp, Past, Booting, Kinds, InitSems, ThreadAt, TypeOK, Private, Setup, Semaphores
  <2>4. ASSUME NEW k \in Kinds, CreateThread(k) PROVE HandshakeAt(i, v)'
    BY <2>4, <1>0 DEF HandshakeAt, Disp, Past, Booting, Kinds,
      Control, CreateThread, ThreadAt, LoopStart, semaphores, Private, Setup
  <2> QED BY <1>1, <2>1, <2>2, <2>3, <2>4, <2>5, <2>6, <2>7, <2>8 DEF Dispatch
<1>2. ASSUME NEW k \in Kinds, NEW w \in Workers, Thread(k, w) PROVE HandshakeAt(i, v)'
  <2>0. HandshakeAt(k, w)
    BY DEF Handshake
  <2>1. CASE Getwork(k, w)
    <3>1. Disp(i, v)' = Disp(i, v)
      BY <2>1, <1>2 DEF Thread, Getwork, dispatcher, Disp, Booting, Past
    <3> QED BY <1>0, <2>0, <2>1, <3>1 DEF HandshakeAt, Getwork, Goto, semaphores, Private, Setup, Locations
  <2>2. CASE PostProcess(k, w)
    <3>1. Disp(i, v)' = Disp(i, v)
      BY <2>2, <1>2 DEF Thread, PostProcess, dispatcher, Disp, Booting, Past
    <3>2. process_mutex'[i][v] = IF i = k /\ v = w THEN process_mutex[i][v] + 1 ELSE process_mutex[i][v]
      <4>1. process_mutex' = Up(process_mutex, k, w)
        BY <2>2 DEF PostProcess
      <4>2. process_mutex \in Semaphores
        BY <1>0
      <4> QED BY <4>1, <4>2, UpLemma
    <3> QED BY <1>0, <2>0, <2>2, <3>1, <3>2 DEF HandshakeAt, PostProcess, Goto, Private, Setup, Locations
  <2>3. CASE WaitLoad(k, w)
    <3>1. Disp(i, v)' = Disp(i, v)
      BY <2>3, <1>2 DEF Thread, WaitLoad, dispatcher, Disp, Booting, Past
    <3>2. load_data_mutex'[i][v] = IF i = k /\ v = w THEN load_data_mutex[i][v] - 1 ELSE load_data_mutex[i][v]
      <4>1. load_data_mutex' = Down(load_data_mutex, k, w)
        BY <2>3 DEF WaitLoad
      <4> QED BY <1>0, <4>1, <1>2, DownLemma, <2>3 DEF WaitLoad
    <3>3. SetupStart(k) \in {"target", "ticks", "ready"}
      BY DEF SetupStart, Kinds
    <3> QED BY <1>0, <2>0, <2>3, <3>1, <3>2, <3>3 DEF HandshakeAt, WaitLoad, Goto, Private, Setup, Locations
  <2>4. CASE SetTicks(k, w)
    <3>1. Disp(i, v)' = Disp(i, v)
      BY <2>4, <1>2 DEF Thread, SetTicks, dispatcher, Disp, Booting, Past
    <3> QED BY <1>0, <2>0, <2>4, <3>1 DEF HandshakeAt, SetTicks, Goto, semaphores, Private, Setup, Locations
  <2>5. CASE PostReady(k, w)
    <3>1. Disp(i, v)' = Disp(i, v)
      BY <2>5, <1>2 DEF Thread, PostReady, dispatcher, Disp, Booting, Past
    <3>2. dfe_data_ready_mutex'[i][v] = IF i = k /\ v = w THEN dfe_data_ready_mutex[i][v] + 1 ELSE dfe_data_ready_mutex[i][v]
      <4>1. dfe_data_ready_mutex' = Up(dfe_data_ready_mutex, k, w)
        BY <2>5 DEF PostReady
      <4>2. dfe_data_ready_mutex \in Semaphores
        BY <1>0
      <4> QED BY <4>1, <4>2, UpLemma
    <3> QED BY <1>0, <2>0, <2>5, <3>1, <3>2 DEF HandshakeAt, PostReady, Goto, Private, Setup, Locations
  <2>6. CASE WaitData(k, w)
    <3>1. Disp(i, v)' = Disp(i, v)
      BY <2>6, <1>2 DEF Thread, WaitData, dispatcher, Disp, Booting, Past
    <3>2. data_mutex'[i][v] = IF i = k /\ v = w THEN data_mutex[i][v] - 1 ELSE data_mutex[i][v]
      <4>1. data_mutex' = Down(data_mutex, k, w)
        BY <2>6 DEF WaitData
      <4> QED BY <1>0, <4>1, <1>2, DownLemma, <2>6 DEF WaitData
    <3> QED BY <1>0, <2>0, <2>6, <3>1, <3>2 DEF HandshakeAt, WaitData, Goto, Private, Setup, Locations
  <2>7. CASE Submit(k, w)
    <3>1. Disp(i, v)' = Disp(i, v)
      BY <2>7, <1>2 DEF Thread, Submit, dispatcher, Disp, Booting, Past
    <3> QED BY <1>0, <2>0, <2>7, <3>1 DEF HandshakeAt, Submit, Goto, semaphores, Private, Setup, Locations
  <2>8. CASE k = "bc" /\ SetScalar(w)
    <3>1. Disp(i, v)' = Disp(i, v)
      BY <2>8, <1>2 DEF Thread, SetScalar, dispatcher, Disp, Booting, Past
    <3> QED BY <1>0, <2>0, <2>8, <3>1 DEF HandshakeAt, SetScalar, Goto, semaphores, Private, Setup, Locations, NextField, Fields
  <2>9. CASE k = "s" /\ Prepare(w)
    <3>1. Disp(i, v)' = Disp(i, v)
      BY <2>9, <1>2 DEF Thread, Prepare, dispatcher, Disp, Booting, Past
    <3> QED BY <1>0, <2>0, <2>9, <3>1 DEF HandshakeAt, Prepare, Goto, semaphores, Private, Setup, Locations
  <2> QED BY <1>2, <2>1, <2>2, <2>3, <2>4, <2>5, <2>6, <2>7, <2>8, <2>9 DEF Thread
<1>3. CASE Fatal \/ UNCHANGED vars
  <2>1. UNCHANGED <<dispatcher, pc, semaphores>>
    BY <1>3 DEF Fatal, vars
  <2>2. Disp(i, v)' = Disp(i, v)
    BY <2>1 DEF dispatcher, Disp, Booting, Past
  <2> QED BY <1>0, <2>1, <2>2 DEF HandshakeAt, semaphores
<1> QED BY <1>1, <1>2, <1>3 DEF Next, Halted

-----------------------------------------------------------------------------
\* Every step keeps which threads exist, where they can be, and who holds a job.
LEMMA ControlStep == TypeOK /\ Handshake /\ Control /\ [Next]_vars => Control'
<1> SUFFICES ASSUME TypeOK, Handshake, Control, [Next]_vars PROVE Control'
  OBVIOUS
<1> USE DEF Kinds, Past, Booting, Workers
<1>0. /\ pc \in [Kinds -> [Workers -> Locations]] /\ work \in [Kinds -> [Workers -> Jobs \cup {None}]]
      /\ dk \in Kinds /\ cur \in Workers /\ boot \in Workers
  BY DEF TypeOK
<1>1. CASE Dispatch
  <2> SUFFICES ASSUME NEW i \in Kinds, NEW v \in Workers
               PROVE  /\ ThreadAt(i, v)'
                      /\ (dpc \in {"sem_init", "queue", "running"} => dk = "bc")'
                      /\ (~Booting => boot = NumWorkers - 1)'
                      /\ (Booting => cur = 0)'
    BY <1>0 DEF Control
  <2>0. ThreadAt(i, v)
    BY DEF Control
  <2> USE <1>0, <1>1, <2>0 DEF Control, ThreadAt, Dispatch, semaphores, actions, buffers
  <2>1. CASE InitSems BY <2>1 DEF InitSems
  <2>2. CASE QueueBuffers BY <2>2 DEF QueueBuffers
  <2>3. CASE RunDone BY <2>3 DEF RunDone
  <2>4. ASSUME NEW k \in Kinds, CreateThread(k)
        PROVE  /\ ThreadAt(i, v)'
               /\ (dpc \in {"sem_init", "queue", "running"} => dk = "bc")'
               /\ (~Booting => boot = NumWorkers - 1)'
               /\ (Booting => cur = 0)'
    <3>1. CASE k = "bc"
      BY <2>4, <3>1 DEF CreateThread, LoopStart, Has, Fields
    <3>2. CASE k = "s" /\ boot + 1 \in Workers
      BY <2>4, <3>2 DEF CreateThread, LoopStart, Has, Fields
    <3>3. CASE k = "s" /\ boot + 1 \notin Workers
      BY <2>4, <3>3 DEF CreateThread, LoopStart, Has, Fields
    <3> QED BY <3>1, <3>2, <3>3
  <2>5. ASSUME NEW k \in Kinds, AwaitWork(k)
        PROVE  /\ ThreadAt(i, v)'
               /\ (dpc \in {"sem_init", "queue", "running"} => dk = "bc")'
               /\ (~Booting => boot = NumWorkers - 1)'
               /\ (Booting => cur = 0)'
    BY <2>5 DEF AwaitWork, Advance
  <2>6. ASSUME NEW k \in Kinds, SignalLoad(k)
        PROVE  /\ ThreadAt(i, v)'
               /\ (dpc \in {"sem_init", "queue", "running"} => dk = "bc")'
               /\ (~Booting => boot = NumWorkers - 1)'
               /\ (Booting => cur = 0)'
    BY <2>6 DEF SignalLoad, Advance
  <2>7. ASSUME NEW k \in Kinds, AwaitReady(k)
        PROVE  /\ ThreadAt(i, v)'
               /\ (dpc \in {"sem_init", "queue", "running"} => dk = "bc")'
               /\ (~Booting => boot = NumWorkers - 1)'
               /\ (Booting => cur = 0)'
    BY <2>7 DEF AwaitReady, Advance
  <2>8. ASSUME NEW k \in Kinds, SignalData(k)
        PROVE  /\ ThreadAt(i, v)'
               /\ (dpc \in {"sem_init", "queue", "running"} => dk = "bc")'
               /\ (~Booting => boot = NumWorkers - 1)'
               /\ (Booting => cur = 0)'
    BY <2>8 DEF SignalData, Advance, NextWorker
  <2> QED BY <2>1, <2>2, <2>3, <2>4, <2>5, <2>6, <2>7, <2>8
<1>2. ASSUME NEW k \in Kinds, NEW w \in Workers, Thread(k, w) PROVE Control'
  <2> SUFFICES ASSUME NEW i \in Kinds, NEW v \in Workers PROVE ThreadAt(i, v)'
    BY <1>2 DEF Control, Thread, Getwork, PostProcess, WaitLoad, SetTicks, PostReady, WaitData,
      Submit, SetScalar, Prepare, dispatcher
  <2>0. ThreadAt(i, v) /\ ThreadAt(k, w)
    BY DEF Control
  <2> USE <1>0, <2>0 DEF ThreadAt, Goto, dispatcher, Has, Fields, Locations, Setup
  <2>1. CASE Getwork(k, w) BY <2>1 DEF Getwork
  <2>2. CASE PostProcess(k, w) BY <2>2 DEF PostProcess
  <2>3. CASE WaitLoad(k, w) BY <2>3 DEF WaitLoad, SetupStart
  <2>4. CASE SetTicks(k, w) BY <2>4 DEF SetTicks
  <2>5. CASE PostReady(k, w) BY <2>5 DEF PostReady
  <2>6. CASE WaitData(k, w) BY <2>6 DEF WaitData
  <2>7. CASE Submit(k, w) BY <2>7 DEF Submit
  <2>8. CASE k = "bc" /\ SetScalar(w) BY <2>8 DEF SetScalar, NextField
  <2>9. CASE k = "s" /\ Prepare(w) BY <2>9 DEF Prepare
  <2> QED BY <1>2, <2>1, <2>2, <2>3, <2>4, <2>5, <2>6, <2>7, <2>8, <2>9 DEF Thread
<1>3. CASE Fatal \/ UNCHANGED vars
  BY <1>3 DEF Control, ThreadAt, Fatal, vars, dispatcher
<1> QED BY <1>1, <1>2, <1>3 DEF Next, Halted

-----------------------------------------------------------------------------
\* Where each job has got to.

\* What the hand-shake says of a thread that the DFE is working for.
LEMMA ArmedLemma ==
  ASSUME TypeOK, Handshake, Control, NEW k \in Kinds, NEW w \in Workers
  PROVE  /\ dpc \in {"queue", "running"} /\ w = cur => pc[k][w] = "data" /\ data_mutex[k][w] = 0
         /\ pc[k][w] \in Setup \cup {"ready"} =>
              w = cur /\ dpc \in {"load", "ready"} /\ data_mutex[k][w] = 0
         /\ pc[k][w] = "data" /\ data_mutex[k][w] = 0 =>
              w = cur /\ dpc \in {"load", "ready", "queue", "running", "data"}
         /\ dpc = "data" /\ w = cur /\ Past(k) /\ pc[k][w] = "data" => data_mutex[k][w] = 1
         /\ data_mutex[k][w] \in {0, 1}
<1>1. HandshakeAt(k, w) /\ ThreadAt(k, w) /\ cur \in Workers /\ dk \in Kinds /\ pc[k][w] \in Locations
      /\ dpc \in {"sem_init", "create", "process", "load", "ready", "queue", "running", "data"}
  BY DEF Handshake, Control, TypeOK
<1>2. dpc \in {"queue", "running"} => dk = "bc"
  BY DEF Control
<1> QED BY <1>1, <1>2 DEF HandshakeAt, Disp, Booting, Past, Setup, Private, Locations, Kinds

\* Handing results over changes where they wait, not whether they do.
LEMMA AnsweredKept ==
  ASSUME TypeOK, Handshake, Control, NEW k \in Kinds, SignalData(k),
         NEW i \in Kinds, NEW v \in Workers
  PROVE  Answered(i, v)' <=> Answered(i, v)
<1>1. data_mutex \in Semaphores /\ cur \in Workers /\ dk \in Kinds
  BY DEF Semaphores, TypeOK
<1>2. data_mutex'[i][v] = IF i = k /\ v = cur THEN data_mutex[i][v] + 1 ELSE data_mutex[i][v]
  BY <1>1, UpLemma DEF SignalData
<1>3. /\ data_mutex[i][v] \in {0, 1}
      /\ dpc = "data" /\ v = cur /\ Past(i) /\ pc[i][v] = "data" => data_mutex[i][v] = 1
  BY ArmedLemma
<1>4. /\ dpc = "data" /\ k = dk /\ pc' = pc
      /\ (dpc' = "data" /\ cur' = cur) \/ (dpc' = "process" /\ k = "s")
  BY DEF SignalData, Advance, Kinds
<1> QED BY <1>1, <1>2, <1>3, <1>4 DEF Answered, Past, Kinds

\* Every step keeps where each job is: in the scalars, in a buffer, or answered.
LEMMA DataStep == IInv /\ [Next]_vars => Data'
<1> SUFFICES ASSUME IInv, [Next]_vars PROVE Data'
  OBVIOUS
<1>0. TypeOK /\ Handshake /\ Control /\ Data
  BY DEF IInv
<1>a. /\ pc \in [Kinds -> [Workers -> Locations]] /\ work \in [Kinds -> [Workers -> Jobs \cup {None}]]
      /\ data_mutex \in [Kinds -> [Workers -> Nat]]
      /\ scalars \in [Fields -> Jobs \cup {None}] /\ ticks \in [Kinds -> BOOLEAN]
      /\ dk \in Kinds /\ cur \in Workers /\ boot \in Workers
  BY <1>0 DEF TypeOK
<1> DEFINE Parts(v) ==
      /\ dpc = "running" => queued = {cur}
      /\ \A k \in Kernels : pc[k][v] \in {"ready", "data", "submit"} => ticks[k]
      /\ BitcoinDataAt(v) /\ ScryptDataAt(v)
<1>b. \A v \in Workers : Parts(v)
  BY <1>0 DEF Data
<1>c. SUFFICES ASSUME NEW v \in Workers PROVE Parts(v)'
  BY <1>a DEF Data
<1>d. Parts(v)
  BY <1>b
<1>1. CASE Dispatch
  <2> USE <1>a, <1>d DEF BitcoinDataAt, ScryptDataAt, Answered, Kinds
  <2>1. CASE InitSems
    <3>1. ThreadAt("bc", v) /\ ThreadAt("s", v)
      BY <1>0 DEF Control
    <3> QED BY <2>1, <3>1 DEF InitSems, ThreadAt, Booting, actions, buffers, Setup
  <2>2. CASE QueueBuffers
    BY <2>2 DEF QueueBuffers, AfterClear, semaphores, buffers
  <2>3. CASE RunDone
    <3>1. \A k \in Kinds : v = cur => pc[k][v] = "data" /\ data_mutex[k][v] = 0
      BY <1>0, <2>3, ArmedLemma DEF RunDone
    <3>2. queued = {cur} /\ dpc = "running" /\ dpc' = "data"
      BY <2>3 DEF RunDone
    <3>3. /\ bitcoin_output'[v] = IF "bc" \in Kernels /\ v = cur THEN scalars ELSE bitcoin_output[v]
          /\ scrypt_buffer'[v] = IF "s" \in Kernels /\ v = cur THEN ScryptResult(scrypt_buffer[v])
                                                            ELSE scrypt_buffer[v]
      BY <2>3, <3>2 DEF RunDone
    <3>4. CASE v = cur
      <4>1. "s" \in Kernels => scrypt_buffer'[v] = Output(work["s"][v])
        BY <3>1, <3>2, <3>3, <3>4 DEF ScryptResult, Input, Output
      <4>2. "bc" \in Kernels => \A f \in Fields : bitcoin_output'[v][f] = work["bc"][v]
        BY <3>1, <3>2, <3>3, <3>4 DEF Before, Fields
      <4> QED BY <2>3, <3>1, <3>2, <3>4, <4>1, <4>2 DEF RunDone, semaphores, actions
    <3>5. CASE v # cur
      BY <2>3, <3>2, <3>3, <3>5 DEF RunDone, semaphores, actions
    <3> QED BY <3>4, <3>5
  <2>4. ASSUME NEW k \in Kinds, CreateThread(k) PROVE Parts(v)'
    BY <2>4 DEF CreateThread, LoopStart, semaphores, actions, buffers, Setup
  <2>5. ASSUME NEW k \in Kinds, AwaitWork(k) PROVE Parts(v)'
    BY <2>5 DEF AwaitWork, Advance, actions, buffers
  <2>6. ASSUME NEW k \in Kinds, SignalLoad(k) PROVE Parts(v)'
    BY <2>6 DEF SignalLoad, Advance, actions, buffers
  <2>7. ASSUME NEW k \in Kinds, AwaitReady(k) PROVE Parts(v)'
    BY <2>7 DEF AwaitReady, Advance, actions, buffers
  <2>8. ASSUME NEW k \in Kinds, SignalData(k) PROVE Parts(v)'
    <3>1. dpc = "data" /\ k = dk /\ pc' = pc /\ work' = work /\ scalars' = scalars
          /\ ticks' = ticks /\ queued' = queued /\ dpc' # "running"
          /\ bitcoin_output' = bitcoin_output /\ scrypt_buffer' = scrypt_buffer
      BY <2>8 DEF SignalData, Advance, actions, buffers
    <3>2. ASSUME NEW i \in Kinds PROVE Answered(i, v)' <=> Answered(i, v)
      BY <1>0, <2>8, AnsweredKept
    <3> HIDE DEF Answered
    <3> QED BY <3>1, <3>2
  <2> QED BY <1>1, <2>1, <2>2, <2>3, <2>4, <2>5, <2>6, <2>7, <2>8 DEF Dispatch
<1>2. ASSUME NEW k \in Kinds, NEW w \in Workers, Thread(k, w) PROVE Parts(v)'
  <2> USE <1>a, <1>d DEF BitcoinDataAt, ScryptDataAt, Answered, Kinds, Goto, dispatcher
  <2>a. Parts(w)
    BY <1>b
  <2>b. ThreadAt(k, w)
    BY <1>0 DEF Control
  <2>1. CASE Getwork(k, w)
    BY <2>1 DEF Getwork, semaphores, actions, buffers, Setup
  <2>2. CASE PostProcess(k, w)
    BY <2>2 DEF PostProcess, actions, buffers, Setup
  <2>3. CASE WaitLoad(k, w)
    BY <2>3 DEF WaitLoad, SetupStart, actions, buffers, Setup, Before, Fields
  <2>4. CASE SetTicks(k, w)
    BY <2>4, <2>b DEF SetTicks, semaphores, buffers, Setup, Before, Fields
  <2>5. CASE PostReady(k, w)
    <3>1. w = cur /\ dpc \in {"load", "ready"} /\ data_mutex[k][w] = 0
      BY <1>0, <2>5, ArmedLemma DEF PostReady
    <3> QED BY <2>5, <3>1 DEF PostReady, actions, buffers, Setup, Before, Fields
  <2>6. CASE WaitData(k, w)
    <3>1. \A i \in Kinds : i # k \/ v # w => data_mutex'[i][v] = data_mutex[i][v]
      <4>1. data_mutex' = Down(data_mutex, k, w) /\ data_mutex[k][w] > 0
        BY <2>6 DEF WaitData
      <4>2. data_mutex \in Semaphores
        BY <1>a DEF Semaphores
      <4> QED BY <4>1, <4>2, DownLemma
    <3> QED BY <2>6, <2>b, <3>1 DEF WaitData, actions, buffers, Setup
  <2>7. CASE Submit(k, w)
    BY <2>7 DEF Submit, semaphores, actions, buffers, Setup
  <2>8. CASE k = "bc" /\ SetScalar(w)
    <3>1. w = cur /\ dpc \in {"load", "ready"} /\ "bc" \in Kernels
      BY <1>0, <2>b, <2>8, ArmedLemma DEF SetScalar, Setup, Fields, ThreadAt, Has
    <3>2. pc["bc"][v] \in Setup \cup {"ready", "data"} /\ ~Answered("bc", v) => v = cur
      <4>1. data_mutex["bc"][v] = 0 \/ data_mutex["bc"][v] = 1
        BY <1>0, ArmedLemma
      <4> QED BY <1>0, <3>1, <4>1, ArmedLemma
    <3>3. \A f \in Fields :
            NextField[pc["bc"][w]] \notin Before(f) /\ f # pc["bc"][w] => pc["bc"][w] \notin Before(f)
      BY <2>8 DEF SetScalar, Fields, NextField, Before
    <3>4. scrypt_buffer' = scrypt_buffer /\ bitcoin_output' = bitcoin_output /\ ticks' = ticks
          /\ dpc' = dpc /\ cur' = cur /\ queued' = queued /\ data_mutex' = data_mutex /\ work' = work
      BY <2>8 DEF SetScalar, semaphores, buffers
    <3>a. /\ pc' = [pc EXCEPT !["bc"][w] = NextField[pc["bc"][w]]]
          /\ scalars' = [scalars EXCEPT ![pc["bc"][w]] = work["bc"][w]]
      BY <2>8 DEF SetScalar
    <3>b. \A f \in Fields : scalars'[f] = IF f = pc["bc"][w] THEN work["bc"][w] ELSE scalars[f]
      BY <3>a
    <3>c. \A i \in Kinds : pc'[i][v] = IF i = "bc" /\ v = w THEN NextField[pc["bc"][w]] ELSE pc[i][v]
      BY <3>a
    <3>5. NextField[pc["bc"][w]] \in {"midstate", "hash1block2", "ticks"}
      BY <2>8 DEF SetScalar, Fields, NextField
    <3>6. CASE v = w
      BY <2>8, <3>3, <3>4, <3>b, <3>c, <3>5, <3>6 DEF SetScalar, Setup, Fields
    <3>7. CASE v # w
      <4>1. \A i \in Kinds : pc'[i][v] = pc[i][v] /\ (Answered(i, v)' <=> Answered(i, v))
        BY <3>4, <3>c, <3>7
      <4>2. ~(pc["bc"][v] \in Setup \cup {"ready", "data"} /\ ~Answered("bc", v))
        BY <3>1, <3>2, <3>7
      <4> QED BY <3>1, <3>4, <4>1, <4>2
    <3> QED BY <3>6, <3>7
  <2>9. CASE k = "s" /\ Prepare(w)
    <3>1. scrypt_buffer'[v] = IF v = w THEN Input(work["s"][w]) ELSE scrypt_buffer[v]
      BY <1>0, <2>9 DEF Prepare, TypeOK
    <3> QED BY <2>9, <3>1 DEF Prepare, semaphores, actions, Setup
  <2> QED BY <1>2, <2>1, <2>2, <2>3, <2>4, <2>5, <2>6, <2>7, <2>8, <2>9 DEF Thread
<1>3. CASE Fatal \/ UNCHANGED vars
  BY <1>3, <1>d DEF Fatal, vars, dispatcher, semaphores, actions, buffers, BitcoinDataAt,
    ScryptDataAt, Answered
<1> QED BY <1>1, <1>2, <1>3 DEF Next, Halted

-----------------------------------------------------------------------------
\* The invariant holds in every state, for every number of slots.

\* Every step keeps the whole invariant.
LEMMA IInvStep == IInv /\ [Next]_vars => IInv'
BY TypeStep, HandshakeStep, ControlStep, DataStep DEF IInv

\* The inductive invariant: semaphores, thread locations and job contents of
\* run_live, run_bitcoin and run_scrypt always fit together.
THEOREM InvariantHolds == Spec => []IInv
<1>1. Init => IInv
  BY InitIInv
<1>2. IInv /\ [Next]_vars => IInv'
  BY IInvStep
<1> QED BY <1>1, <1>2, PTL DEF Spec

\* Every variable stays within its type.
THEOREM TypeCorrect == Spec => []TypeOK
<1>1. IInv => TypeOK
  BY DEF IInv
<1> QED BY <1>1, InvariantHolds, PTL

\* A run of the DFE reads the jobs of the slot being processed and no others.
THEOREM RunsAreOwn == Spec => []RunUsesOwnJobs
<1>1. IInv => RunUsesOwnJobs
  <2> SUFFICES ASSUME IInv, dpc = "running" PROVE RunUsesOwnJobs
    BY DEF RunUsesOwnJobs
  <2>0. TypeOK /\ Handshake /\ Control /\ Data /\ cur \in Workers
    BY DEF IInv, TypeOK
  <2>1. \A k \in Kinds : pc[k][cur] = "data" /\ data_mutex[k][cur] = 0
    BY <2>0, ArmedLemma
  <2>2. BitcoinDataAt(cur) /\ ScryptDataAt(cur) /\ queued = {cur}
    BY <2>0 DEF Data
  <2>3. \A k \in Kernels : ticks[k] /\ work[k][cur] # None
    BY <2>0, <2>1 DEF Data, Control, ThreadAt, Kinds
  <2>4. \A k \in Kinds : ~Answered(k, cur)
    BY <2>0, <2>1 DEF Answered
  <2>5. "bc" \in Kernels => \A f \in Fields : scalars[f] = work["bc"][cur]
    BY <2>1, <2>2, <2>4 DEF BitcoinDataAt, Before, Fields, Kinds
  <2>6. "s" \in Kernels => scrypt_buffer[cur] = Input(work["s"][cur])
    BY <2>1, <2>2, <2>4 DEF ScryptDataAt, Kinds
  <2> QED BY <2>2, <2>3, <2>5, <2>6 DEF RunUsesOwnJobs
<1> QED BY <1>1, InvariantHolds, PTL

\* What a thread submits is the answer to the job it holds.
THEOREM AnswersAreOwn == Spec => []AnswersMatchJobs
<1>1. IInv => AnswersMatchJobs
  <2> SUFFICES ASSUME IInv, NEW w \in Workers
               PROVE  /\ pc["bc"][w] = "submit" =>
                           \A f \in Fields : bitcoin_output[w][f] = work["bc"][w]
                      /\ pc["s"][w] = "submit" => scrypt_buffer[w] = Output(work["s"][w])
    BY DEF AnswersMatchJobs
  <2>1. BitcoinDataAt(w) /\ ScryptDataAt(w)
    BY DEF IInv, Data
  <2>2. \A k \in Kinds : pc[k][w] = "submit" => Answered(k, w)
    BY DEF IInv, Control, ThreadAt, Has, Answered, Fields
  <2> QED BY <2>1, <2>2 DEF BitcoinDataAt, ScryptDataAt, Kinds
<1> QED BY <1>1, InvariantHolds, PTL

\* The unlocked action set is written only by the slot being loaded.
THEOREM ActionsAreOwned == Spec => []ActionsOwned
<1>1. IInv => ActionsOwned
  BY ArmedLemma DEF IInv, ActionsOwned
<1> QED BY <1>1, InvariantHolds, PTL

\* No thread touches a buffer that the running DFE has been given.
THEOREM BuffersAreOwned == Spec => []BuffersOwned
<1>1. IInv => BuffersOwned
  BY ArmedLemma DEF IInv, TypeOK, Data, BuffersOwned
<1> QED BY <1>1, InvariantHolds, PTL

\* Between the end of a run and the end of the submission nothing alters an
\* answer or the job it belongs to.
THEOREM AnswersAreStable == Spec => AnswersStable
<1> DEFINE Kept ==
      \A w \in Workers :
        /\ Answered("bc", w) /\ Answered("bc", w)' =>
             bitcoin_output'[w] = bitcoin_output[w] /\ work'["bc"][w] = work["bc"][w]
        /\ Answered("s", w) /\ Answered("s", w)' =>
             scrypt_buffer'[w] = scrypt_buffer[w] /\ work'["s"][w] = work["s"][w]
<1>1. IInv /\ [Next]_vars => [Kept]_vars
  <2> SUFFICES ASSUME IInv, Next PROVE Kept
    OBVIOUS
  <2>0. /\ Handshake /\ Control /\ TypeOK /\ Data /\ cur \in Workers
        /\ pc \in [Kinds -> [Workers -> Locations]]
        /\ work \in [Kinds -> [Workers -> Jobs \cup {None}]]
        /\ scrypt_buffer \in [Workers ->
             [content : {"raw", "input", "output"}, job : Jobs \cup {None}]]
    BY DEF IInv, TypeOK
  <2>1. CASE RunDone
    <3>1. \A k \in Kinds : ~Answered(k, cur)
      BY <2>0, <2>1, ArmedLemma DEF RunDone, Answered
    <3>2. queued = {cur}
      BY <2>0, <2>1 DEF Data, RunDone
    <3> QED BY <2>1, <3>1, <3>2 DEF RunDone, Kinds
  <2>2. ASSUME NEW k \in Kinds, NEW v \in Workers, Getwork(k, v) PROVE Kept
    <3>1. ~Answered(k, v)
      BY <2>2 DEF Getwork, Answered
    <3> QED BY <2>0, <2>2, <3>1 DEF Getwork, buffers
  <2>3. ASSUME NEW k \in Kinds, NEW v \in Workers, Submit(k, v) PROVE Kept
    <3>1. ~Answered(k, v)'
      BY <2>0, <2>3 DEF Submit, Goto, Answered
    <3> QED BY <2>0, <2>3, <3>1 DEF Submit, buffers
  <2>4. ASSUME NEW v \in Workers, Prepare(v) PROVE Kept
    <3>1. ~Answered("s", v)
      BY <2>4 DEF Prepare, Answered
    <3> QED BY <2>0, <2>4, <3>1 DEF Prepare
  <2>5. CASE UNCHANGED <<work, bitcoin_output, scrypt_buffer>>
    BY <2>5
  <2>6. Dispatch => RunDone \/ UNCHANGED <<work, bitcoin_output, scrypt_buffer>>
    BY DEF Dispatch, InitSems, QueueBuffers, CreateThread, AwaitWork, SignalLoad, AwaitReady,
      SignalData, buffers
  <2>7. ASSUME NEW k \in Kinds, NEW v \in Workers, Thread(k, v)
        PROVE  \/ Getwork(k, v) \/ Submit(k, v) \/ Prepare(v)
               \/ UNCHANGED <<work, bitcoin_output, scrypt_buffer>>
    BY <2>7 DEF Thread, PostProcess, WaitLoad, SetTicks, PostReady, WaitData, SetScalar, buffers
  <2>8. Fatal \/ Halted => UNCHANGED <<work, bitcoin_output, scrypt_buffer>>
    BY DEF Fatal, Halted, vars, buffers
  <2> HIDE DEF Kept
  <2> QED BY <2>1, <2>2, <2>3, <2>4, <2>5, <2>6, <2>7, <2>8 DEF Next
<1> QED BY <1>1, InvariantHolds, PTL DEF Spec, AnswersStable

-----------------------------------------------------------------------------
(***************************************************************************)
(* LiveMiner implements MiningRounds.  Fetching work maps to Take, the end *)
(* of a DFE run to Run, a submission to HandBack and LOG_FATAL to Halt;    *)
(* every other step of the hand-shake is a stuttering step of the rounds.  *)
(***************************************************************************)

\* Only a run, a thread that takes or hands back, and an exit are visible.
LEMMA Stutter ==
  ASSUME work' = work, alive' = alive, mapTurn' = mapTurn,
         \A k \in Kernels, w \in Workers :
           /\ Answered(k, w)' <=> Answered(k, w)
           /\ Answered(k, w) => /\ k = "bc" => bitcoin_output'[w] = bitcoin_output[w]
                                /\ k = "s" => scrypt_buffer'[w] = scrypt_buffer[w]
  PROVE  UNCHANGED Rounds!vars
<1>1. \A k \in Kernels, w \in Workers : StageAt(k, w)' = StageAt(k, w)
  BY DEF StageAt
<1>2. \A k \in Kernels, w \in Workers : AnswerAt(k, w)' = AnswerAt(k, w)
  <2> SUFFICES ASSUME NEW k \in Kernels, NEW w \in Workers, Answered(k, w), Answered(k, w)'
               PROVE  AnswerAt(k, w)' = AnswerAt(k, w)
    BY DEF AnswerAt
  <2>1. CASE k = "bc"
    BY <2>1 DEF AnswerAt
  <2>2. CASE k = "s"
    BY <2>2 DEF AnswerAt
  <2> QED BY <2>1, <2>2 DEF Kinds
<1>3. \A k \in Kernels : [w \in Workers |-> StageAt(k, w)]' = [w \in Workers |-> StageAt(k, w)]
  BY <1>1
<1>4. \A k \in Kernels : [w \in Workers |-> AnswerAt(k, w)]' = [w \in Workers |-> AnswerAt(k, w)]
  BY <1>2
<1>5. mapStage' = mapStage /\ mapAnswer' = mapAnswer
  BY <1>3, <1>4 DEF mapStage, mapAnswer
<1> QED BY <1>5 DEF Rounds!vars, mapJob

\* Before the first thread is created no slot holds a job.
LEMMA RoundsInit == Init => Rounds!Init
<1> SUFFICES ASSUME Init PROVE Rounds!Init
  OBVIOUS
<1>1. \A k \in Kernels, w \in Workers : StageAt(k, w) = "free" /\ AnswerAt(k, w) = {}
  BY DEF Init, StageAt, AnswerAt, Answered, Kinds
<1>2. mapStage = [k \in Kernels |-> [w \in Workers |-> "free"]]
  BY <1>1 DEF mapStage
<1>3. mapAnswer = [k \in Kernels |-> [w \in Workers |-> {}]]
  BY <1>1 DEF mapAnswer
<1>4. mapJob = [k \in Kernels |-> [w \in Workers |-> None]]
  <2>1. \A k \in Kernels : work[k] = [w \in Workers |-> None]
    BY DEF Init, Kinds
  <2> QED BY <2>1 DEF mapJob
<1>5. mapTurn = 0 /\ alive
  BY DEF Init, mapTurn
<1> QED BY <1>2, <1>3, <1>4, <1>5 DEF Rounds!Init, Rounds!Workers, Workers

\* A step that leaves the jobs, the results and the hand-over alone stutters.
LEMMA QuietStutter ==
  ASSUME work' = work, alive' = alive, cur' = cur, data_mutex' = data_mutex,
         bitcoin_output' = bitcoin_output,
         dpc' = "data" <=> dpc = "data",
         \A k \in Kernels, w \in Workers :
           /\ pc[k][w] = "submit" <=> pc'[k][w] = "submit"
           /\ pc[k][w] = "data" <=> pc'[k][w] = "data"
           /\ k = "s" /\ Answered(k, w) => scrypt_buffer'[w] = scrypt_buffer[w]
  PROVE  UNCHANGED Rounds!vars
<1>1. mapTurn' = mapTurn
  BY DEF mapTurn, NextWorker
<1>2. \A k \in Kernels, w \in Workers : Answered(k, w)' <=> Answered(k, w)
  BY DEF Answered
<1> QED BY <1>1, <1>2, Stutter

\* Getwork is Take.
LEMMA GetworkTakes ==
  ASSUME IInv, alive, UNCHANGED alive, NEW k \in Kinds, NEW w \in Workers, Getwork(k, w)
  PROVE  k \in Kernels /\ Rounds!Take(k, w)
<1>1. ThreadAt(k, w) /\ pc \in [Kinds -> [Workers -> Locations]]
      /\ work \in [Kinds -> [Workers -> Jobs \cup {None}]]
  BY DEF IInv, Control, TypeOK
<1>2. k \in Kernels /\ work[k][w] = None
  BY <1>1 DEF Getwork, ThreadAt, Has
<1>3. PICK j \in Jobs : work' = [work EXCEPT ![k][w] = j]
  BY DEF Getwork
<1>4. pc' = [pc EXCEPT ![k][w] = IF k = "s" THEN "prepare" ELSE "process"]
  BY DEF Getwork, Goto
<1>5. UNCHANGED <<dispatcher, data_mutex, buffers>>
  BY DEF Getwork, semaphores
<1>6. \A i \in Kernels, v \in Workers : Answered(i, v)' <=> Answered(i, v)
  BY <1>1, <1>4, <1>5 DEF Answered, dispatcher, Getwork
<1>7. \A i \in Kernels, v \in Workers :
        StageAt(i, v)' = IF i = k /\ v = w THEN "held" ELSE StageAt(i, v)
  <2>1. ~Answered(k, w)
    BY DEF Getwork, Answered
  <2> QED BY <1>1, <1>2, <1>3, <1>6, <2>1 DEF StageAt
<1>8. mapStage' = [mapStage EXCEPT ![k][w] = "held"]
  BY <1>2, <1>7 DEF mapStage
<1>9. mapJob' = [mapJob EXCEPT ![k][w] = j]
  BY <1>1, <1>2, <1>3 DEF mapJob
<1>10. \A i \in Kernels, v \in Workers : AnswerAt(i, v)' = AnswerAt(i, v)
  BY <1>5, <1>6 DEF AnswerAt, buffers
<1>11. mapAnswer' = mapAnswer
  BY <1>10 DEF mapAnswer
<1>12. mapTurn' = mapTurn
  BY <1>5 DEF mapTurn, dispatcher, NextWorker
<1>13. mapStage[k][w] = "free"
  BY <1>2 DEF mapStage, StageAt
<1> QED BY <1>2, <1>3, <1>8, <1>9, <1>11, <1>12, <1>13 DEF Rounds!Take

\* Submit is HandBack.
LEMMA SubmitHandsBack ==
  ASSUME IInv, alive, UNCHANGED alive, NEW k \in Kinds, NEW w \in Workers, Submit(k, w)
  PROVE  k \in Kernels /\ Rounds!HandBack(k, w)
<1>1. ThreadAt(k, w) /\ pc \in [Kinds -> [Workers -> Locations]]
      /\ work \in [Kinds -> [Workers -> Jobs \cup {None}]]
  BY DEF IInv, Control, TypeOK
<1>2. k \in Kernels /\ work[k][w] # None /\ Answered(k, w)
  BY <1>1 DEF Submit, ThreadAt, Has, Answered
<1>3. work' = [work EXCEPT ![k][w] = None]
  BY DEF Submit
<1>4. pc' = [pc EXCEPT ![k][w] = "getwork"]
  BY DEF Submit, Goto
<1>5. UNCHANGED <<dispatcher, data_mutex, buffers>>
  BY DEF Submit, semaphores
<1>6. \A i \in Kernels, v \in Workers : Answered(i, v)' <=> (Answered(i, v) /\ ~(i = k /\ v = w))
  BY <1>1, <1>4, <1>5 DEF Answered, dispatcher
<1>7. \A i \in Kernels, v \in Workers :
        StageAt(i, v)' = IF i = k /\ v = w THEN "free" ELSE StageAt(i, v)
  BY <1>1, <1>2, <1>3, <1>6 DEF StageAt
<1>8. mapStage' = [mapStage EXCEPT ![k][w] = "free"]
  BY <1>2, <1>7 DEF mapStage
<1>9. mapJob' = [mapJob EXCEPT ![k][w] = None]
  BY <1>1, <1>2, <1>3 DEF mapJob
<1>10. \A i \in Kernels, v \in Workers :
         AnswerAt(i, v)' = IF i = k /\ v = w THEN {} ELSE AnswerAt(i, v)
  BY <1>5, <1>6 DEF AnswerAt, buffers
<1>11. mapAnswer' = [mapAnswer EXCEPT ![k][w] = {}]
  <2>1. mapAnswer' = [i \in Kernels |-> [v \in Workers |->
                       IF i = k /\ v = w THEN {} ELSE AnswerAt(i, v)]]
    BY ONLY <1>10 DEF mapAnswer
  <2> QED BY ONLY <1>2, <2>1 DEF mapAnswer
<1>12. mapTurn' = mapTurn
  BY <1>5 DEF mapTurn, dispatcher, NextWorker
<1>13. mapStage[k][w] = "answered"
  BY <1>2 DEF mapStage, StageAt
<1> QED BY <1>2, <1>8, <1>9, <1>11, <1>12, <1>13 DEF Rounds!HandBack

\* The end of a DFE run is Run: all kernels of the slot are answered together.
LEMMA RunDoneRuns ==
  ASSUME IInv, alive, UNCHANGED alive, RunDone
  PROVE  Rounds!Run
<1>0. TypeOK /\ Handshake /\ Control /\ Data /\ cur \in Workers /\ dpc = "running" /\ dpc' = "data"
  BY DEF IInv, TypeOK, RunDone
<1>1. \A k \in Kinds : pc[k][cur] = "data" /\ data_mutex[k][cur] = 0
  BY <1>0, ArmedLemma
<1>2. queued = {cur} /\ BitcoinDataAt(cur) /\ ScryptDataAt(cur)
  BY <1>0 DEF Data
<1>3. /\ UNCHANGED <<boot, cur, pc, data_mutex, work>>
      /\ \A v \in Workers :
           bitcoin_output'[v] = IF "bc" \in Kernels /\ v = cur THEN scalars ELSE bitcoin_output[v]
      /\ \A v \in Workers :
           scrypt_buffer'[v] = IF "s" \in Kernels /\ v = cur THEN ScryptResult(scrypt_buffer[v])
                                                             ELSE scrypt_buffer[v]
  BY <1>2 DEF RunDone, semaphores
<1>4. \A k \in Kernels, w \in Workers : Answered(k, w)' <=> (Answered(k, w) \/ w = cur)
  BY <1>0, <1>1, <1>3 DEF Answered
<1>5. \A k \in Kernels : work[k][cur] # None /\ ~Answered(k, cur)
  BY <1>0, <1>1 DEF Control, ThreadAt, Answered
<1>6. \A k \in Kernels, w \in Workers :
        StageAt(k, w)' = IF w = cur THEN "answered" ELSE StageAt(k, w)
  BY <1>3, <1>4, <1>5 DEF StageAt
<1>7. \A k \in Kernels : AnswerAt(k, cur)' = {work[k][cur]}
  <2>1. "bc" \in Kernels => \A f \in Fields : bitcoin_output'[cur][f] = work["bc"][cur]
    BY <1>0, <1>1, <1>2, <1>3, <1>5 DEF BitcoinDataAt, Before, Fields
  <2>2. "s" \in Kernels => scrypt_buffer'[cur].job = work["s"][cur]
    BY <1>0, <1>1, <1>2, <1>3, <1>5 DEF ScryptDataAt, ScryptResult, Input, Output
  <2>3. "bc" \in Kernels => AnswerAt("bc", cur)' = {work["bc"][cur]}
    BY <1>0, <1>3, <1>4, <2>1 DEF AnswerAt, Fields
  <2>4. "s" \in Kernels => AnswerAt("s", cur)' = {work["s"][cur]}
    BY <1>0, <1>3, <1>4, <2>2 DEF AnswerAt
  <2> QED BY <2>3, <2>4 DEF Kinds
<1>8. \A k \in Kernels, w \in Workers : w # cur => AnswerAt(k, w)' = AnswerAt(k, w)
  BY <1>3, <1>4 DEF AnswerAt
<1>9. mapStage' = [k \in Kernels |-> [mapStage[k] EXCEPT ![cur] = "answered"]]
  <2>1. \A k \in Kernels : [w \in Workers |-> StageAt(k, w)'] = [mapStage[k] EXCEPT ![cur] = "answered"]
    BY <1>0, <1>6 DEF mapStage
  <2> QED BY <2>1 DEF mapStage
<1>10. mapAnswer' = [k \in Kernels |-> [mapAnswer[k] EXCEPT ![cur] = {mapJob[k][cur]}]]
  <2>1. \A k \in Kernels : [w \in Workers |-> AnswerAt(k, w)']
                             = [mapAnswer[k] EXCEPT ![cur] = {mapJob[k][cur]}]
    <3> SUFFICES ASSUME NEW k \in Kernels
                 PROVE  [w \in Workers |-> AnswerAt(k, w)']
                          = [mapAnswer[k] EXCEPT ![cur] = {mapJob[k][cur]}]
      OBVIOUS
    <3>1. mapJob[k][cur] = work[k][cur] /\ mapAnswer[k] = [w \in Workers |-> AnswerAt(k, w)]
      BY DEF mapJob, mapAnswer
    <3>2. \A w \in Workers : AnswerAt(k, w)' = IF w = cur THEN {mapJob[k][cur]} ELSE AnswerAt(k, w)
      BY <1>3, <1>7, <1>8, <3>1
    <3> QED BY <1>0, <3>1, <3>2
  <2> QED BY <2>1 DEF mapAnswer
<1>11. mapTurn = cur /\ mapTurn' = (cur + 1) % NumWorkers
  BY <1>0, <1>3 DEF mapTurn, NextWorker
<1>12. \A k \in Kernels : mapStage[k][cur] = "held"
  BY <1>0, <1>5 DEF mapStage, StageAt
<1> QED BY <1>3, <1>9, <1>10, <1>11, <1>12 DEF Rounds!Run, mapJob

\* Every step of the live loop is a step of the rounds or a stuttering step.
LEMMA RoundsStep == IInv /\ [Next]_vars => [Rounds!Next]_(Rounds!vars)
<1> SUFFICES ASSUME IInv, [Next]_vars PROVE Rounds!Next \/ UNCHANGED Rounds!vars
  OBVIOUS
<1>0. TypeOK /\ Handshake /\ Control /\ cur \in Workers /\ dk \in Kinds
      /\ pc \in [Kinds -> [Workers -> Locations]] /\ data_mutex \in Semaphores
  BY DEF IInv, TypeOK, Semaphores
<1>1. CASE Dispatch
  <2> USE <1>1 DEF Dispatch, Booting
  <2>1. CASE InitSems
    <3>1. \A i \in Kernels, v \in Workers : Answered(i, v)' <=> Answered(i, v)
      <4>1. \A i \in Kernels : pc[i][boot] = "unborn"
        BY <1>0, <2>1 DEF InitSems, Control, ThreadAt, TypeOK, Workers, Past
      <4>2. \A i \in Kernels, v \in Workers : v # boot => data_mutex'[i][v] = data_mutex[i][v]
        BY <1>0, <2>1 DEF InitSems, Semaphores
      <4> QED BY <2>1, <4>1, <4>2 DEF InitSems, Answered
    <3> QED BY <2>1, <3>1, Stutter DEF InitSems, buffers, mapTurn, NextWorker
  <2>2. CASE QueueBuffers
    BY <2>2, QuietStutter DEF QueueBuffers, semaphores, buffers
  <2>3. CASE RunDone
    BY <2>3, RunDoneRuns DEF Rounds!Next
  <2>4. ASSUME NEW k \in Kinds, CreateThread(k) PROVE UNCHANGED Rounds!vars
    <3>1. \A i \in Kernels, v \in Workers :
            /\ pc[i][v] = "submit" <=> pc'[i][v] = "submit"
            /\ pc[i][v] = "data" <=> pc'[i][v] = "data"
      <4>1. pc[k][boot] = "unborn"
        BY <1>0, <2>4 DEF CreateThread, Control, ThreadAt, TypeOK, Workers, Past
      <4>2. pc' = [pc EXCEPT ![k][boot] = LoopStart(k)] /\ LoopStart(k) \in {"getwork", "process"}
        BY <2>4 DEF CreateThread, LoopStart
      <4> QED BY <1>0, <4>1, <4>2
    <3>2. /\ dpc = "create" /\ dpc' # "data"
          /\ UNCHANGED <<cur, semaphores, work, actions, buffers>>
      BY <2>4 DEF CreateThread
    <3> QED BY <3>1, <3>2, QuietStutter DEF semaphores, buffers
  <2>5. ASSUME NEW k \in Kinds, AwaitWork(k) PROVE UNCHANGED Rounds!vars
    BY <2>5, QuietStutter DEF AwaitWork, Advance, buffers
  <2>6. ASSUME NEW k \in Kinds, SignalLoad(k) PROVE UNCHANGED Rounds!vars
    BY <2>6, QuietStutter DEF SignalLoad, Advance, buffers
  <2>7. ASSUME NEW k \in Kinds, AwaitReady(k) PROVE UNCHANGED Rounds!vars
    BY <2>7, QuietStutter DEF AwaitReady, Advance, buffers
  <2>8. ASSUME NEW k \in Kinds, SignalData(k) PROVE UNCHANGED Rounds!vars
    <3>1. \A i \in Kernels, v \in Workers : Answered(i, v)' <=> Answered(i, v)
      BY <1>0, <2>8, AnsweredKept
    <3>2. mapTurn' = mapTurn
      BY <1>0, <2>8 DEF SignalData, Advance, mapTurn, Kinds
    <3>3. work' = work /\ bitcoin_output' = bitcoin_output /\ scrypt_buffer' = scrypt_buffer
      BY <2>8 DEF SignalData, buffers
    <3> QED BY <3>1, <3>2, <3>3, Stutter
  <2> QED BY <2>1, <2>2, <2>3, <2>4, <2>5, <2>6, <2>7, <2>8
<1>2. ASSUME NEW k \in Kinds, NEW w \in Workers, Thread(k, w)
      PROVE  Rounds!Next \/ UNCHANGED Rounds!vars
  <2>0. alive /\ UNCHANGED alive /\ ThreadAt(k, w)
    BY <1>0, <1>2 DEF Thread, Control
  <2>1. CASE Getwork(k, w)
    BY <2>0, <2>1, GetworkTakes DEF Rounds!Next, Rounds!Workers, Workers
  <2>2. CASE PostProcess(k, w)
    BY <1>0, <2>0, <2>2, QuietStutter DEF PostProcess, Goto, dispatcher, buffers
  <2>3. CASE WaitLoad(k, w)
    BY <1>0, <2>0, <2>3, QuietStutter DEF WaitLoad, SetupStart, Goto, dispatcher, buffers, Kinds
  <2>4. CASE SetTicks(k, w)
    BY <1>0, <2>0, <2>4, QuietStutter DEF SetTicks, Goto, dispatcher, semaphores, buffers
  <2>5. CASE PostReady(k, w)
    <3>1. w = cur /\ dpc \in {"load", "ready"} /\ data_mutex[k][w] = 0
      BY <1>0, <2>5, ArmedLemma DEF PostReady
    <3>2. pc' = [pc EXCEPT ![k][w] = "data"] /\ pc[k][w] = "ready"
          /\ UNCHANGED <<dpc, cur, data_mutex, work, bitcoin_output, scrypt_buffer>>
      BY <2>5 DEF PostReady, Goto, dispatcher, buffers
    <3>3. \A i \in Kernels, v \in Workers : Answered(i, v)' <=> Answered(i, v)
      BY <1>0, <3>1, <3>2 DEF Answered
    <3> QED BY <2>0, <3>2, <3>3, Stutter DEF mapTurn, NextWorker
  <2>6. CASE WaitData(k, w)
    <3>1. pc' = [pc EXCEPT ![k][w] = IF k \in Kernels THEN "submit" ELSE "process"]
          /\ pc[k][w] = "data" /\ data_mutex[k][w] > 0 /\ data_mutex' = Down(data_mutex, k, w)
          /\ UNCHANGED <<dpc, cur, work, bitcoin_output, scrypt_buffer>>
      BY <2>6 DEF WaitData, Goto, dispatcher, buffers
    <3>2. \A i \in Kinds, v \in Workers : i # k \/ v # w => data_mutex'[i][v] = data_mutex[i][v]
      BY <1>0, <3>1, DownLemma
    <3>3. \A i \in Kernels, v \in Workers : Answered(i, v)' <=> Answered(i, v)
      BY <1>0, <3>1, <3>2 DEF Answered
    <3> QED BY <2>0, <3>1, <3>3, Stutter DEF mapTurn, NextWorker
  <2>7. CASE Submit(k, w)
    BY <2>0, <2>7, SubmitHandsBack DEF Rounds!Next, Rounds!Workers, Workers
  <2>8. CASE k = "bc" /\ SetScalar(w)
    BY <1>0, <2>0, <2>8, QuietStutter DEF SetScalar, NextField, Fields, Goto, dispatcher, semaphores, buffers, Kinds
  <2>9. CASE k = "s" /\ Prepare(w)
    <3>1. pc["s"][w] = "prepare" /\ pc' = [pc EXCEPT !["s"][w] = "process"]
          /\ scrypt_buffer' = [scrypt_buffer EXCEPT ![w] = Input(work["s"][w])]
          /\ UNCHANGED <<dpc, cur, data_mutex, work, bitcoin_output>>
      BY <2>9 DEF Prepare, Goto, dispatcher, semaphores
    <3>2. \A v \in Workers : Answered("s", v) => scrypt_buffer'[v] = scrypt_buffer[v]
      <4>1. ~Answered("s", w)
        BY <3>1 DEF Answered
      <4> QED BY <1>0, <3>1, <4>1 DEF TypeOK
    <3>3. \A i \in Kernels, v \in Workers :
            /\ pc[i][v] = "submit" <=> pc'[i][v] = "submit"
            /\ pc[i][v] = "data" <=> pc'[i][v] = "data"
      BY <1>0, <3>1 DEF Kinds
    <3> QED BY <2>0, <3>1, <3>2, <3>3, QuietStutter
  <2> QED BY <1>2, <2>1, <2>2, <2>3, <2>4, <2>5, <2>6, <2>7, <2>8, <2>9 DEF Thread
<1>3. CASE Fatal
  <2>1. /\ UNCHANGED <<dpc, cur, pc, data_mutex, work, bitcoin_output, scrypt_buffer>>
        /\ alive /\ ~alive'
    BY <1>3 DEF Fatal, dispatcher, semaphores, buffers, IInv, TypeOK
  <2>2. \A k \in Kernels, w \in Workers : StageAt(k, w)' = StageAt(k, w) /\ AnswerAt(k, w)' = AnswerAt(k, w)
    BY <2>1 DEF StageAt, AnswerAt, Answered
  <2>3. mapStage' = mapStage /\ mapAnswer' = mapAnswer
    BY <2>2 DEF mapStage, mapAnswer
  <2>4. mapTurn' = mapTurn /\ mapJob' = mapJob
    BY <2>1 DEF mapTurn, mapJob, NextWorker
  <2> QED BY <2>1, <2>3, <2>4 DEF Rounds!Next, Rounds!Halt
<1>4. CASE UNCHANGED vars
  BY <1>4, QuietStutter DEF vars, dispatcher, semaphores, buffers
<1> QED BY <1>1, <1>2, <1>3, <1>4 DEF Next, Halted

\* The live loop implements the rounds.
THEOREM RoundsImplemented == Spec => ImplementsRounds
<1>1. Init => Rounds!Init
  BY RoundsInit
<1>2. IInv /\ [Next]_vars => [Rounds!Next]_(Rounds!vars)
  BY RoundsStep
<1> QED BY <1>1, <1>2, InvariantHolds, PTL DEF Spec, ImplementsRounds, Rounds!Spec
=============================================================================
