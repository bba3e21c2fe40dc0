---------------------------- MODULE RerankProofs ----------------------------
(***************************************************************************)
(* Proofs about Rerank for any set of segmentations and any bound on the   *)
(* epochs: the type invariant, the inductive invariant IInv, the three     *)
(* safety invariants the runs check, and the implementation of             *)
(* PassService.                                                            *)
(***************************************************************************)
EXTENDS Rerank, TLAPS

\* States of a worker inside the slot's critical section.
Holding == {"recheckOk", "recheckErr", "storeOk", "storeErr", "unlock"}

\* The slot's mutex has the holder its lock word names.
LockInv ==
  \A g \in Gens : worker[g] \in Holding <=> slotLock = g

\* No worker exists for an epoch that has not spawned one.
SpawnInv ==
  /\ \A g \in Gens : g > generation => worker[g] = "none"
  /\ engine \in {"clear", "arm", "retract", "disarm"} =>
       \A g \in Gens : g = generation => worker[g] = "none"

\* While the engine is not between a bump and the clear that follows it, no
\* worker of an older epoch is past its second test of the epoch.
StoreInv ==
  engine \notin {"clear", "retract"} =>
    \A g \in Gens : worker[g] \in {"storeOk", "storeErr"} => g = generation

\* Which segmentation the current worker scores.
JobInv ==
  /\ \A g \in Gens : worker[g] # "none" => wjob[g] \in Jobs
  /\ engine \in {"idle", "apply"} =>
       \A g \in Gens : g = generation /\ worker[g] # "none" =>
         wjob[g] = conversion
  /\ engine \in {"clear", "arm"} => conversion \in Jobs
  /\ engine \in {"retract", "disarm"} => conversion = NoJob
  /\ engine \in {"clear", "arm", "retract", "disarm"} => generation \in Gens

\* The result r was stored by the worker of its epoch, which is through.
Stored(r) == worker[r.gen] \in {"unlock", "done"}

\* What the slot and the engine's hand hold.
SlotInv ==
  /\ \A r, s \in slot : r = s
  /\ engine \in {"arm", "disarm"} => slot = {}
  /\ engine \in {"idle", "apply"} =>
       \A r \in slot \cup taken :
         r.gen = generation /\ r.job = conversion /\ Stored(r)

TakenInv ==
  /\ \A r, s \in taken : r = s
  /\ engine = "apply" => taken # {} /\ slot = {} /\ inflight
  /\ engine # "apply" => taken = {}

FlagInv == engine = "idle" => (inflight <=> PassPending)

IInv ==
  TypeOK /\ LockInv /\ SpawnInv /\ StoreInv /\ JobInv /\ SlotInv /\ TakenInv
    /\ FlagInv

-----------------------------------------------------------------------------
LEMMA InitIInv == Init => IInv
  <1> SUFFICES ASSUME Init PROVE IInv
    OBVIOUS
  <1> USE DEF Init
  <1>1. TypeOK
    <2>1. generation \in 0 .. MaxGen /\ slotLock \in 0 .. MaxGen
      BY MaxGenAssumption
    <2>2. worker \in [Gens -> WorkerStates]
      BY DEF WorkerStates
    <2>3. wjob \in [Gens -> Jobs \cup {NoJob}]
      OBVIOUS
    <2> QED
      BY <2>1, <2>2 DEF TypeOK, EngineStates
  <1>2. LockInv
    BY DEF LockInv, Gens, Holding
  <1>3. SpawnInv /\ StoreInv /\ JobInv
    BY DEF SpawnInv, StoreInv, JobInv
  <1>4. SlotInv /\ TakenInv
    BY DEF SlotInv, TakenInv
  <1>5. FlagInv
    BY DEF FlagInv, PassPending, CurrentWorkerAlive, Gens
  <1> QED
    BY <1>1, <1>2, <1>3, <1>4, <1>5 DEF IInv

LEMMA TriggerBumpInv ==
  ASSUME IInv, NEW j \in Jobs, TriggerBump(j)
  PROVE  IInv'
  <1>1. TypeOK'
    BY MaxGenAssumption DEF IInv, TriggerBump, TypeOK, EngineStates
  <1>2. LockInv'
    BY DEF IInv, TriggerBump, LockInv
  <1>3. SpawnInv'
    BY DEF IInv, TriggerBump, TypeOK, SpawnInv, Gens
  <1>4. StoreInv'
    BY DEF TriggerBump, StoreInv
  <1>5. JobInv'
    BY MaxGenAssumption DEF IInv, TriggerBump, TypeOK, JobInv, Gens
  <1>6. SlotInv'
    BY DEF IInv, TriggerBump, SlotInv
  <1>7. TakenInv'
    BY DEF IInv, TriggerBump, TakenInv
  <1>8. FlagInv'
    BY DEF TriggerBump, FlagInv
  <1> QED
    BY <1>1, <1>2, <1>3, <1>4, <1>5, <1>6, <1>7, <1>8 DEF IInv

LEMMA TriggerClearInv ==
  ASSUME IInv, TriggerClear
  PROVE  IInv'
  <1>1. TypeOK'
    BY DEF IInv, TriggerClear, TypeOK, EngineStates
  <1>2. LockInv'
    BY DEF IInv, TriggerClear, LockInv
  <1>3. SpawnInv'
    BY DEF IInv, TriggerClear, SpawnInv
  <1>4. StoreInv'
    BY DEF IInv, TriggerClear, LockInv, StoreInv, Holding, Gens
  <1>5. JobInv'
    BY DEF IInv, TriggerClear, JobInv
  <1>6. SlotInv'
    BY DEF TriggerClear, SlotInv
  <1>7. TakenInv'
    BY DEF IInv, TriggerClear, TakenInv
  <1>8. FlagInv'
    BY DEF TriggerClear, FlagInv
  <1> QED
    BY <1>1, <1>2, <1>3, <1>4, <1>5, <1>6, <1>7, <1>8 DEF IInv

LEMMA TriggerSpawnInv ==
  ASSUME IInv, TriggerSpawn
  PROVE  IInv'
  <1>1. TypeOK'
    BY DEF IInv, TriggerSpawn, TypeOK, WorkerStates, EngineStates
  <1>2. LockInv'
    BY DEF IInv, TriggerSpawn, LockInv, SpawnInv, Holding
  <1>3. SpawnInv'
    BY DEF IInv, TriggerSpawn, SpawnInv, Gens
  <1>4. StoreInv'
    BY DEF IInv, TriggerSpawn, StoreInv
  <1>5. JobInv'
    BY DEF IInv, TriggerSpawn, TypeOK, JobInv
  <1>6. SlotInv'
    BY DEF IInv, TriggerSpawn, SlotInv, TakenInv
  <1>7. TakenInv'
    BY DEF IInv, TriggerSpawn, TakenInv
  <1>8. FlagInv'
    BY DEF IInv, TriggerSpawn, TypeOK, JobInv, FlagInv, PassPending,
       CurrentWorkerAlive, Alive, WorkerStates
  <1> QED
    BY <1>1, <1>2, <1>3, <1>4, <1>5, <1>6, <1>7, <1>8 DEF IInv

LEMMA KanaInv ==
  ASSUME IInv, NEW j \in Jobs, StartKanaConversion(j)
  PROVE  IInv'
  <1>1. TypeOK'
    BY DEF IInv, StartKanaConversion, TypeOK
  <1>2. LockInv'
    BY DEF IInv, StartKanaConversion, LockInv
  <1>3. SpawnInv'
    BY DEF IInv, StartKanaConversion, SpawnInv
  <1>4. StoreInv'
    BY DEF IInv, StartKanaConversion, StoreInv
  <1>5. JobInv'
    BY NoJobAssumption DEF IInv, StartKanaConversion, JobInv
  <1>6. SlotInv'
    BY NoJobAssumption DEF IInv, StartKanaConversion, TypeOK, SlotInv, Result
  <1>7. TakenInv'
    BY DEF IInv, StartKanaConversion, TakenInv
  <1>8. FlagInv'
    BY DEF IInv, StartKanaConversion, FlagInv, PassPending, CurrentWorkerAlive
  <1> QED
    BY <1>1, <1>2, <1>3, <1>4, <1>5, <1>6, <1>7, <1>8 DEF IInv

LEMMA InvalidateBumpInv ==
  ASSUME IInv, InvalidateBump
  PROVE  IInv'
  <1>1. TypeOK'
    BY MaxGenAssumption DEF IInv, InvalidateBump, TypeOK, EngineStates
  <1>2. LockInv'
    BY DEF IInv, InvalidateBump, LockInv
  <1>3. SpawnInv'
    BY DEF IInv, InvalidateBump, TypeOK, SpawnInv, Gens
  <1>4. StoreInv'
    BY DEF InvalidateBump, StoreInv
  <1>5. JobInv'
    BY MaxGenAssumption DEF IInv, InvalidateBump, TypeOK, JobInv, Gens
  <1>6. SlotInv'
    BY DEF IInv, InvalidateBump, SlotInv
  <1>7. TakenInv'
    BY DEF IInv, InvalidateBump, TakenInv
  <1>8. FlagInv'
    BY DEF InvalidateBump, FlagInv
  <1> QED
    BY <1>1, <1>2, <1>3, <1>4, <1>5, <1>6, <1>7, <1>8 DEF IInv

LEMMA InvalidateClearInv ==
  ASSUME IInv, InvalidateClear
  PROVE  IInv'
  <1>1. TypeOK'
    BY DEF IInv, InvalidateClear, TypeOK, EngineStates
  <1>2. LockInv'
    BY DEF IInv, InvalidateClear, LockInv
  <1>3. SpawnInv'
    BY DEF IInv, InvalidateClear, SpawnInv
  <1>4. StoreInv'
    BY DEF IInv, InvalidateClear, LockInv, StoreInv, Holding, Gens
  <1>5. JobInv'
    BY DEF IInv, InvalidateClear, JobInv
  <1>6. SlotInv'
    BY DEF InvalidateClear, SlotInv
  <1>7. TakenInv'
    BY DEF IInv, InvalidateClear, TakenInv
  <1>8. FlagInv'
    BY DEF InvalidateClear, FlagInv
  <1> QED
    BY <1>1, <1>2, <1>3, <1>4, <1>5, <1>6, <1>7, <1>8 DEF IInv

LEMMA InvalidateDisarmInv ==
  ASSUME IInv, InvalidateDisarm
  PROVE  IInv'
  <1>1. TypeOK'
    BY DEF IInv, InvalidateDisarm, TypeOK, EngineStates
  <1>2. LockInv'
    BY DEF IInv, InvalidateDisarm, LockInv
  <1>3. SpawnInv'
    BY DEF IInv, InvalidateDisarm, SpawnInv
  <1>4. StoreInv'
    BY DEF IInv, InvalidateDisarm, StoreInv
  <1>5. JobInv'
    BY DEF IInv, InvalidateDisarm, SpawnInv, JobInv
  <1>6. SlotInv'
    BY DEF IInv, InvalidateDisarm, SlotInv, TakenInv
  <1>7. TakenInv'
    BY DEF IInv, InvalidateDisarm, TakenInv
  <1>8. FlagInv'
    BY DEF IInv, InvalidateDisarm, SpawnInv, SlotInv, FlagInv, PassPending,
       CurrentWorkerAlive, Alive
  <1> QED
    BY <1>1, <1>2, <1>3, <1>4, <1>5, <1>6, <1>7, <1>8 DEF IInv

LEMMA ApplyTakeInv ==
  ASSUME IInv, ApplyTake
  PROVE  IInv'
  <1>1. TypeOK'
    BY DEF IInv, ApplyTake, TypeOK, EngineStates
  <1>2. LockInv'
    BY DEF IInv, ApplyTake, LockInv
  <1>3. SpawnInv'
    BY DEF IInv, ApplyTake, SpawnInv
  <1>4. StoreInv'
    BY DEF IInv, ApplyTake, StoreInv
  <1>5. JobInv'
    BY DEF IInv, ApplyTake, JobInv
  <1>6. SlotInv'
    BY DEF IInv, ApplyTake, SlotInv, Stored
  <1>7. TakenInv'
    BY DEF IInv, ApplyTake, SlotInv, TakenInv, FlagInv, PassPending
  <1>8. FlagInv'
    BY DEF ApplyTake, FlagInv
  <1> QED
    BY <1>1, <1>2, <1>3, <1>4, <1>5, <1>6, <1>7, <1>8 DEF IInv

LEMMA ApplyFinishInv ==
  ASSUME IInv, ApplyFinish
  PROVE  IInv'
  <1>1. TypeOK'
    BY DEF IInv, ApplyFinish, TypeOK, EngineStates
  <1>2. LockInv'
    BY DEF IInv, ApplyFinish, LockInv
  <1>3. SpawnInv'
    BY DEF IInv, ApplyFinish, SpawnInv
  <1>4. StoreInv'
    BY DEF IInv, ApplyFinish, StoreInv
  <1>5. JobInv'
    BY DEF IInv, ApplyFinish, JobInv
  <1>6. SlotInv'
    BY DEF IInv, ApplyFinish, SlotInv, Stored
  <1>7. TakenInv'
    BY DEF ApplyFinish, TakenInv
  <1>8. FlagInv'
    BY DEF IInv, ApplyFinish, SlotInv, TakenInv, FlagInv, Stored, PassPending,
       CurrentWorkerAlive, Alive
  <1> QED
    BY <1>1, <1>2, <1>3, <1>4, <1>5, <1>6, <1>7, <1>8 DEF IInv

LEMMA WorkerScoreInv ==
  ASSUME IInv, NEW g \in Gens, WorkerScore(g)
  PROVE  IInv'
  <1>1. TypeOK'
    BY DEF IInv, WorkerScore, GoTo, TypeOK, WorkerStates
  <1>2. LockInv'
    BY DEF IInv, WorkerScore, GoTo, LockInv, Holding
  <1>3. SpawnInv'
    BY DEF IInv, WorkerScore, GoTo, SpawnInv
  <1>4. StoreInv'
    BY DEF IInv, WorkerScore, GoTo, StoreInv
  <1>5. JobInv'
    BY DEF IInv, WorkerScore, GoTo, JobInv
  <1>6. SlotInv'
    BY DEF IInv, WorkerScore, GoTo, SlotInv, Stored
  <1>7. TakenInv'
    BY DEF IInv, WorkerScore, TakenInv
  <1>8. FlagInv'
    BY DEF IInv, WorkerScore, GoTo, FlagInv, PassPending, CurrentWorkerAlive,
       Alive, WorkerStates
  <1> QED
    BY <1>1, <1>2, <1>3, <1>4, <1>5, <1>6, <1>7, <1>8 DEF IInv

LEMMA WorkerCheckInv ==
  ASSUME IInv, NEW g \in Gens, WorkerCheck(g)
  PROVE  IInv'
  <1>1. TypeOK'
    BY DEF IInv, WorkerCheck, GoTo, TypeOK, WorkerStates
  <1>2. LockInv'
    BY DEF IInv, WorkerCheck, GoTo, LockInv, Holding
  <1>3. SpawnInv'
    BY DEF IInv, WorkerCheck, GoTo, SpawnInv
  <1>4. StoreInv'
    BY DEF IInv, WorkerCheck, GoTo, StoreInv
  <1>5. JobInv'
    BY DEF IInv, WorkerCheck, GoTo, JobInv
  <1>6. SlotInv'
    BY DEF IInv, WorkerCheck, GoTo, SlotInv, Stored
  <1>7. TakenInv'
    BY DEF IInv, WorkerCheck, TakenInv
  <1>8. FlagInv'
    BY DEF IInv, WorkerCheck, GoTo, FlagInv, PassPending, CurrentWorkerAlive,
       Alive, WorkerStates
  <1> QED
    BY <1>1, <1>2, <1>3, <1>4, <1>5, <1>6, <1>7, <1>8 DEF IInv

LEMMA WorkerLockInv ==
  ASSUME IInv, NEW g \in Gens, WorkerLock(g)
  PROVE  IInv'
  <1>1. TypeOK'
    BY DEF IInv, WorkerLock, GoTo, TypeOK, WorkerStates, Gens
  <1>2. LockInv'
    BY DEF IInv, WorkerLock, GoTo, TypeOK, LockInv, Holding, Gens
  <1>3. SpawnInv'
    BY DEF IInv, WorkerLock, GoTo, SpawnInv
  <1>4. StoreInv'
    BY DEF IInv, WorkerLock, GoTo, StoreInv
  <1>5. JobInv'
    BY DEF IInv, WorkerLock, GoTo, JobInv
  <1>6. SlotInv'
    BY DEF IInv, WorkerLock, GoTo, SlotInv, Stored
  <1>7. TakenInv'
    BY DEF IInv, WorkerLock, TakenInv
  <1>8. FlagInv'
    BY DEF IInv, WorkerLock, GoTo, FlagInv, PassPending, CurrentWorkerAlive,
       Alive, WorkerStates
  <1> QED
    BY <1>1, <1>2, <1>3, <1>4, <1>5, <1>6, <1>7, <1>8 DEF IInv

LEMMA WorkerRecheckInv ==
  ASSUME IInv, NEW g \in Gens, WorkerRecheck(g)
  PROVE  IInv'
  <1>1. TypeOK'
    BY DEF IInv, WorkerRecheck, GoTo, TypeOK, WorkerStates
  <1>2. LockInv'
    BY DEF IInv, WorkerRecheck, GoTo, LockInv, Holding
  <1>3. SpawnInv'
    BY DEF IInv, WorkerRecheck, GoTo, SpawnInv
  <1>4. StoreInv'
    BY DEF IInv, WorkerRecheck, GoTo, StoreInv
  <1>5. JobInv'
    BY DEF IInv, WorkerRecheck, GoTo, JobInv
  <1>6. SlotInv'
    BY DEF IInv, WorkerRecheck, GoTo, SlotInv, Stored
  <1>7. TakenInv'
    BY DEF IInv, WorkerRecheck, TakenInv
  <1>8. FlagInv'
    BY DEF IInv, WorkerRecheck, GoTo, FlagInv, PassPending,
       CurrentWorkerAlive, Alive, WorkerStates
  <1> QED
    BY <1>1, <1>2, <1>3, <1>4, <1>5, <1>6, <1>7, <1>8 DEF IInv

LEMMA WorkerStoreOkInv ==
  ASSUME IInv, NEW g \in Gens, WorkerStoreOk(g)
  PROVE  IInv'
  <1>1. TypeOK'
    BY DEF IInv, WorkerStoreOk, GoTo, TypeOK, JobInv, WorkerStates, Result
  <1>2. LockInv'
    BY DEF IInv, WorkerStoreOk, GoTo, LockInv, Holding
  <1>3. SpawnInv'
    BY DEF IInv, WorkerStoreOk, GoTo, SpawnInv
  <1>4. StoreInv'
    BY DEF IInv, WorkerStoreOk, GoTo, StoreInv
  <1>5. JobInv'
    BY DEF IInv, WorkerStoreOk, GoTo, JobInv
  <1>6. SlotInv'
    BY DEF IInv, WorkerStoreOk, GoTo, TypeOK, SpawnInv, StoreInv, JobInv,
       SlotInv, Stored
  <1>7. TakenInv'
    BY DEF IInv, WorkerStoreOk, StoreInv, SlotInv, TakenInv, Stored
  <1>8. FlagInv'
    BY DEF IInv, WorkerStoreOk, StoreInv, FlagInv, PassPending,
       CurrentWorkerAlive, Alive, WorkerStates
  <1> QED
    BY <1>1, <1>2, <1>3, <1>4, <1>5, <1>6, <1>7, <1>8 DEF IInv

LEMMA WorkerStoreErrInv ==
  ASSUME IInv, NEW g \in Gens, WorkerStoreErr(g)
  PROVE  IInv'
  <1>1. TypeOK'
    BY DEF IInv, WorkerStoreErr, GoTo, TypeOK, WorkerStates
  <1>2. LockInv'
    BY DEF IInv, WorkerStoreErr, GoTo, LockInv, Holding
  <1>3. SpawnInv'
    BY DEF IInv, WorkerStoreErr, GoTo, SpawnInv
  <1>4. StoreInv'
    BY DEF IInv, WorkerStoreErr, GoTo, StoreInv
  <1>5. JobInv'
    BY DEF IInv, WorkerStoreErr, GoTo, JobInv
  <1>6. SlotInv'
    BY DEF IInv, WorkerStoreErr, StoreInv, SlotInv, Stored
  <1>7. TakenInv'
    BY DEF IInv, WorkerStoreErr, StoreInv, SlotInv, TakenInv, Stored
  <1>8. FlagInv'
    BY DEF IInv, WorkerStoreErr, GoTo, TypeOK, StoreInv, SlotInv, FlagInv,
       Stored, PassPending, CurrentWorkerAlive, Alive
  <1> QED
    BY <1>1, <1>2, <1>3, <1>4, <1>5, <1>6, <1>7, <1>8 DEF IInv

LEMMA WorkerUnlockInv ==
  ASSUME IInv, NEW g \in Gens, WorkerUnlock(g)
  PROVE  IInv'
  <1>1. TypeOK'
    BY MaxGenAssumption DEF IInv, WorkerUnlock, GoTo, TypeOK, WorkerStates
  <1>2. LockInv'
    BY DEF IInv, WorkerUnlock, GoTo, TypeOK, LockInv, Holding, Gens
  <1>3. SpawnInv'
    BY DEF IInv, WorkerUnlock, GoTo, SpawnInv
  <1>4. StoreInv'
    BY DEF IInv, WorkerUnlock, GoTo, StoreInv
  <1>5. JobInv'
    BY DEF IInv, WorkerUnlock, GoTo, JobInv
  <1>6. SlotInv'
    BY DEF IInv, WorkerUnlock, GoTo, SlotInv, Stored
  <1>7. TakenInv'
    BY DEF IInv, WorkerUnlock, TakenInv
  <1>8. FlagInv'
    BY DEF IInv, WorkerUnlock, GoTo, FlagInv, PassPending, CurrentWorkerAlive,
       Alive
  <1> QED
    BY <1>1, <1>2, <1>3, <1>4, <1>5, <1>6, <1>7, <1>8 DEF IInv

\* Nothing the invariant speaks of changes in a stuttering step.
LEMMA StutterInv ==
  ASSUME IInv, UNCHANGED vars
  PROVE  IInv'
  BY DEF IInv, vars, TypeOK, LockInv, SpawnInv, StoreInv, JobInv, SlotInv,
     TakenInv, FlagInv, Stored, PassPending, CurrentWorkerAlive

LEMMA NextIInv ==
  ASSUME IInv, [Next]_vars
  PROVE  IInv'
  <1>1. CASE UNCHANGED vars
    BY <1>1, StutterInv
  <1>2. ASSUME NEW j \in Jobs, TriggerBump(j) PROVE IInv'
    BY <1>2, TriggerBumpInv
  <1>3. ASSUME NEW j \in Jobs, StartKanaConversion(j) PROVE IInv'
    BY <1>3, KanaInv
  <1>4. CASE TriggerClear
    BY <1>4, TriggerClearInv
  <1>5. CASE TriggerSpawn
    BY <1>5, TriggerSpawnInv
  <1>6. CASE InvalidateBump
    BY <1>6, InvalidateBumpInv
  <1>7. CASE InvalidateClear
    BY <1>7, InvalidateClearInv
  <1>8. CASE InvalidateDisarm
    BY <1>8, InvalidateDisarmInv
  <1>9. CASE ApplyTake
    BY <1>9, ApplyTakeInv
  <1>10. CASE ApplyFinish
    BY <1>10, ApplyFinishInv
  <1>11. ASSUME NEW g \in Gens, Worker(g) PROVE IInv'
    <2>1. CASE WorkerScore(g)
      BY <2>1, WorkerScoreInv
    <2>2. CASE WorkerCheck(g)
      BY <2>2, WorkerCheckInv
    <2>3. CASE WorkerLock(g)
      BY <2>3, WorkerLockInv
    <2>4. CASE WorkerRecheck(g)
      BY <2>4, WorkerRecheckInv
    <2>5. CASE WorkerStoreOk(g)
      BY <2>5, WorkerStoreOkInv
    <2>6. CASE WorkerStoreErr(g)
      BY <2>6, WorkerStoreErrInv
    <2>7. CASE WorkerUnlock(g)
      BY <2>7, WorkerUnlockInv
    <2> QED
      BY <1>11, <2>1, <2>2, <2>3, <2>4, <2>5, <2>6, <2>7 DEF Worker
  <1> QED
    BY <1>1, <1>2, <1>3, <1>4, <1>5, <1>6, <1>7, <1>8, <1>9, <1>10,
       <1>11
       DEF Next, EngineContinue

\* The inductive invariant holds in every reachable state, for any set of
\* segmentations and any bound on the epochs.
THEOREM Invariance == Spec => []IInv
  <1>1. Init => IInv
    BY InitIInv
  <1>2. IInv /\ [Next]_vars => IInv'
    BY NextIInv
  <1> QED
    BY <1>1, <1>2, PTL DEF Spec

\* Every field keeps the type the code gives it.
THEOREM TypeCorrect == Spec => []TypeOK
  <1>1. IInv => TypeOK
    BY DEF IInv
  <1> QED
    BY <1>1, Invariance, PTL

\* apply_llm_rerank never gets hold of a superseded or misaligned result.
THEOREM NoStaleResultHolds == Spec => []NoStaleResult
  <1>1. IInv => NoStaleResult
    BY DEF IInv, SlotInv, NoStaleResult
  <1> QED
    BY <1>1, Invariance, PTL

\* rerank_inflight never outlives the pass it was raised for.
THEOREM FlagHasPassHolds == Spec => []FlagHasPass
  <1>1. IInv => FlagHasPass
    BY DEF IInv, FlagInv, FlagHasPass
  <1> QED
    BY <1>1, Invariance, PTL

\* rerank_inflight is never taken down under a pass that is still current.
THEOREM PassHasFlagHolds == Spec => []PassHasFlag
  <1>1. IInv => PassHasFlag
    BY DEF IInv, FlagInv, PassHasFlag
  <1> QED
    BY <1>1, Invariance, PTL

-----------------------------------------------------------------------------
(* The protocol implements PassService                                     *)

LEMMA InitRefines == Init => Service!Init
  BY DEF Init, Service!Init, PhaseOf, CurrentWorkerAlive, Gens

LEMMA BumpRefines ==
  ASSUME IInv, NEW j \in Jobs, TriggerBump(j)
  PROVE  Service!Begin(j)
  BY DEF TriggerBump, Service!Begin, PhaseOf

LEMMA KanaRefines ==
  ASSUME IInv, NEW j \in Jobs, StartKanaConversion(j)
  PROVE  Service!BeginKana(j)
  BY NoJobAssumption DEF IInv, StartKanaConversion, Service!BeginKana,
     PhaseOf, JobInv, SlotInv, TypeOK, Result, CurrentWorkerAlive, Alive

LEMMA DiscardRefines ==
  ASSUME IInv, InvalidateBump
  PROVE  Service!Discard
  BY DEF InvalidateBump, Service!Discard, PhaseOf

LEMMA DeliverRefines ==
  ASSUME IInv, ApplyFinish
  PROVE  Service!Deliver
  BY NoJobAssumption DEF IInv, ApplyFinish, Service!Deliver, PhaseOf, SlotInv,
     TakenInv, TypeOK, Result, Stored, CurrentWorkerAlive, Alive

\* The engine's other steps leave the current pass as it is.
LEMMA EngineStutters ==
  ASSUME IInv,
         TriggerClear \/ TriggerSpawn \/ InvalidateClear \/ InvalidateDisarm
           \/ ApplyTake
  PROVE  UNCHANGED Service!vars
  <1>1. CASE TriggerClear
    BY <1>1 DEF TriggerClear, Service!vars, PhaseOf
  <1>2. CASE TriggerSpawn
    BY <1>2 DEF IInv, TriggerSpawn, Service!vars, PhaseOf, JobInv, SlotInv,
       TypeOK, CurrentWorkerAlive, Alive, WorkerStates
  <1>3. CASE InvalidateClear
    BY <1>3 DEF InvalidateClear, Service!vars, PhaseOf
  <1>4. CASE InvalidateDisarm
    BY <1>4 DEF IInv, InvalidateDisarm, Service!vars, PhaseOf, SpawnInv,
       SlotInv, CurrentWorkerAlive, Alive
  <1>5. CASE ApplyTake
    BY <1>5 DEF ApplyTake, Service!vars, PhaseOf
  <1> QED
    BY <1>1, <1>2, <1>3, <1>4, <1>5

\* A worker's step ends the current pass or leaves it as it is.
LEMMA WorkerRefines ==
  ASSUME IInv, NEW g \in Gens, Worker(g)
  PROVE  Service!Finish \/ Service!Fail \/ UNCHANGED Service!vars
  <1> USE DEF PhaseOf
  <1>1. CASE WorkerScore(g)
    BY <1>1 DEF WorkerScore, GoTo, Service!vars, CurrentWorkerAlive, Alive,
       WorkerStates
  <1>2. CASE WorkerCheck(g)
    BY <1>2 DEF WorkerCheck, GoTo, Service!vars, CurrentWorkerAlive, Alive,
       WorkerStates
  <1>3. CASE WorkerLock(g)
    BY <1>3 DEF WorkerLock, GoTo, Service!vars, CurrentWorkerAlive, Alive,
       WorkerStates
  <1>4. CASE WorkerRecheck(g)
    BY <1>4 DEF WorkerRecheck, GoTo, Service!vars, CurrentWorkerAlive, Alive,
       WorkerStates
  <1>5. CASE WorkerStoreOk(g)
    BY <1>5 DEF IInv, WorkerStoreOk, Service!vars, Service!Finish, StoreInv,
       CurrentWorkerAlive, Alive, WorkerStates
  <1>6. CASE WorkerStoreErr(g)
    BY <1>6 DEF WorkerStoreErr, GoTo, Service!vars, Service!Fail,
       CurrentWorkerAlive, Alive
  <1>7. CASE WorkerUnlock(g)
    BY <1>7 DEF WorkerUnlock, GoTo, Service!vars, CurrentWorkerAlive, Alive
  <1> QED
    BY <1>1, <1>2, <1>3, <1>4, <1>5, <1>6, <1>7 DEF Worker

LEMMA NextRefines ==
  ASSUME IInv, [Next]_vars
  PROVE  [Service!Next]_(Service!vars)
  <1>1. CASE UNCHANGED vars
    BY <1>1 DEF vars, Service!vars, PhaseOf, CurrentWorkerAlive
  <1>2. ASSUME NEW j \in Jobs, TriggerBump(j) PROVE Service!Next
    BY <1>2, BumpRefines DEF Service!Next
  <1>3. ASSUME NEW j \in Jobs, StartKanaConversion(j) PROVE Service!Next
    BY <1>3, KanaRefines DEF Service!Next
  <1>4. CASE InvalidateBump
    BY <1>4, DiscardRefines DEF Service!Next
  <1>5. CASE ApplyFinish
    BY <1>5, DeliverRefines DEF Service!Next
  <1>6. CASE TriggerClear \/ TriggerSpawn \/ InvalidateClear
               \/ InvalidateDisarm \/ ApplyTake
    BY <1>6, EngineStutters
  <1>7. ASSUME NEW g \in Gens, Worker(g)
        PROVE  Service!Finish \/ Service!Fail \/ UNCHANGED Service!vars
    BY <1>7, WorkerRefines
  <1> QED
    BY <1>1, <1>2, <1>3, <1>4, <1>5, <1>6, <1>7 DEF Next, EngineContinue,
       Service!Next

\* The epoch counter, the slot, the flag and the threads together do what
\* PassService promises: one current pass, for the live segmentation, that is
\* replaced, dropped or delivered in one step.
THEOREM Implementation == Spec => ImplementsPassService
  <1>1. Init => Service!Init
    BY InitRefines
  <1>2. IInv /\ [Next]_vars => [Service!Next]_(Service!vars)
    BY NextRefines
  <1> QED
    BY <1>1, <1>2, Invariance, PTL
       DEF Spec, ImplementsPassService, Service!Spec
=============================================================================
