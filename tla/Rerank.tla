------------------------------- MODULE Rerank -------------------------------
(***************************************************************************)
(* The background rerank protocol of ConversionEngine                      *)
(* (src/src/engine/mod.rs): the epoch counter rerank_generation, the slot  *)
(* llm_rerank_result under its mutex, the flag rerank_inflight, the engine *)
(* thread that triggers, applies and invalidates passes, and one worker    *)
(* thread per triggered pass.                                              *)
(*                                                                         *)
(* A job is the segmentation (with its candidates) that a pass was started *)
(* for: trigger_llm_rerank snapshots it and apply_llm_rerank compares it   *)
(* with the live conversion.  Every atomic operation and every critical    *)
(* section of the slot is a step of its own.  The engine's methods take    *)
(* &mut self, so one engine thread stands for all callers of one engine.   *)
(***************************************************************************)
EXTENDS Naturals

CONSTANTS
  Jobs,     \* segmentations a conversion can have
  NoJob,    \* no conversion / nothing taken from the slot
  MaxGen    \* bound: epochs explored (the counter is a u64 in the code)

ASSUME NoJobAssumption == NoJob \notin Jobs
ASSUME MaxGenAssumption == MaxGen \in Nat

VARIABLES
  conversion,  \* segmentation of ConversionEngine.conversion, or NoJob
  generation,  \* rerank_generation
  slot,        \* llm_rerank_result: a set with at most one tagged result
  inflight,    \* rerank_inflight
  slotLock,    \* worker inside the slot's mutex, 0 when it is free
  engine,      \* where the engine thread is inside its current call
  taken,       \* what apply_llm_rerank has taken out of the slot
  worker,      \* where the worker of each epoch is
  wjob,        \* the snapshot each worker scores
  applied      \* segmentation whose reranked order the conversion shows

vars == <<conversion, generation, slot, inflight, slotLock, engine, taken,
          worker, wjob, applied>>

Gens == 1 .. MaxGen
Result == [gen : Gens, job : Jobs]

\* Where a worker can be.  "scored" and "panicked" are the two outcomes of
\* catch_unwind; the "Ok" and "Err" states are the arms of the match on it.
WorkerStates ==
  {"none", "scoring", "scored", "panicked", "lockOk", "lockErr", "recheckOk",
   "recheckErr", "storeOk", "storeErr", "unlock", "done"}

EngineStates == {"idle", "clear", "arm", "retract", "disarm", "apply"}

TypeOK ==
  /\ conversion \in Jobs \cup {NoJob}
  /\ generation \in 0 .. MaxGen
  /\ slot \in SUBSET Result
  /\ inflight \in BOOLEAN
  /\ slotLock \in 0 .. MaxGen
  /\ engine \in EngineStates
  /\ taken \in SUBSET Result
  /\ worker \in [Gens -> WorkerStates]
  /\ wjob \in [Gens -> Jobs \cup {NoJob}]
  /\ applied \in Jobs \cup {NoJob}

Init ==
  /\ conversion = NoJob
  /\ generation = 0
  /\ slot = {}
  /\ inflight = FALSE
  /\ slotLock = 0
  /\ engine = "idle"
  /\ taken = {}
  /\ worker = [g \in Gens |-> "none"]
  /\ wjob = [g \in Gens |-> NoJob]
  /\ applied = NoJob

-----------------------------------------------------------------------------
(* Engine thread                                                           *)

\* start_conversion and resize_segment: the new segmentation is in place
\* before trigger_llm_rerank snapshots it and bumps the epoch.  A resize
\* keeps the conversion alive, a start needs none to be there.
TriggerBump(j) ==
  /\ engine = "idle"
  /\ generation < MaxGen
  /\ j # conversion
  /\ conversion' = j
  /\ applied' = NoJob
  /\ generation' = generation + 1
  /\ engine' = "clear"
  /\ UNCHANGED <<slot, inflight, slotLock, taken, worker, wjob>>

TriggerClear ==
  /\ engine = "clear"
  /\ slotLock = 0
  /\ slot' = {}
  /\ engine' = "arm"
  /\ UNCHANGED <<conversion, generation, inflight, slotLock, taken, worker,
                 wjob, applied>>

\* The flag is set before the thread is spawned.
TriggerSpawn ==
  /\ engine = "arm"
  /\ inflight' = TRUE
  /\ worker' = [worker EXCEPT ![generation] = "scoring"]
  /\ wjob' = [wjob EXCEPT ![generation] = conversion]
  /\ engine' = "idle"
  /\ UNCHANGED <<conversion, generation, slot, slotLock, taken, applied>>

\* F6-F10 outside a conversion: no pass is started and no epoch bumped.
StartKanaConversion(j) ==
  /\ engine = "idle"
  /\ conversion = NoJob
  /\ conversion' = j
  /\ UNCHANGED <<generation, slot, inflight, slotLock, engine, taken, worker,
                 wjob, applied>>

\* Mutant: the epoch of the abandoned pass stays current.
BuggyInvalidateBump ==
  /\ engine = "idle"
  /\ conversion' = NoJob
  /\ applied' = NoJob
  /\ engine' = "retract"
  /\ UNCHANGED <<generation, slot, inflight, slotLock, taken, worker, wjob>>

\* commit_conversion, cancel_conversion and clear_conversion drop the
\* conversion and call invalidate_rerank_state; the last two do so even
\* when there is no conversion.
InvalidateBump ==
  /\ engine = "idle"
  /\ generation < MaxGen
  /\ conversion' = NoJob
  /\ applied' = NoJob
  /\ generation' = generation + 1
  /\ engine' = "retract"
  /\ UNCHANGED <<slot, inflight, slotLock, taken, worker, wjob>>

InvalidateClear ==
  /\ engine = "retract"
  /\ slotLock = 0
  /\ slot' = {}
  /\ engine' = "disarm"
  /\ UNCHANGED <<conversion, generation, inflight, slotLock, taken, worker,
                 wjob, applied>>

InvalidateDisarm ==
  /\ engine = "disarm"
  /\ inflight' = FALSE
  /\ engine' = "idle"
  /\ UNCHANGED <<conversion, generation, slot, slotLock, taken, worker, wjob,
                 applied>>

\* apply_llm_rerank, first half: take the slot; nothing there means the
\* call returns false and leaves the flag alone.
ApplyTake ==
  /\ engine = "idle"
  /\ slotLock = 0
  /\ slot # {}
  /\ taken' = slot
  /\ slot' = {}
  /\ engine' = "apply"
  /\ UNCHANGED <<conversion, generation, inflight, slotLock, worker, wjob,
                 applied>>

\* Second half, for the result r taken: a superseded result is dropped with
\* the flag left alone, no conversion clears the flag, a result for another
\* segmentation is dropped with the flag left alone, and otherwise the flag
\* is cleared and the reranked order goes on display.
ApplyFinish ==
  /\ engine = "apply"
  /\ \E r \in taken :
       LET current == r.gen = generation
           aligned == r.job = conversion
       IN  /\ inflight' = IF current /\ (conversion = NoJob \/ aligned)
                            THEN FALSE ELSE inflight
           /\ applied' = IF current /\ aligned THEN r.job ELSE applied
  /\ taken' = {}
  /\ engine' = "idle"
  /\ UNCHANGED <<conversion, generation, slot, slotLock, worker, wjob>>

-----------------------------------------------------------------------------
(* The worker of epoch g                                                   *)

GoTo(g, to) == worker' = [worker EXCEPT ![g] = to]

\* The scoring closure returns (in full, or with the dictionary order kept
\* where the scorer or the budget gave out) or panics.
WorkerScore(g) ==
  /\ worker[g] = "scoring"
  /\ \E outcome \in {"scored", "panicked"} : GoTo(g, outcome)
  /\ UNCHANGED <<conversion, generation, slot, inflight, slotLock, engine,
                 taken, wjob, applied>>

\* First test of the epoch, outside the slot's mutex.
WorkerCheck(g) ==
  /\ worker[g] \in {"scored", "panicked"}
  /\ GoTo(g, IF generation # g THEN "done"
             ELSE IF worker[g] = "scored" THEN "lockOk" ELSE "lockErr")
  /\ UNCHANGED <<conversion, generation, slot, inflight, slotLock, engine,
                 taken, wjob, applied>>

WorkerLock(g) ==
  /\ worker[g] \in {"lockOk", "lockErr"}
  /\ slotLock = 0
  /\ slotLock' = g
  /\ GoTo(g, IF worker[g] = "lockOk" THEN "recheckOk" ELSE "recheckErr")
  /\ UNCHANGED <<conversion, generation, slot, inflight, engine, taken, wjob,
                 applied>>

\* Mutant: the epoch is not tested again under the slot's mutex.
BuggyWorkerRecheck(g) ==
  /\ worker[g] \in {"recheckOk", "recheckErr"}
  /\ GoTo(g, IF worker[g] = "recheckOk" THEN "storeOk" ELSE "storeErr")
  /\ UNCHANGED <<conversion, generation, slot, inflight, slotLock, engine,
                 taken, wjob, applied>>

\* Second test, under the mutex.  The engine may still bump the epoch
\* between this test and the store: it bumps without the mutex.
WorkerRecheck(g) ==
  /\ worker[g] \in {"recheckOk", "recheckErr"}
  /\ GoTo(g, IF generation # g THEN "unlock"
             ELSE IF worker[g] = "recheckOk" THEN "storeOk" ELSE "storeErr")
  /\ UNCHANGED <<conversion, generation, slot, inflight, slotLock, engine,
                 taken, wjob, applied>>

WorkerStoreOk(g) ==
  /\ worker[g] = "storeOk"
  /\ slot' = {[gen |-> g, job |-> wjob[g]]}
  /\ GoTo(g, "unlock")
  /\ UNCHANGED <<conversion, generation, inflight, slotLock, engine, taken,
                 wjob, applied>>

\* Mutant: a panicked pass leaves the flag up.
BuggyWorkerStoreErr(g) ==
  /\ worker[g] = "storeErr"
  /\ GoTo(g, "unlock")
  /\ UNCHANGED <<conversion, generation, slot, inflight, slotLock, engine,
                 taken, wjob, applied>>

WorkerStoreErr(g) ==
  /\ worker[g] = "storeErr"
  /\ inflight' = FALSE
  /\ GoTo(g, "unlock")
  /\ UNCHANGED <<conversion, generation, slot, slotLock, engine, taken, wjob,
                 applied>>

WorkerUnlock(g) ==
  /\ worker[g] = "unlock"
  /\ slotLock' = 0
  /\ GoTo(g, "done")
  /\ UNCHANGED <<conversion, generation, slot, inflight, engine, taken, wjob,
                 applied>>

Worker(g) ==
  \/ WorkerScore(g) \/ WorkerCheck(g) \/ WorkerLock(g) \/ WorkerRecheck(g)
  \/ WorkerStoreOk(g) \/ WorkerStoreErr(g) \/ WorkerUnlock(g)

EngineContinue ==
  TriggerClear \/ TriggerSpawn \/ InvalidateClear \/ InvalidateDisarm
    \/ ApplyFinish

Next ==
  \/ \E j \in Jobs : TriggerBump(j) \/ StartKanaConversion(j)
  \/ InvalidateBump \/ ApplyTake
  \/ EngineContinue
  \/ \E g \in Gens : Worker(g)

Spec == Init /\ [][Next]_vars

\* Threads are scheduled: a worker runs on (each scoring request has a
\* timeout, so the closure returns), and a call the engine has begun ends.
\* Nothing is assumed about when the user or a frontend calls the engine.
FairSpec ==
  Spec /\ WF_vars(EngineContinue) /\ \A g \in Gens : WF_vars(Worker(g))

-----------------------------------------------------------------------------
(* Properties                                                              *)

\* A worker that may still store a result or clear the flag.
Alive == WorkerStates \ {"none", "unlock", "done"}

CurrentWorkerAlive == generation \in Gens /\ worker[generation] \in Alive

\* A result of the current pass waits in the slot or can still come.
PassPending == slot # {} \/ CurrentWorkerAlive

\* What apply_llm_rerank takes out of the slot is always the result of the
\* current pass for the live segmentation: no interleaving of bumps, clears
\* and worker stores lets a superseded result through, and the misalignment
\* arm, which would leave rerank_inflight latched, is never entered.
NoStaleResult ==
  engine = "apply" => \A r \in taken : r.gen = generation /\ r.job = conversion

\* Between two engine calls rerank_inflight is up only while there is
\* something to wait for: a frontend that polls it does not burn its whole
\* budget on a pass that died or was abandoned.
FlagHasPass == engine = "idle" => (inflight => PassPending)

\* And while there is something to wait for the flag is up: no old worker
\* (a panicking one in particular) takes down the flag of a newer pass, so
\* no result is missed by a frontend that stopped polling.
PassHasFlag == engine = "idle" => (PassPending => inflight)

\* Where the concrete state stands in the life of the current pass.
PhaseOf ==
  IF engine \in {"clear", "arm"} THEN "running"
  ELSE IF engine \in {"retract", "disarm"} THEN "idle"
  ELSE IF engine = "apply" \/ slot # {} THEN "ready"
  ELSE IF CurrentWorkerAlive THEN "running"
  ELSE "idle"

Service ==
  INSTANCE PassService WITH live <- conversion, phase <- PhaseOf,
                            shown <- applied

\* The epoch, slot and flag together behave like a single current pass that
\* is replaced, dropped or delivered in one step each.
ImplementsPassService == Service!Spec

\* A pass that stays current comes to a result or takes its flag down.
PassSettles ==
  \A g \in Gens :
    (generation = g /\ inflight /\ engine = "idle")
      ~> (generation # g \/ slot # {} \/ ~inflight)
=============================================================================
