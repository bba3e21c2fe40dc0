---------------------------- MODULE PassService ----------------------------
(***************************************************************************)
(* What a ConversionEngine promises about its background rerank passes,    *)
(* with the epoch counter, the result slot, the in-flight flag and the     *)
(* worker threads of src/src/engine/mod.rs left out: at most one pass is   *)
(* current, it belongs to the live conversion, and its result reaches the  *)
(* conversion it was computed for or nobody.  Rerank.tla implements it.    *)
(***************************************************************************)

CONSTANTS
  Jobs,   \* the segmentations a pass can be started for
  NoJob   \* no conversion is live

VARIABLES
  live,   \* the segmentation of the live conversion
  phase,  \* how far the current pass has come
  shown   \* the segmentation whose reranked order is on display

vars == <<live, phase, shown>>

TypeOK ==
  /\ live \in Jobs \cup {NoJob}
  /\ phase \in {"idle", "running", "ready"}
  /\ shown \in Jobs \cup {NoJob}

Init ==
  /\ live = NoJob
  /\ phase = "idle"
  /\ shown = NoJob

\* A conversion starts or is resized: a pass for the new segmentation
\* replaces whatever pass there was.
Begin(j) ==
  /\ live' = j
  /\ phase' = "running"
  /\ shown' = NoJob

\* An F-key conversion starts without a pass.
BeginKana(j) ==
  /\ live = NoJob
  /\ phase = "idle"
  /\ live' = j
  /\ UNCHANGED <<phase, shown>>

\* The conversion is committed or cancelled, and its pass with it.
Discard ==
  /\ live' = NoJob
  /\ phase' = "idle"
  /\ shown' = NoJob

\* The pass has a result, or comes to nothing.
Finish == phase = "running" /\ phase' = "ready" /\ UNCHANGED <<live, shown>>
Fail   == phase = "running" /\ phase' = "idle"  /\ UNCHANGED <<live, shown>>

\* The result reaches the conversion it was computed for.
Deliver ==
  /\ phase = "ready"
  /\ live # NoJob
  /\ phase' = "idle"
  /\ shown' = live
  /\ UNCHANGED live

Next ==
  \/ \E j \in Jobs : Begin(j) \/ BeginKana(j)
  \/ Discard \/ Finish \/ Fail \/ Deliver

Spec == Init /\ [][Next]_vars
=============================================================================
