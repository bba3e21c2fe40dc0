------------------------------ MODULE MCRerank ------------------------------
(* Rerank with two segmentations and up to four epochs. *)
EXTENDS Rerank
CONSTANTS j1, j2
MCJobs == {j1, j2}
=============================================================================
