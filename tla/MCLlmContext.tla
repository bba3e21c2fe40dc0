---------------------------- MODULE MCLlmContext ----------------------------
(* Two frontend threads, two rerank workers, commits of one or two          *)
(* characters, and a history of three characters.                           *)
EXTENDS LlmContext
CONSTANTS t1, t2, w1, w2
MCThreads == {t1, t2}
MCWorkers == {w1, w2}
MCLengths == {1, 2}
=============================================================================
