---- MODULE ScorerPass ----
(***************************************************************************)
(* The failure cooldown of HttpLlamaScorer (core/llm/http_scorer.rs) and   *)
(* the passes that score with it: the rerank worker's loop over segments   *)
(* and candidates, and the segmentation tiebreak, which is the same loop   *)
(* over one "segment" of two candidates (engine/mod.rs).                   *)
(*                                                                         *)
(* A pass holds the llm mutex, so there is one at a time.  The cooldown is *)
(* a time stamp of the wall clock, tested before every request and again   *)
(* by the caller; time goes on in between, and the wall clock may be set.  *)
(* What the model answers is abstracted to where a score comes from.       *)
(***************************************************************************)
EXTENDS Integers, Sequences

CONSTANTS
  Segments,     \* segments of a pass
  Candidates,   \* candidates scored in a segment (rerank_count)
  Cooldown,     \* WARNED_COOLDOWN, in seconds
  MaxTime,      \* bound: the model ends there
  MaxLag,       \* bound: seconds between two steps of a pass outside a request
  ClockSteps    \* bound: how often the wall clock is set

ASSUME ScorerAssumption ==
  /\ Segments \in Nat \ {0} /\ Candidates \in Nat \ {0}
  /\ Cooldown \in Nat /\ MaxTime \in Nat /\ ClockSteps \in Nat
  /\ MaxLag \in Nat /\ MaxLag < Cooldown

VARIABLES
  real,      \* seconds that have really passed
  wall,      \* the wall clock, never 0
  clockSteps,
  warnedAt,  \* HttpLlamaScorer::warned_at; 0: no failure is known
  failedAt,  \* history: when the last failure really was, or NoFailure
  pc,        \* where the pass is
  lag,       \* seconds since its last step
  todo,      \* segments still to answer for
  scores,    \* where the scores of the current segment come from
  outcome,   \* how each segment was ordered so far
  spent,     \* the pass's deadline, a monotonic clock, is over
  late       \* history: requests of the pass that ended after its deadline

clock == <<real, wall, clockSteps>>
cooldown == <<warnedAt, failedAt>>
vars == <<clock, cooldown, pc, lag, todo, scores, outcome, spent, late>>

NoFailure == -1
Dictionary == {}  \* a segment left in dictionary order

Init ==
  /\ real = 0 /\ wall = 1 /\ clockSteps = 0
  /\ warnedAt = 0 /\ failedAt = NoFailure
  /\ pc = "idle" /\ lag = 0
  /\ todo = 0 /\ scores = <<>> /\ outcome = <<>>
  /\ spent = FALSE /\ late = 0

(* The subtraction saturates: a stamp in the future is an age of 0.        *)
CooldownActive == warnedAt # 0 /\ wall - warnedAt < Cooldown

MarkFailed == warnedAt' = wall /\ failedAt' = real

-----------------------------------------------------------------------------
Step(from, to) == pc = from /\ pc' = to /\ lag' = 0

(* The worker, or the tiebreak, has the llm mutex.                         *)
Begin ==
  /\ Step("idle", "start")
  /\ todo' = Segments
  /\ scores' = <<>> /\ outcome' = <<>>
  /\ spent' = FALSE /\ late' = 0
  /\ UNCHANGED <<clock, cooldown>>

(* Everything stays in dictionary order when the scorer is cooling down.   *)
Start ==
  /\ IF CooldownActive
     THEN /\ Step("start", "idle")
          /\ outcome' = [s \in 1..todo |-> Dictionary]
          /\ todo' = 0
     ELSE Step("start", "segment") /\ UNCHANGED <<todo, outcome>>
  /\ UNCHANGED <<clock, cooldown, scores, spent, late>>

(* The segment is answered for.                                            *)
Answered(order) ==
  /\ outcome' = Append(outcome, order)
  /\ todo' = todo - 1
  /\ scores' = <<>>

(* A segment of one candidate or one kana is not ranked in any case.       *)
NextSegment ==
  /\ todo > 0
  /\ \/ Step("segment", "segment") /\ Answered(Dictionary)
     \/ /\ ~CooldownActive /\ ~spent
        /\ Step("segment", "candidate")
        /\ UNCHANGED <<todo, scores, outcome>>
  /\ UNCHANGED <<clock, cooldown, spent, late>>

Finish ==
  /\ todo = 0
  /\ Step("segment", "idle")
  /\ UNCHANGED <<clock, cooldown, todo, scores, outcome, spent, late>>

AllScored == Len(scores) = Candidates

Rank ==
  /\ AllScored
  /\ Step("candidate", "segment")
  /\ Answered({scores[i] : i \in DOMAIN scores})
  /\ UNCHANGED <<clock, cooldown, spent, late>>

(* Mutant: the segment is left out of the result.                          *)
BuggyGiveUpSegment ==
  /\ ~AllScored /\ spent
  /\ Step("candidate", "segment")
  /\ todo' = todo - 1 /\ scores' = <<>>
  /\ UNCHANGED <<clock, cooldown, outcome, spent, late>>

(* Budget spent inside the segment.                                        *)
GiveUpSegment ==
  /\ ~AllScored /\ spent
  /\ Step("candidate", "segment")
  /\ Answered(Dictionary)
  /\ UNCHANGED <<clock, cooldown, spent, late>>

Scored(origin) == scores' = Append(scores, origin)

(* Mutant: the deadline is tested between segments only.                   *)
BuggyMayScore == ~AllScored

MayScore == ~AllScored /\ ~spent

(* rerank_llm_score and score_by_logprob: the kana form, an empty          *)
(* candidate and one with a control character are never asked for.         *)
ScoreExcluded ==
  /\ MayScore
  /\ Step("candidate", "check")
  /\ Scored("excluded")
  /\ UNCHANGED <<clock, cooldown, todo, outcome, spent, late>>

(* In the cooldown nothing is asked for.                                   *)
ScoreFallback ==
  /\ MayScore
  /\ CooldownActive
  /\ Step("candidate", "check")
  /\ Scored("fallback")
  /\ UNCHANGED <<clock, cooldown, todo, outcome, spent, late>>

Send ==
  /\ MayScore
  /\ ~CooldownActive
  /\ Step("candidate", "request")
  /\ UNCHANGED <<clock, cooldown, todo, scores, outcome, spent, late>>

(* The server answers with log-probabilities; or the request fails, or the *)
(* answer cannot be parsed or carries none.                                *)
Receive ==
  /\ Step("request", "check")
  /\ \/ Scored("model") /\ UNCHANGED cooldown
     \/ Scored("fallback") /\ MarkFailed
  /\ late' = IF spent THEN late + 1 ELSE late
  /\ UNCHANGED <<clock, todo, outcome, spent>>

(* Mutant: the caller does not look whether the scorer was lost.           *)
BuggyCheckScorer ==
  /\ Step("check", "candidate")
  /\ UNCHANGED <<clock, cooldown, todo, scores, outcome, spent, late>>

(* Scores taken before the failure are dropped with the segment.           *)
CheckScorer ==
  /\ IF CooldownActive
     THEN Step("check", "segment") /\ Answered(Dictionary)
     ELSE Step("check", "candidate") /\ UNCHANGED <<todo, scores, outcome>>
  /\ UNCHANGED <<clock, cooldown, spent, late>>

-----------------------------------------------------------------------------
(* A second passes.  Only a request, or nobody, takes longer than MaxLag.  *)
Tick ==
  /\ real < MaxTime
  /\ pc \in {"idle", "request"} \/ lag < MaxLag
  /\ real' = real + 1 /\ wall' = wall + 1
  /\ lag' = IF pc \in {"idle", "request"} THEN 0 ELSE lag + 1
  /\ UNCHANGED <<clockSteps, cooldown, pc, todo, scores, outcome, spent, late>>

Deadline ==
  /\ pc # "idle" /\ ~spent
  /\ spent' = TRUE
  /\ UNCHANGED <<clock, cooldown, pc, lag, todo, scores, outcome, late>>

(* The wall clock is set, by the user or by the network's time.            *)
SetClock ==
  /\ clockSteps < ClockSteps
  /\ clockSteps' = clockSteps + 1
  /\ wall' \in 1..(MaxTime + 1)
  /\ UNCHANGED <<real, cooldown, pc, lag, todo, scores, outcome, spent, late>>

Next ==
  \/ Begin \/ Start \/ NextSegment \/ Finish
  \/ Rank \/ GiveUpSegment \/ ScoreExcluded \/ ScoreFallback
  \/ Send \/ Receive \/ CheckScorer
  \/ Tick \/ Deadline \/ SetClock

Spec == Init /\ [][Next]_vars

-----------------------------------------------------------------------------
Origins == {"model", "excluded", "fallback"}

TypeOK ==
  /\ real \in 0..MaxTime /\ wall \in 1..(2 * MaxTime + 1)
  /\ clockSteps \in 0..ClockSteps
  /\ warnedAt \in 0..(2 * MaxTime + 1) /\ failedAt \in NoFailure..MaxTime
  /\ pc \in {"idle", "start", "segment", "candidate", "request", "check"}
  /\ lag \in 0..MaxLag /\ todo \in 0..Segments
  /\ scores \in Seq(Origins) /\ Len(scores) <= Candidates
  /\ outcome \in Seq(SUBSET Origins) /\ Len(outcome) <= Segments
  /\ spent \in BOOLEAN /\ late \in Nat

(* "A pass does not mix real logprob scores with the neutral 0.5           *)
(* fallback": a segment is either ordered by scores none of which stands   *)
(* for a failure, or left in dictionary order, while nobody sets the clock *)
(* between a failure and the look at its stamp.                            *)
NoMixedRanking ==
  clockSteps = 0 => \A i \in DOMAIN outcome : "fallback" \notin outcome[i]

(* Whatever stops a pass, every segment is answered for once: the engine   *)
(* matches the result with its segments by position.                       *)
EverySegmentAnswered ==
  todo + Len(outcome) = Segments \/ (pc = "idle" /\ outcome = <<>>)

(* "So the pass exits at most one 1.5 s HTTP hang past the deadline".      *)
OneLateRequest == late <= 1

(* "A transient 503 no longer disables scoring for the process lifetime":  *)
(* 30 seconds after the last failure the scorer is asked again.            *)
RecoversInTime ==
  (failedAt # NoFailure /\ real - failedAt >= Cooldown) => ~CooldownActive
====
