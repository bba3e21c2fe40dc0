---- MODULE ScorerPassProofs ----
(***************************************************************************)
(* What a scoring pass promises, for any number of segments and candidates *)
(* and any length of the cooldown.                                         *)
(***************************************************************************)
EXTENDS ScorerPass, TLAPS

USE ScorerAssumption DEF ScorerAssumption

(* The clocks: the wall clock is at most ahead by what it was set to.      *)
Clocks ==
  /\ real \in 0..MaxTime /\ wall \in 1..(MaxTime + 1 + real)
  /\ clockSteps \in 0..ClockSteps
  /\ warnedAt \in 0..(MaxTime + 1 + real) /\ failedAt \in NoFailure..MaxTime

(* Where the pass is: a request is only sent for a candidate that has no   *)
(* score, and every segment is either to do or answered for.               *)
Progress ==
  /\ pc \in {"idle", "start", "segment", "candidate", "request", "check"}
  /\ lag \in 0..MaxLag /\ todo \in 0..Segments
  /\ scores \in Seq(Origins) /\ Len(scores) <= Candidates
  /\ outcome \in Seq(SUBSET Origins) /\ Len(outcome) <= Segments
  /\ pc = "idle" => outcome = <<>> \/ todo + Len(outcome) = Segments
  /\ pc # "idle" => todo + Len(outcome) = Segments
  /\ pc = "start" => outcome = <<>>
  /\ pc \in {"start", "segment"} => scores = <<>>
  /\ pc \in {"candidate", "request", "check"} => todo > 0
  /\ pc = "request" => Len(scores) < Candidates

(* A request that was sent in time is the only one that can be late.       *)
Budget ==
  /\ spent \in BOOLEAN /\ late \in 0..1
  /\ ~spent \/ pc = "request" => late = 0

Fallbacks(s) == \E i \in DOMAIN s : s[i] = "fallback"

(* No segment is ordered by scores one of which stands for a failure.      *)
Clean == \A i \in DOMAIN outcome : "fallback" \notin outcome[i]

(* While nobody sets the clock, a score that stands for a failure is       *)
(* followed by the look at the stamp before the cooldown can be over.      *)
Unmixed ==
  clockSteps = 0 =>
    /\ pc \in {"candidate", "request"} => ~CooldownActive /\ ~Fallbacks(scores)
    /\ pc = "check" =>
         \/ ~CooldownActive /\ ~Fallbacks(scores)
         \/ warnedAt # 0 /\ wall - warnedAt <= lag
    /\ Clean

-----------------------------------------------------------------------------
LEMMA ClocksHold == Spec => []Clocks
<1>1. Init => Clocks
  BY DEF Init, Clocks, NoFailure
<1>2. Clocks /\ [Next]_vars => Clocks'
  <2> SUFFICES ASSUME Clocks, [Next]_vars PROVE Clocks'
    OBVIOUS
  <2> USE DEF Clocks, NoFailure
  <2>1. ASSUME Begin \/ Start \/ NextSegment \/ Finish \/ Rank \/ GiveUpSegment
               \/ ScoreExcluded \/ ScoreFallback \/ Send \/ CheckScorer \/ Deadline
        PROVE  Clocks'
    BY <2>1 DEF Begin, Start, NextSegment, Finish, Rank, GiveUpSegment, ScoreExcluded,
                ScoreFallback, Send, CheckScorer, Deadline, clock, cooldown
  <2>2. CASE Receive
    BY <2>2 DEF Receive, MarkFailed, clock, cooldown
  <2>3. CASE Tick
    BY <2>3 DEF Tick, cooldown
  <2>4. CASE SetClock
    BY <2>4 DEF SetClock, cooldown
  <2>5. CASE UNCHANGED vars
    BY <2>5 DEF vars, clock, cooldown
  <2> QED
    BY <2>1, <2>2, <2>3, <2>4, <2>5 DEF Next
<1> QED
  BY <1>1, <1>2, PTL DEF Spec

(* Answering for a segment moves it from todo to outcome.                  *)
LEMMA AnsweredCounts ==
  ASSUME Progress, todo > 0, NEW order \in SUBSET Origins, Answered(order),
         pc # "idle"
  PROVE  /\ todo' \in 0..Segments /\ scores' = <<>>
         /\ outcome' \in Seq(SUBSET Origins) /\ Len(outcome') <= Segments
         /\ todo' + Len(outcome') = Segments
<1>1. outcome \in Seq(SUBSET Origins) /\ todo \in 0..Segments
      /\ todo + Len(outcome) = Segments
  BY DEF Progress
<1>2. outcome' \in Seq(SUBSET Origins) /\ Len(outcome') = Len(outcome) + 1
  BY <1>1 DEF Answered
<1>3. todo' = todo - 1 /\ scores' = <<>>
  BY DEF Answered
<1> QED
  BY <1>1, <1>2, <1>3

LEMMA DictionaryIsOrder == Dictionary \in SUBSET Origins
BY DEF Dictionary

LEMMA ScoredCounts ==
  ASSUME Progress, Len(scores) < Candidates, NEW origin \in Origins, Scored(origin)
  PROVE  scores' \in Seq(Origins) /\ Len(scores') <= Candidates
BY DEF Progress, Scored

LEMMA ProgressHolds == Spec => []Progress
<1>1. Init => Progress
  BY DEF Init, Progress
<1>2. Progress /\ [Next]_vars => Progress'
  <2> SUFFICES ASSUME Progress, [Next]_vars PROVE Progress'
    OBVIOUS
  <2> USE DEF Step
  <2>1. CASE Begin
    BY <2>1 DEF Begin, Progress
  <2>2. CASE Start
    <3>1. CASE CooldownActive
      <4>1. todo = Segments /\ outcome' = [s \in 1..todo |-> Dictionary] /\ todo' = 0
        BY <2>2, <3>1 DEF Start, Progress
      <4>2. outcome' \in Seq(SUBSET Origins) /\ Len(outcome') = Segments
        <5>1. [s \in 1..Segments |-> Dictionary] \in [1..Segments -> SUBSET Origins]
          BY DEF Dictionary
        <5>2. \A f \in [1..Segments -> SUBSET Origins] :
                 f \in Seq(SUBSET Origins) /\ Len(f) = Segments
          BY SMT
        <5> QED
          BY <4>1, <5>1, <5>2
      <4> QED
        BY <2>2, <3>1, <4>1, <4>2 DEF Start, Progress
    <3>2. CASE ~CooldownActive
      BY <2>2, <3>2 DEF Start, Progress
    <3> QED
      BY <3>1, <3>2
  <2>3. CASE NextSegment
    <3>1. CASE Step("segment", "segment") /\ Answered(Dictionary)
      <4>1. pc # "idle" /\ todo > 0
        BY <2>3, <3>1 DEF NextSegment
      <4>2. /\ todo' \in 0..Segments /\ scores' = <<>>
            /\ outcome' \in Seq(SUBSET Origins) /\ Len(outcome') <= Segments
            /\ todo' + Len(outcome') = Segments
        BY <3>1, <4>1, AnsweredCounts, DictionaryIsOrder
      <4> QED
        BY <3>1, <4>2 DEF Progress
    <3>2. CASE Step("segment", "candidate") /\ UNCHANGED <<todo, scores, outcome>>
      BY <2>3, <3>2 DEF NextSegment, Progress
    <3> QED
      BY <2>3, <3>1, <3>2 DEF NextSegment
  <2>4. CASE Finish
    BY <2>4 DEF Finish, Progress
  <2>5. CASE Rank
    <3>1. {scores[i] : i \in DOMAIN scores} \in SUBSET Origins
      BY DEF Progress
    <3>2. pc = "candidate" /\ pc' = "segment" /\ lag' = 0 /\ todo > 0
      BY <2>5 DEF Rank, Progress
    <3>3. /\ todo' \in 0..Segments /\ scores' = <<>>
          /\ outcome' \in Seq(SUBSET Origins) /\ Len(outcome') <= Segments
          /\ todo' + Len(outcome') = Segments
      BY <2>5, <3>1, <3>2, AnsweredCounts DEF Rank
    <3> QED
      BY <3>2, <3>3 DEF Progress
  <2>6. CASE GiveUpSegment
    <3>1. pc = "candidate" /\ pc' = "segment" /\ lag' = 0 /\ todo > 0
      BY <2>6 DEF GiveUpSegment, Progress
    <3>2. /\ todo' \in 0..Segments /\ scores' = <<>>
          /\ outcome' \in Seq(SUBSET Origins) /\ Len(outcome') <= Segments
          /\ todo' + Len(outcome') = Segments
      BY <2>6, <3>1, AnsweredCounts, DictionaryIsOrder DEF GiveUpSegment
    <3> QED
      BY <3>1, <3>2 DEF Progress
  <2>7. ASSUME ScoreExcluded \/ ScoreFallback PROVE Progress'
    <3>1. Len(scores) < Candidates
      BY <2>7 DEF ScoreExcluded, ScoreFallback, MayScore, AllScored, Progress
    <3>2. scores' \in Seq(Origins) /\ Len(scores') <= Candidates
      BY <2>7, <3>1, ScoredCounts DEF ScoreExcluded, ScoreFallback, Origins
    <3> QED
      BY <2>7, <3>2 DEF ScoreExcluded, ScoreFallback, Progress
  <2>8. CASE Send
    BY <2>8 DEF Send, MayScore, AllScored, Progress
  <2>9. CASE Receive
    <3>1. scores' \in Seq(Origins) /\ Len(scores') <= Candidates
      BY <2>9, ScoredCounts DEF Receive, Progress, Origins
    <3> QED
      BY <2>9, <3>1 DEF Receive, Progress
  <2>10. CASE CheckScorer
    <3>1. CASE Step("check", "segment") /\ Answered(Dictionary)
      <4>1. pc # "idle" /\ todo > 0
        BY <3>1 DEF Progress
      <4>2. /\ todo' \in 0..Segments /\ scores' = <<>>
            /\ outcome' \in Seq(SUBSET Origins) /\ Len(outcome') <= Segments
            /\ todo' + Len(outcome') = Segments
        BY <3>1, <4>1, AnsweredCounts, DictionaryIsOrder
      <4> QED
        BY <3>1, <4>2 DEF Progress
    <3>2. CASE Step("check", "candidate") /\ UNCHANGED <<todo, scores, outcome>>
      BY <2>10, <3>2 DEF Progress
    <3> QED
      BY <2>10, <3>1, <3>2 DEF CheckScorer
  <2>11. CASE Tick
    BY <2>11 DEF Tick, Progress
  <2>12. ASSUME Deadline \/ SetClock PROVE Progress'
    BY <2>12 DEF Deadline, SetClock, Progress
  <2>13. CASE UNCHANGED vars
    BY <2>13 DEF vars, Progress
  <2> QED
    BY <2>1, <2>2, <2>3, <2>4, <2>5, <2>6, <2>7, <2>8, <2>9, <2>10, <2>11, <2>12,
       <2>13 DEF Next
<1> QED
  BY <1>1, <1>2, PTL DEF Spec

LEMMA BudgetHolds == Spec => []Budget
<1>1. Init => Budget
  <2> SUFFICES ASSUME Init PROVE Budget
    OBVIOUS
  <2>1. spent \in BOOLEAN /\ late = 0
    BY DEF Init
  <2>2. late \in 0..1
    BY <2>1
  <2> QED
    BY <2>1, <2>2 DEF Budget
<1>2. Budget /\ [Next]_vars => Budget'
  <2> SUFFICES ASSUME Budget, [Next]_vars PROVE Budget'
    OBVIOUS
  <2> USE DEF Budget, Step
  <2>1. CASE Begin
    <3>1. spent' \in BOOLEAN /\ late' = 0
      BY <2>1 DEF Begin
    <3>2. late' \in 0..1
      BY <3>1
    <3> QED
      BY <3>1, <3>2
  <2>2. ASSUME Start \/ NextSegment \/ Finish \/ Rank \/ GiveUpSegment \/ ScoreExcluded
               \/ ScoreFallback \/ CheckScorer
        PROVE  Budget'
    BY <2>2 DEF Start, NextSegment, Finish, Rank, GiveUpSegment, ScoreExcluded,
                ScoreFallback, CheckScorer
  <2>3. CASE Send
    BY <2>3 DEF Send, MayScore
  <2>4. CASE Receive
    BY <2>4 DEF Receive
  <2>5. CASE Deadline
    BY <2>5 DEF Deadline
  <2>6. ASSUME Tick \/ SetClock PROVE Budget'
    BY <2>6 DEF Tick, SetClock
  <2>7. CASE UNCHANGED vars
    BY <2>7 DEF vars
  <2> QED
    BY <2>1, <2>2, <2>3, <2>4, <2>5, <2>6, <2>7 DEF Next
<1> QED
  BY <1>1, <1>2, PTL DEF Spec

(* An order without a fallback keeps the outcome clean.                    *)
LEMMA CleanOrder ==
  ASSUME Progress, Clean, NEW order, "fallback" \notin order, Answered(order)
  PROVE  Clean'
<1>1. outcome \in Seq(SUBSET Origins)
  BY DEF Progress
<1>2. outcome' = Append(outcome, order)
  BY DEF Answered
<1> QED
  BY <1>1, <1>2 DEF Clean

LEMMA DictionaryClean == "fallback" \notin Dictionary
BY DEF Dictionary

LEMMA UnmixedHolds == Spec => []Unmixed
<1>1. Init => Unmixed
  BY DEF Init, Unmixed, Clean
<1>2. Clocks /\ Progress /\ Unmixed /\ [Next]_vars => Unmixed'
  <2> SUFFICES ASSUME Clocks, Progress, Unmixed, [Next]_vars, clockSteps' = 0
               PROVE  Unmixed'
    BY DEF Unmixed
  <2>1. CASE SetClock
    BY <2>1 DEF SetClock, Clocks
  <2> SUFFICES ASSUME ~SetClock PROVE Unmixed'
    BY <2>1
  <2>2. clockSteps = 0
    BY DEF Next, Begin, Start, NextSegment, Finish, Rank, GiveUpSegment, ScoreExcluded,
           ScoreFallback, Send, Receive, CheckScorer, Tick, Deadline, vars, clock
  <2>3. /\ Clean
        /\ pc \in {"candidate", "request"} => ~CooldownActive /\ ~Fallbacks(scores)
        /\ pc = "check" => \/ ~CooldownActive /\ ~Fallbacks(scores)
                           \/ warnedAt # 0 /\ wall - warnedAt <= lag
    BY <2>2 DEF Unmixed
  <2>4. CASE Begin
    BY <2>4 DEF Begin, Step, Unmixed, Clean
  <2>5. CASE Start
    <3>1. Clean'
      BY <2>3, <2>5 DEF Start, Clean, Dictionary
    <3> QED
      BY <2>5, <3>1 DEF Start, Step, Unmixed
  <2>6. CASE NextSegment
    <3>1. CASE Step("segment", "segment") /\ Answered(Dictionary)
      <4>1. Clean'
        BY <2>3, <3>1, CleanOrder, DictionaryClean
      <4> QED
        BY <3>1, <4>1 DEF Step, Unmixed
    <3>2. CASE /\ ~CooldownActive /\ Step("segment", "candidate")
               /\ UNCHANGED <<todo, scores, outcome>>
      <4>1. scores' = <<>> /\ Clean' /\ pc' = "candidate"
        BY <2>3, <3>2 DEF Step, Progress, Clean
      <4>2. ~CooldownActive'
        BY <2>6, <3>2 DEF NextSegment, CooldownActive, clock, cooldown
      <4> QED
        BY <4>1, <4>2 DEF Unmixed, Fallbacks
    <3> QED
      BY <2>6, <3>1, <3>2 DEF NextSegment
  <2>7. CASE Finish
    BY <2>3, <2>7 DEF Finish, Step, Unmixed, Clean
  <2>8. CASE Rank
    <3>1. "fallback" \notin {scores[i] : i \in DOMAIN scores}
      BY <2>3, <2>8 DEF Rank, Step, Fallbacks
    <3>2. Clean'
      BY <2>3, <2>8, <3>1, CleanOrder DEF Rank
    <3> QED
      BY <2>8, <3>2 DEF Rank, Step, Unmixed
  <2>9. CASE GiveUpSegment
    <3>1. Clean'
      BY <2>3, <2>9, CleanOrder, DictionaryClean DEF GiveUpSegment
    <3> QED
      BY <2>9, <3>1 DEF GiveUpSegment, Step, Unmixed
  <2>10. CASE ScoreExcluded
    <3>1. pc = "candidate" /\ pc' = "check" /\ scores' = Append(scores, "excluded") /\ Clean'
      BY <2>3, <2>10 DEF ScoreExcluded, Step, Scored, Clean
    <3>2. ~Fallbacks(scores')
      BY <2>3, <3>1 DEF Fallbacks, Progress
    <3>3. ~CooldownActive'
      BY <2>3, <2>10, <3>1 DEF ScoreExcluded, CooldownActive, clock, cooldown
    <3> QED
      BY <3>1, <3>2, <3>3 DEF Unmixed, Fallbacks
  <2>11. CASE ScoreFallback
    BY <2>3, <2>11 DEF ScoreFallback, Step
  <2>12. CASE Send
    <3>1. pc = "candidate" /\ pc' = "request" /\ scores' = scores /\ Clean'
      BY <2>3, <2>12 DEF Send, Step, Clean
    <3>2. ~CooldownActive'
      BY <2>12 DEF Send, CooldownActive, clock, cooldown
    <3> QED
      BY <2>3, <3>1, <3>2 DEF Unmixed, Fallbacks
  <2>13. CASE Receive
    <3>1. pc = "request" /\ pc' = "check" /\ lag' = 0 /\ wall' = wall /\ Clean'
      BY <2>3, <2>13 DEF Receive, Step, Clean, clock
    <3>2. CASE Scored("model") /\ UNCHANGED cooldown
      <4>1. ~Fallbacks(scores')
        BY <2>3, <3>1, <3>2 DEF Scored, Fallbacks, Progress
      <4>2. ~CooldownActive'
        BY <2>3, <3>1, <3>2 DEF CooldownActive, cooldown
      <4> QED
        BY <3>1, <4>1, <4>2 DEF Unmixed, Fallbacks
    <3>3. CASE MarkFailed
      <4>1. warnedAt' # 0 /\ wall' - warnedAt' <= lag'
        BY <3>1, <3>3 DEF MarkFailed, Clocks
      <4> QED
        BY <3>1, <4>1 DEF Unmixed
    <3> QED
      BY <2>13, <3>2, <3>3 DEF Receive
  <2>14. CASE CheckScorer
    <3>1. CASE CooldownActive /\ Step("check", "segment") /\ Answered(Dictionary)
      <4>1. Clean'
        BY <2>3, <3>1, CleanOrder, DictionaryClean
      <4> QED
        BY <3>1, <4>1 DEF Step, Unmixed
    <3>2. CASE /\ ~CooldownActive /\ Step("check", "candidate")
               /\ UNCHANGED <<todo, scores, outcome>>
      <4>1. wall - warnedAt <= lag /\ warnedAt # 0 => CooldownActive
        BY DEF CooldownActive, Clocks, Progress
      <4>2. pc = "check" /\ pc' = "candidate" /\ scores' = scores /\ Clean'
        BY <2>3, <3>2 DEF Step, Clean
      <4>3. ~CooldownActive'
        BY <2>14, <3>2 DEF CheckScorer, CooldownActive, clock, cooldown
      <4> QED
        BY <2>3, <3>2, <4>1, <4>2, <4>3 DEF Unmixed, Fallbacks
    <3> QED
      BY <2>14, <3>1, <3>2 DEF CheckScorer
  <2>15. CASE Tick
    <3>1. /\ wall' = wall + 1 /\ warnedAt' = warnedAt /\ pc' = pc /\ scores' = scores
          /\ pc = "check" => lag' = lag + 1
          /\ Clean'
      BY <2>3, <2>15 DEF Tick, cooldown, Clean
    <3>2. ~CooldownActive => ~CooldownActive'
      BY <3>1 DEF CooldownActive, Clocks
    <3>3. wall - warnedAt <= lag /\ pc = "check" => wall' - warnedAt' <= lag'
      BY <3>1 DEF Clocks, Progress
    <3> QED
      BY <2>3, <3>1, <3>2, <3>3 DEF Unmixed, Fallbacks
  <2>16. CASE Deadline \/ UNCHANGED vars
    <3>1. UNCHANGED <<clock, cooldown, pc, lag, scores, outcome>>
      BY <2>16 DEF Deadline, vars
    <3> QED
      BY <2>3, <3>1 DEF Unmixed, Fallbacks, CooldownActive, Clean, clock, cooldown
  <2> QED
    BY <2>4, <2>5, <2>6, <2>7, <2>8, <2>9, <2>10, <2>11, <2>12, <2>13, <2>14, <2>15,
       <2>16 DEF Next
<1> QED
  BY <1>1, <1>2, ClocksHold, ProgressHolds, PTL DEF Spec

-----------------------------------------------------------------------------
(* The variables keep their types.                                         *)
THEOREM TypeCorrect == Spec => []TypeOK
<1>1. Clocks /\ Progress /\ Budget => TypeOK
  BY DEF Clocks, Progress, Budget, TypeOK, NoFailure
<1> QED
  BY <1>1, ClocksHold, ProgressHolds, BudgetHolds, PTL

(* Whatever stops a pass, the result it hands on has one order for every   *)
(* segment, by position.                                                   *)
THEOREM EverySegmentAnsweredHolds == Spec => []EverySegmentAnswered
<1>1. Progress => EverySegmentAnswered
  BY DEF Progress, EverySegmentAnswered
<1> QED
  BY <1>1, ProgressHolds, PTL

(* A pass waits for at most one request beyond its deadline.               *)
THEOREM OneLateRequestHolds == Spec => []OneLateRequest
<1>1. Budget => OneLateRequest
  BY DEF Budget, OneLateRequest
<1> QED
  BY <1>1, BudgetHolds, PTL

(* While nobody sets the clock, no segment is ordered by scores one of     *)
(* which stands for a failure.                                             *)
THEOREM NoMixedRankingHolds == Spec => []NoMixedRanking
<1>1. Unmixed => NoMixedRanking
  BY DEF Unmixed, Clean, NoMixedRanking
<1> QED
  BY <1>1, UnmixedHolds, PTL
====
