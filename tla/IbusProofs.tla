----------------------------- MODULE IbusProofs -----------------------------
(***************************************************************************)
(* Proofs about the IBus frontend.  The gate: for any number of contexts   *)
(* and any clock, what becomes of releases and of compositions.  One       *)
(* context behind it: for any keys, any number of letters, events and      *)
(* refresh tasks, what is on the screen, what the flag says and where      *)
(* every keystroke is, as long as the daemon makes its calls one at a      *)
(* time.                                                                   *)
(***************************************************************************)
EXTENDS Ibus, DispatchProofs

-----------------------------------------------------------------------------
(* The gate                                                                *)

(* The variables keep their types.                                         *)
THEOREM GateTypeCorrect == Gate!Spec => []Gate!TypeOK
<1> USE ClockAssumption DEF Gate!Engines, Gate!Keys, Gate!OffKeys
<1>1. Gate!Init => Gate!TypeOK
  BY DEF Gate!Init, Gate!TypeOK
<1>2. Gate!TypeOK /\ [Gate!Next]_Gate!vars => Gate!TypeOK'
  <2> SUFFICES ASSUME Gate!TypeOK, [Gate!Next]_Gate!vars PROVE Gate!TypeOK'
    OBVIOUS
  <2>1. ASSUME NEW e \in Gate!Engines, Gate!Henkan(e) PROVE Gate!TypeOK'
    BY <2>1 DEF Gate!Henkan, Gate!Ready, Gate!Forced, Gate!Pressed, Gate!TypeOK
  <2>2. ASSUME NEW e \in Gate!Engines, NEW k \in Gate!OffKeys, Gate!TurnOff(e, k) PROVE Gate!TypeOK'
    BY <2>2 DEF Gate!TurnOff, Gate!Ready, Gate!On, Gate!Forced, Gate!Pressed, Gate!TypeOK
  <2>3. ASSUME NEW e \in Gate!Engines, Gate!Off(e) PROVE Gate!TypeOK'
    BY <2>3 DEF Gate!Off, Gate!TypeOK
  <2>4. ASSUME NEW e \in Gate!Engines, Gate!ToggleOn(e) PROVE Gate!TypeOK'
    BY <2>4 DEF Gate!ToggleOn, Gate!Ready, Gate!Pressed, Gate!TypeOK
  <2>5. ASSUME NEW e \in Gate!Engines, Gate!Type(e) PROVE Gate!TypeOK'
    BY <2>5 DEF Gate!Type, Gate!Ready, Gate!On, Gate!Forced, Gate!Pressed, Gate!TypeOK
  <2>6. ASSUME NEW e \in Gate!Engines, Gate!Enter(e) PROVE Gate!TypeOK'
    BY <2>6 DEF Gate!Enter, Gate!Ready, Gate!On, Gate!Forced, Gate!Pressed, Gate!TypeOK
  <2>7. ASSUME NEW e \in Gate!Engines, NEW k \in Gate!Keys, Gate!Release(e, k) PROVE Gate!TypeOK'
    BY <2>7 DEF Gate!Release, Gate!Ready, Gate!Pressed, Gate!TypeOK
  <2>8. ASSUME NEW e \in Gate!Engines, Gate!Destroy(e) PROVE Gate!TypeOK'
    BY <2>8 DEF Gate!Destroy, Gate!TypeOK
  <2>9. ASSUME NEW e \in Gate!Engines, Gate!FocusIn(e) PROVE Gate!TypeOK'
    BY <2>9 DEF Gate!FocusIn, Gate!On, Gate!Forced, Gate!TypeOK
  <2>10. ASSUME NEW e \in Gate!Engines, Gate!FocusOut(e) PROVE Gate!TypeOK'
    BY <2>10 DEF Gate!FocusOut, Gate!Ready, Gate!Elsewhere, Gate!TypeOK
  <2>11. ASSUME NEW e \in Gate!Engines, Gate!Reset(e) PROVE Gate!TypeOK'
    BY <2>11 DEF Gate!Reset, Gate!Ready, Gate!TypeOK
  <2>12. ASSUME NEW e \in Gate!Engines, Gate!Disable(e) PROVE Gate!TypeOK'
    BY <2>12 DEF Gate!Disable, Gate!Ready, Gate!Elsewhere, Gate!TypeOK
  <2>13. ASSUME NEW k \in Gate!Keys, Gate!ReleaseOutside(k) PROVE Gate!TypeOK'
    BY <2>13 DEF Gate!ReleaseOutside, Gate!Pressed, Gate!TypeOK
  <2>14. ASSUME Gate!CreateEngine PROVE Gate!TypeOK'
    BY <2>14 DEF Gate!CreateEngine, Gate!TypeOK
  <2>15. ASSUME Gate!ForceEnable PROVE Gate!TypeOK'
    BY <2>15 DEF Gate!ForceEnable, Gate!TypeOK
  <2>16. ASSUME Gate!ForceEnableClear PROVE Gate!TypeOK'
    BY <2>16 DEF Gate!ForceEnableClear, Gate!TypeOK
  <2>17. ASSUME Gate!Tick PROVE Gate!TypeOK'
    BY <2>17 DEF Gate!Tick, Gate!TypeOK
  <2>18. CASE UNCHANGED Gate!vars
    BY <2>18 DEF Gate!vars, Gate!TypeOK
  <2> QED
    BY <2>1, <2>2, <2>3, <2>4, <2>5, <2>6, <2>7, <2>8, <2>9, <2>10, <2>11, <2>12, <2>13, <2>14, <2>15, <2>16, <2>17, <2>18 DEF Gate!Next
<1> QED
  BY <1>1, <1>2, PTL DEF Gate!Spec

-----------------------------------------------------------------------------
(* A context in the middle of turning off has the focus, nothing composed, *)
(* and has consumed the press of the key that did it.                      *)
Closing ==
  \A e \in Gate!Engines : closing[e] # "none" =>
    focus = e /\ ~composing[e] /\ press[closing[e]] = "consumed"

(* Every switching key that is down after a consumed press is owed, or     *)
(* will be when the context has turned off.                                *)
Debts ==
  \A k \in Gate!OffKeys : press[k] = "consumed" =>
    focus \in Gate!Engines /\ (k \in owed[focus] \/ closing[focus] = k)

GateInv ==
  Closing /\ Debts /\ Gate!NoStaleDebt /\ Gate!OffHoldsNothing /\ Gate!OwnReleaseConsumed

LEMMA GateInvariance == Gate!Spec => [](Gate!TypeOK /\ GateInv)
<1> USE DEF Gate!Engines, Gate!Keys, Gate!OffKeys
<1>1. Gate!Init => GateInv
  BY DEF Gate!Init, GateInv, Closing, Debts, Gate!NoStaleDebt, Gate!OffHoldsNothing, Gate!OwnReleaseConsumed
<1>2. Gate!TypeOK /\ GateInv /\ [Gate!Next]_Gate!vars => GateInv'
  <2> SUFFICES ASSUME Gate!TypeOK, GateInv, [Gate!Next]_Gate!vars PROVE GateInv'
    OBVIOUS
  <2> USE DEF Gate!TypeOK, GateInv, Closing, Debts, Gate!NoStaleDebt, Gate!OffHoldsNothing, Gate!OwnReleaseConsumed
  <2>1. ASSUME NEW e \in Gate!Engines, Gate!Henkan(e) PROVE GateInv'
    BY <2>1 DEF Gate!Henkan, Gate!Ready, Gate!Forced, Gate!Pressed
  <2>2. ASSUME NEW e \in Gate!Engines, NEW k \in Gate!OffKeys, Gate!TurnOff(e, k) PROVE GateInv'
    BY <2>2 DEF Gate!TurnOff, Gate!Ready, Gate!On, Gate!Forced, Gate!Pressed
  <2>3. ASSUME NEW e \in Gate!Engines, Gate!Off(e) PROVE GateInv'
    BY <2>3 DEF Gate!Off
  <2>4. ASSUME NEW e \in Gate!Engines, Gate!ToggleOn(e) PROVE GateInv'
    BY <2>4 DEF Gate!ToggleOn, Gate!Ready, Gate!Pressed
  <2>5. ASSUME NEW e \in Gate!Engines, Gate!Type(e) PROVE GateInv'
    BY <2>5 DEF Gate!Type, Gate!Ready, Gate!On, Gate!Forced, Gate!Pressed
  <2>6. ASSUME NEW e \in Gate!Engines, Gate!Enter(e) PROVE GateInv'
    BY <2>6 DEF Gate!Enter, Gate!Ready, Gate!On, Gate!Forced, Gate!Pressed
  <2>7. ASSUME NEW e \in Gate!Engines, NEW k \in Gate!Keys, Gate!Release(e, k) PROVE GateInv'
    BY <2>7 DEF Gate!Release, Gate!Ready, Gate!Pressed, Gate!ReleaseConsumed
  <2>8. ASSUME NEW e \in Gate!Engines, Gate!Destroy(e) PROVE GateInv'
    BY <2>8 DEF Gate!Destroy
  <2>9. ASSUME NEW e \in Gate!Engines, Gate!FocusIn(e) PROVE GateInv'
    BY <2>9 DEF Gate!FocusIn, Gate!On, Gate!Forced
  <2>10. ASSUME NEW e \in Gate!Engines, Gate!FocusOut(e) PROVE GateInv'
    BY <2>10 DEF Gate!FocusOut, Gate!Ready, Gate!Elsewhere
  <2>11. ASSUME NEW e \in Gate!Engines, Gate!Reset(e) PROVE GateInv'
    BY <2>11 DEF Gate!Reset, Gate!Ready
  <2>12. ASSUME NEW e \in Gate!Engines, Gate!Disable(e) PROVE GateInv'
    BY <2>12 DEF Gate!Disable, Gate!Ready, Gate!Elsewhere
  <2>13. ASSUME NEW k \in Gate!Keys, Gate!ReleaseOutside(k) PROVE GateInv'
    BY <2>13 DEF Gate!ReleaseOutside, Gate!Pressed
  <2>14. ASSUME Gate!CreateEngine PROVE GateInv'
    BY <2>14 DEF Gate!CreateEngine
  <2>15. ASSUME Gate!ForceEnable PROVE GateInv'
    BY <2>15 DEF Gate!ForceEnable
  <2>16. ASSUME Gate!ForceEnableClear PROVE GateInv'
    BY <2>16 DEF Gate!ForceEnableClear
  <2>17. ASSUME Gate!Tick PROVE GateInv'
    BY <2>17 DEF Gate!Tick
  <2>18. CASE UNCHANGED Gate!vars
    BY <2>18 DEF Gate!vars
  <2> QED
    BY <2>1, <2>2, <2>3, <2>4, <2>5, <2>6, <2>7, <2>8, <2>9, <2>10, <2>11, <2>12, <2>13, <2>14, <2>15, <2>16, <2>17, <2>18 DEF Gate!Next
<1> QED
  BY <1>1, <1>2, GateTypeCorrect, PTL DEF Gate!Spec

(* The application never sees the release of a key that has switched a     *)
(* context in focus, and the release of a key is waited for only while it  *)
(* is down and the context has the focus.                                  *)
THEOREM ReleaseFollowsPressHolds == Gate!Spec => []ReleaseFollowsPress
BY GateInvariance, PTL DEF GateInv, ReleaseFollowsPress, Gate!ReleaseFollowsPress

(* A context that is off or out of focus holds no composition.             *)
THEOREM OffHoldsNothingHolds == Gate!Spec => []OffHoldsNothing
BY GateInvariance, PTL DEF GateInv, OffHoldsNothing

-----------------------------------------------------------------------------
(* The steps of a call                                                     *)

(* The daemon waits for a call to return before it makes the next one ...  *)
Waits == events' # events => AllIdle

(* ... so that there is one at a time.                                     *)
OneCall == \A c, d \in Calls : Idle(c) \/ Idle(d) \/ c = d

First(w, s) == w # <<>> /\ Head(w) = s

(* What is left of a call that has an engine with display d shown: no more *)
(* than a task to start; the table; the preedit and the table; the same    *)
(* after the old table; the end of the preedit; the commit of a text x     *)
(* before that; and the neutral preedit before everything.                 *)
Done(w) == w \in {<<>>, <<Spawn>>}
Tables(w, d) == First(w, Lookup(d.stamp)) /\ Done(Tail(w))
Shows(w, d) == First(w, Update(d, 1)) /\ Tables(Tail(w), d)
Closes(w, d) == First(w, Lookup(0)) /\ Shows(Tail(w), d)
Hides(w, d) == First(w, Hide) /\ Tables(Tail(w), d) /\ d = Nothing
Sends(w, d, x) == First(w, CommitText(x)) /\ (Closes(Tail(w), d) \/ Hides(Tail(w), d))
Clears(w, d, x) ==
  /\ First(w, Update(Nothing, 0))
  /\ Sends(Tail(w), d, x) \/ (x = <<>> /\ Hides(Tail(w), d))

(* What is left of focus_out.                                              *)
Empties(w) == First(w, Clear) /\ Tail(w) = <<SetFlag(FALSE)>>
Departs(w) == First(w, Lookup(0)) /\ Empties(Tail(w))
Leaves(w) == First(w, Hide) /\ Departs(Tail(w))

(* Steps that leave engine and flag alone.                                 *)
NoFlag(w) == \A j \in 1 .. Len(w) : w[j].op \notin {"flag", "clear"}

LEMMA Prefixed ==
  ASSUME NEW S, NEW s \in S, NEW w \in Seq(S)
  PROVE  /\ <<s>> \o w \in Seq(S) /\ <<s>> \o w # <<>>
         /\ Head(<<s>> \o w) = s /\ Tail(<<s>> \o w) = w
<1>1. <<s>> \in Seq(S) /\ Len(<<s>>) = 1 /\ <<s>>[1] = s
  OBVIOUS
<1>2. <<s>> \o w \in Seq(S) /\ Len(<<s>> \o w) = Len(w) + 1
  BY <1>1
<1>3. /\ (<<s>> \o w)[1] = s
      /\ \A i \in 1 .. Len(w) : (<<s>> \o w)[i + 1] = w[i]
  BY <1>1
<1>4. <<s>> \o w # <<>> /\ Head(<<s>> \o w) = s
  BY <1>2, <1>3
<1>5. Tail(<<s>> \o w) \in Seq(S) /\ Len(Tail(<<s>> \o w)) = Len(w)
  BY <1>2, <1>4
<1>6. \A i \in 1 .. Len(w) : Tail(<<s>> \o w)[i] = w[i]
  BY <1>2, <1>3, <1>4
<1> QED
  BY <1>2, <1>4, <1>5, <1>6

LEMMA ConsFirst ==
  ASSUME NEW s \in Steps, NEW w \in Seq(Steps), NEW v, v = <<s>> \o w
  PROVE  v \in Seq(Steps) /\ First(v, s) /\ Tail(v) = w
BY Prefixed DEF First

LEMMA NoFlagNone == NoFlag(<<>>)
BY DEF NoFlag

LEMMA NoFlagCons ==
  ASSUME NEW w \in Seq(Steps), w # <<>>, Head(w).op \notin {"flag", "clear"}, NoFlag(Tail(w))
  PROVE  NoFlag(w)
<1> SUFFICES ASSUME NEW j \in 1 .. Len(w) PROVE w[j].op \notin {"flag", "clear"}
  BY DEF NoFlag
<1>1. CASE j = 1
  BY <1>1
<1>2. CASE j # 1
  <2>1. j - 1 \in 1 .. Len(Tail(w)) /\ Tail(w)[j - 1] = w[j]
    BY <1>2
  <2> QED
    BY <2>1 DEF NoFlag
<1> QED
  BY <1>1, <1>2

LEMMA NoFlagTail ==
  ASSUME NEW w \in Seq(Steps), w # <<>>, NoFlag(w)
  PROVE  Head(w).op \notin {"flag", "clear"} /\ NoFlag(Tail(w))
<1>1. 1 \in 1 .. Len(w) /\ Head(w) = w[1]
  OBVIOUS
<1>2. ASSUME NEW j \in 1 .. Len(Tail(w)) PROVE Tail(w)[j].op \notin {"flag", "clear"}
  <2>1. j + 1 \in 1 .. Len(w) /\ Tail(w)[j] = w[j + 1]
    OBVIOUS
  <2> QED
    BY <2>1 DEF NoFlag
<1> QED
  BY <1>1, <1>2 DEF NoFlag

LEMMA StepOps ==
  /\ \A d, m : Update(d, m).op = "update" /\ Update(d, m).shown = d /\ Update(d, m).mode = m
  /\ \A n : Lookup(n).op = "lookup" /\ Lookup(n).stamp = n
  /\ Hide.op = "hide" /\ Clear.op = "clear" /\ Spawn.op = "spawn"
  /\ \A x : CommitText(x).op = "commit" /\ CommitText(x).text = x
  /\ \A v : SetFlag(v).op = "flag" /\ SetFlag(v).value = v
BY DEF Update, Lookup, Hide, Clear, Spawn, CommitText, SetFlag

LEMMA StepTypes ==
  /\ \A d \in Shown, m \in {0, 1} : Update(d, m) \in Steps
  /\ \A n \in Nat : Lookup(n) \in Steps
  /\ Hide \in Steps /\ Clear \in Steps /\ Spawn \in Steps
  /\ \A x \in Seq(Letters) : CommitText(x) \in Steps
  /\ \A v \in BOOLEAN : SetFlag(v) \in Steps
  /\ Nothing \in Shown /\ Nothing.text = <<>> /\ Nothing.stamp = 0
BY DEF Update, Lookup, Hide, Clear, Spawn, CommitText, SetFlag, Steps, Shown, Nothing

(* Which step comes first.                                                 *)
LEMMA Heads ==
  ASSUME NEW w
  PROVE  /\ \A d : Tables(w, d) => w # <<>> /\ Head(w).op = "lookup"
         /\ \A d : Shows(w, d) => w # <<>> /\ Head(w).op = "update"
         /\ \A d : Closes(w, d) => w # <<>> /\ Head(w).op = "lookup"
         /\ \A d : Hides(w, d) => w # <<>> /\ Head(w).op = "hide"
         /\ \A d, x : Sends(w, d, x) => w # <<>> /\ Head(w).op = "commit"
         /\ \A d, x : Clears(w, d, x) => w # <<>> /\ Head(w).op = "update"
         /\ Empties(w) => w # <<>> /\ Head(w).op = "clear"
         /\ Departs(w) => w # <<>> /\ Head(w).op = "lookup"
         /\ Leaves(w) => w # <<>> /\ Head(w).op = "hide"
         /\ Done(w) /\ w # <<>> => Head(w).op = "spawn" /\ Tail(w) = <<>>
<1>1. \A s : First(w, s) => w # <<>> /\ Head(w) = s
  BY DEF First
<1>2. Done(w) /\ w # <<>> => Head(w).op = "spawn" /\ Tail(w) = <<>>
  <2>1. Head(<<Spawn>>) = Spawn /\ Tail(<<Spawn>>) = <<>>
    OBVIOUS
  <2> QED
    BY <2>1, StepOps DEF Done
<1>3. \A d : Tables(w, d) => w # <<>> /\ Head(w).op = "lookup"
  BY <1>1, StepOps DEF Tables
<1>4. \A d : Shows(w, d) => w # <<>> /\ Head(w).op = "update"
  BY <1>1, StepOps DEF Shows
<1>5. \A d : Closes(w, d) => w # <<>> /\ Head(w).op = "lookup"
  BY <1>1, StepOps DEF Closes
<1>6. \A d : Hides(w, d) => w # <<>> /\ Head(w).op = "hide"
  BY <1>1, StepOps DEF Hides
<1>7. \A d, x : Sends(w, d, x) => w # <<>> /\ Head(w).op = "commit"
  BY <1>1, StepOps DEF Sends
<1>8. \A d, x : Clears(w, d, x) => w # <<>> /\ Head(w).op = "update"
  BY <1>1, StepOps DEF Clears
<1>9. /\ Empties(w) => First(w, Clear)
      /\ Departs(w) => First(w, Lookup(0))
      /\ Leaves(w) => First(w, Hide)
  BY DEF Empties, Departs, Leaves
<1>10. /\ Empties(w) => w # <<>> /\ Head(w).op = "clear"
       /\ Departs(w) => w # <<>> /\ Head(w).op = "lookup"
       /\ Leaves(w) => w # <<>> /\ Head(w).op = "hide"
  BY <1>1, <1>9, StepOps
<1> QED
  BY <1>2, <1>3, <1>4, <1>5, <1>6, <1>7, <1>8, <1>10

LEMMA DoneType ==
  ASSUME NEW z \in {<<>>, <<Spawn>>}
  PROVE  z \in Seq(Steps)
<1>1. Spawn \in Steps
  BY StepTypes
<1>2. CASE z = <<>>
  BY <1>2
<1>3. CASE z = <<Spawn>>
  BY <1>1, <1>3
<1> QED
  BY <1>2, <1>3

(* The endings of a call, built from the last step to the first.           *)
LEMMA TablesOf ==
  ASSUME NEW d \in Shown, NEW z \in {<<>>, <<Spawn>>}, NEW w, w = <<Lookup(d.stamp)>> \o z
  PROVE  w \in Seq(Steps) /\ Tables(w, d) /\ NoFlag(w)
<1>1. d.stamp \in Nat
  BY DEF Shown
<1>2. z \in Seq(Steps) /\ Done(z)
  BY DoneType DEF Done
<1>3. NoFlag(z)
  BY <1>2, NoFlagNone, NoFlagCons, Heads
<1>4. w \in Seq(Steps) /\ First(w, Lookup(d.stamp)) /\ Tail(w) = z
  <2>1. Lookup(d.stamp) \in Steps
    BY <1>1, StepTypes
  <2> QED
    BY <1>2, <2>1, ConsFirst
<1>5. w # <<>> /\ Head(w).op \notin {"flag", "clear"}
  BY <1>4, StepOps DEF First
<1> QED
  BY <1>2, <1>3, <1>4, <1>5, NoFlagCons DEF Tables

LEMMA ShowsOf ==
  ASSUME NEW d \in Shown, NEW v \in Seq(Steps), Tables(v, d), NoFlag(v),
         NEW w, w = <<Update(d, 1)>> \o v
  PROVE  w \in Seq(Steps) /\ Shows(w, d) /\ NoFlag(w)
<1>1. w \in Seq(Steps) /\ First(w, Update(d, 1)) /\ Tail(w) = v
  <2>1. Update(d, 1) \in Steps
    BY StepTypes
  <2> QED
    BY <2>1, ConsFirst
<1>2. w # <<>> /\ Head(w).op \notin {"flag", "clear"}
  BY <1>1, StepOps DEF First
<1> QED
  BY <1>1, <1>2, NoFlagCons DEF Shows

LEMMA ClosesOf ==
  ASSUME NEW d \in Shown, NEW v \in Seq(Steps), Shows(v, d), NoFlag(v),
         NEW w, w = <<Lookup(0)>> \o v
  PROVE  w \in Seq(Steps) /\ Closes(w, d) /\ NoFlag(w)
<1>1. w \in Seq(Steps) /\ First(w, Lookup(0)) /\ Tail(w) = v
  <2>1. Lookup(0) \in Steps
    BY StepTypes
  <2> QED
    BY <2>1, ConsFirst
<1>2. w # <<>> /\ Head(w).op \notin {"flag", "clear"}
  BY <1>1, StepOps DEF First
<1> QED
  BY <1>1, <1>2, NoFlagCons DEF Closes

LEMMA HidesOf ==
  ASSUME NEW d \in Shown, d = Nothing
  PROVE  HideAll \in Seq(Steps) /\ Hides(HideAll, d) /\ NoFlag(HideAll)
<1>1. PICK v : v = <<Lookup(d.stamp)>> \o <<>>
  OBVIOUS
<1>2. v \in Seq(Steps) /\ Tables(v, d) /\ NoFlag(v)
  BY <1>1, TablesOf
<1>3. v = <<Lookup(0)>>
  BY <1>1, StepTypes
<1>4. HideAll = <<Hide>> \o v
  BY <1>3 DEF HideAll
<1>5. HideAll \in Seq(Steps) /\ First(HideAll, Hide) /\ Tail(HideAll) = v
  BY <1>2, <1>4, StepTypes, ConsFirst
<1>6. HideAll # <<>> /\ Head(HideAll).op \notin {"flag", "clear"}
  BY <1>5, StepOps DEF First
<1> QED
  BY <1>2, <1>5, <1>6, NoFlagCons DEF Hides

LEMMA SendsOf ==
  ASSUME NEW d \in Shown, NEW x \in Seq(Letters), NEW v \in Seq(Steps),
         Closes(v, d) \/ Hides(v, d), NoFlag(v), NEW w, w = <<CommitText(x)>> \o v
  PROVE  w \in Seq(Steps) /\ Sends(w, d, x) /\ NoFlag(w)
<1>1. w \in Seq(Steps) /\ First(w, CommitText(x)) /\ Tail(w) = v
  <2>1. CommitText(x) \in Steps
    BY StepTypes
  <2> QED
    BY <2>1, ConsFirst
<1>2. w # <<>> /\ Head(w).op \notin {"flag", "clear"}
  BY <1>1, StepOps DEF First
<1> QED
  BY <1>1, <1>2, NoFlagCons DEF Sends

LEMMA ClearsOf ==
  ASSUME NEW d \in Shown, NEW x \in Seq(Letters), NEW v \in Seq(Steps),
         Sends(v, d, x) \/ (x = <<>> /\ Hides(v, d)), NoFlag(v), NEW w, w = Neutralise \o v
  PROVE  w \in Seq(Steps) /\ Clears(w, d, x) /\ NoFlag(w)
<1>1. w \in Seq(Steps) /\ First(w, Update(Nothing, 0)) /\ Tail(w) = v
  <2>1. Update(Nothing, 0) \in Steps
    BY StepTypes
  <2> QED
    BY <2>1, ConsFirst DEF Neutralise
<1>2. w # <<>> /\ Head(w).op \notin {"flag", "clear"}
  BY <1>1, StepOps DEF First
<1> QED
  BY <1>1, <1>2, NoFlagCons DEF Clears

(* The signals of an outcome, by what it tells.                            *)
Signals(w, e, o) ==
  \/ w = <<>> /\ o.commit = <<>> /\ o.display = "unchanged"
  \/ Shows(w, Display(e)) /\ o.commit = <<>>
  \/ Clears(w, Display(e), o.commit)

LEMMA Joined ==
  ASSUME NEW S, NEW a \in S, NEW b \in S, NEW v \in Seq(S)
  PROVE  /\ (<<a>> \o <<b>>) \o v = <<a>> \o (<<b>> \o v)
         /\ <<>> \o v = v /\ v \o <<>> = v
OBVIOUS

LEMMA OutcomeSignals ==
  ASSUME NEW e, Sound(e, Letters), NEW e0, NEW r, r.engine = e, Tells(e0, r),
         NEW o, o = r.outcome, o.commit \in Seq(Letters)
  PROVE  /\ ApplyOutcome(o, e) \in Seq(Steps) /\ NoFlag(ApplyOutcome(o, e))
         /\ Signals(ApplyOutcome(o, e), e, o)
<1>1. PICK d \in Shown : d = Display(e)
  BY DisplayType DEF Shown
<1>2. CASE o.display = "unchanged" /\ o.commit = <<>> /\ o.refresh = FALSE
  <2>1. ApplyOutcome(o, e) = <<>>
    BY <1>2 DEF ApplyOutcome
  <2> QED
    BY <1>2, <2>1, NoFlagNone DEF Signals
<1>3. CASE o.display = "conversion" /\ o.commit = <<>> /\ o.refresh \in BOOLEAN
  <2>1. PICK z \in {<<>>, <<Spawn>>} : z = IF o.refresh THEN <<Spawn>> ELSE <<>>
    OBVIOUS
  <2>2. PICK v : v = <<Lookup(d.stamp)>> \o z
    OBVIOUS
  <2>3. v \in Seq(Steps) /\ Tables(v, d) /\ NoFlag(v)
    BY <2>2, TablesOf
  <2>4. PICK w : w = <<Update(d, 1)>> \o v
    OBVIOUS
  <2>5. ApplyOutcome(o, e) = w
    <3>1. ApplyOutcome(o, e) = (<<>> \o <<>>) \o <<Update(d, 1), Lookup(d.stamp)>> \o z
      BY <1>1, <1>3, <2>1 DEF ApplyOutcome, ShowDisplay
    <3>2. Update(d, 1) \in Steps /\ Lookup(d.stamp) \in Steps /\ z \in Seq(Steps)
      <4>1. d.stamp \in Nat
        BY DEF Shown
      <4>2. Update(d, 1) \in Steps /\ Lookup(d.stamp) \in Steps
        BY <4>1, StepTypes
      <4> QED
        BY <4>2, DoneType
    <3>3. <<Update(d, 1), Lookup(d.stamp)>> \o z = w
      BY <2>2, <2>4, <3>2
    <3> QED
      BY <3>1, <3>2, <3>3
  <2> QED
    BY <1>1, <1>3, <2>3, <2>4, <2>5, ShowsOf DEF Signals
<1>4. CASE o.display = "preedit" /\ ~Converting(e) /\ o.refresh = FALSE
  <2>1. d = [text |-> Preedit(e), stamp |-> 0] /\ d.stamp = 0
    BY <1>1, <1>4 DEF Display
  <2>2. PICK v : v = <<Lookup(d.stamp)>> \o <<>>
    OBVIOUS
  <2>3. v \in Seq(Steps) /\ Tables(v, d) /\ NoFlag(v)
    BY <2>2, TablesOf
  <2>4. PICK w : w = <<Update(d, 1)>> \o v
    OBVIOUS
  <2>5. w \in Seq(Steps) /\ Shows(w, d) /\ NoFlag(w)
    BY <2>3, <2>4, ShowsOf
  <2>6. ShowDisplay([text |-> Preedit(e), stamp |-> 0]) = w
    BY <2>1, <2>2, <2>4, StepTypes DEF ShowDisplay, Shown
  <2>7. CASE o.commit = <<>>
    <3>1. ApplyOutcome(o, e) = ((<<>> \o <<>>) \o (<<>> \o w)) \o <<>>
      BY <1>4, <2>6, <2>7 DEF ApplyOutcome
    <3>2. ApplyOutcome(o, e) = w
      BY <2>5, <3>1
    <3> QED
      BY <1>1, <2>5, <2>7, <3>2 DEF Signals
  <2>8. CASE o.commit # <<>>
    <3>1. PICK u : u = <<Lookup(0)>> \o w
      OBVIOUS
    <3>2. u \in Seq(Steps) /\ Closes(u, d) /\ NoFlag(u)
      BY <2>5, <3>1, ClosesOf
    <3>3. PICK s : s = <<CommitText(o.commit)>> \o u
      OBVIOUS
    <3>4. s \in Seq(Steps) /\ Sends(s, d, o.commit) /\ NoFlag(s)
      BY <3>2, <3>3, SendsOf
    <3>5. PICK n : n = Neutralise \o s
      OBVIOUS
    <3>6. n \in Seq(Steps) /\ Clears(n, d, o.commit) /\ NoFlag(n)
      BY <3>4, <3>5, ClearsOf
    <3>7. ApplyOutcome(o, e) = ((Neutralise \o <<CommitText(o.commit)>>) \o u) \o <<>>
      BY <1>4, <2>6, <2>8, <3>1 DEF ApplyOutcome
    <3>8. (Neutralise \o <<CommitText(o.commit)>>) \o u = n
      BY <3>2, <3>3, <3>5, StepTypes, Joined DEF Neutralise
    <3>9. ApplyOutcome(o, e) = n
      BY <3>6, <3>7, <3>8
    <3> QED
      BY <1>1, <3>6, <3>9 DEF Signals
  <2> QED
    BY <2>7, <2>8
<1>5. CASE o.display = "cleared" /\ Preedit(e) = <<>> /\ ~Converting(e) /\ o.refresh = FALSE
  <2>1. d = Nothing
    BY <1>1, <1>5 DEF Display, Nothing
  <2>2. HideAll \in Seq(Steps) /\ Hides(HideAll, d) /\ NoFlag(HideAll)
    BY <2>1, HidesOf
  <2>3. CASE o.commit = <<>>
    <3>1. PICK n : n = Neutralise \o HideAll
      OBVIOUS
    <3>2. n \in Seq(Steps) /\ Clears(n, d, o.commit) /\ NoFlag(n)
      BY <2>2, <2>3, <3>1, ClearsOf
    <3>3. ApplyOutcome(o, e) = ((Neutralise \o <<>>) \o HideAll) \o <<>>
      BY <1>5, <2>3 DEF ApplyOutcome
    <3>4. Neutralise \o <<>> = Neutralise
      BY StepTypes DEF Neutralise
    <3>5. ApplyOutcome(o, e) = n
      BY <3>1, <3>2, <3>3, <3>4
    <3> QED
      BY <1>1, <3>2, <3>5 DEF Signals
  <2>4. CASE o.commit # <<>>
    <3>1. PICK s : s = <<CommitText(o.commit)>> \o HideAll
      OBVIOUS
    <3>2. s \in Seq(Steps) /\ Sends(s, d, o.commit) /\ NoFlag(s)
      BY <2>2, <3>1, SendsOf
    <3>3. PICK n : n = Neutralise \o s
      OBVIOUS
    <3>4. n \in Seq(Steps) /\ Clears(n, d, o.commit) /\ NoFlag(n)
      BY <3>2, <3>3, ClearsOf
    <3>5. ApplyOutcome(o, e) = ((Neutralise \o <<CommitText(o.commit)>>) \o HideAll) \o <<>>
      BY <1>5, <2>4 DEF ApplyOutcome
    <3>6. (Neutralise \o <<CommitText(o.commit)>>) \o HideAll = n
      BY <2>2, <3>1, <3>3, StepTypes, Joined DEF Neutralise
    <3>7. ApplyOutcome(o, e) = n
      BY <3>4, <3>5, <3>6
    <3> QED
      BY <1>1, <3>4, <3>7 DEF Signals
  <2> QED
    BY <2>3, <2>4
<1> QED
  BY <1>2, <1>3, <1>4, <1>5 DEF Tells

-----------------------------------------------------------------------------
(* The inductive invariant                                                 *)

(* Hiding the preedit would commit nothing.                                *)
Blank == client.mode = 0 \/ client.shown.text = <<>>

Inserts == client.shown.text # <<>> => client.mode = 1

(* A refresh task has yet to show what the engine has: the guard will let  *)
(* it, or it has passed it, or only the table is left.                     *)
Coming(t) ==
  /\ task[t].shown = Display(engine)
  /\ \/ /\ At(t, "recheck") /\ task[t].generation = engine.generation
        /\ converting /\ Converting(engine)
     \/ At(t, "emit")
     \/ At(t, "table") /\ client.shown = Display(engine)

(* The screen is the engine's, or a refresh task will make it so.          *)
Current ==
  /\ client.shown.text = Display(engine).text
  /\ Inserts
  /\ \/ client.shown = Display(engine) /\ client.lookup = Display(engine).stamp
     \/ \E t \in Tasks : Coming(t)

(* The screen and the text x still to be sent suit the steps left.         *)
Suits(w, x) ==
  \/ Done(w) /\ x = <<>> /\ Current
  \/ Tables(w, Display(engine)) /\ x = <<>> /\ client.shown = Display(engine) /\ Inserts
  \/ Shows(w, Display(engine)) /\ x = <<>>
  \/ Closes(w, Display(engine)) /\ x = <<>>
  \/ Hides(w, Display(engine)) /\ x = <<>> /\ Blank
  \/ Sends(w, Display(engine), x) /\ Blank
  \/ Clears(w, Display(engine), x)

Sets(w) == \E v \in BOOLEAN : First(w, SetFlag(v)) /\ (v <=> Converting(engine))

(* Where a keystroke that has not gone astray is, from the moment it is    *)
(* typed, while the text x is still to be sent; while a context leaves,    *)
(* what is shown has been given to the application and is still held.      *)
Accounts(x) ==
  \A i \in Letters \ engine.strayed :
    sent[i] + auto[i] + Credit(engine, i) + Count(x, i) = IF i <= typed THEN 1 ELSE 0

Twice ==
  \A i \in Letters \ engine.strayed :
    sent[i] + auto[i] + Credit(engine, i)
      = (IF i <= typed THEN 1 ELSE 0) + Count(Display(engine).text, i)

(* What holds when the steps w of a call are left.                         *)
Fits(w) ==
  \/ \E x \in Seq(Letters) : Accounts(x) /\ Suits(w, x)
  \/ \E x \in Seq(Letters) : Accounts(x) /\ Sets(w) /\ Suits(Tail(w), x)
  \/ Leaves(w) /\ Accounts(<<>>) /\ Current
  \/ Departs(w) /\ Twice /\ client.shown = Nothing
  \/ Empties(w) /\ Twice /\ client.shown = Nothing /\ client.lookup = 0

Screened ==
  ~crossed =>
    /\ AllIdle => Current /\ Accounts(<<>>)
    /\ \A c \in Calls : ~Idle(c) => Fits(todo[c])

(* The flag is right, or about to be set.                                  *)
FlagFits(w) ==
  \/ NoFlag(w) /\ (converting <=> Converting(engine))
  \/ Sets(w) /\ NoFlag(Tail(w))
  \/ Leaves(w) \/ Departs(w) \/ Empties(w)

Flagged ==
  /\ AllIdle => (converting <=> Converting(engine))
  /\ \A c \in Calls : ~Idle(c) => FlagFits(todo[c])

(* A snapshot of this generation is of the conversion there is.            *)
Guarded ==
  \A t \in Tasks : At(t, "recheck") =>
    /\ task[t].generation <= engine.generation
    /\ task[t].generation = engine.generation =>
         Converting(engine) /\ task[t].shown.text \in {Reading(engine), engine.raw}

(* Out of focus the engine is empty, or about to be.                       *)
Leaving(w) == Leaves(w) \/ Departs(w) \/ Empties(w)

Vacant(e) == ~Converting(e) /\ Preedit(e) = <<>>

Away == ~focused => Vacant(engine) \/ \E c \in Calls : Leaving(todo[c])

IInv ==
  TypeOK /\ Sound(engine, Letters) /\ Screened /\ Flagged /\ Guarded /\ Away

-----------------------------------------------------------------------------
(* What a step of a call is a step of                                      *)

LEMMA LettersNat == Letters \in SUBSET Nat
BY BoundsAssumption DEF Letters

(* Nothing is left to do for no step.                                      *)
LEMMA NoStep ==
  ASSUME NEW d, NEW x
  PROVE  /\ ~Tables(<<>>, d) /\ ~Shows(<<>>, d) /\ ~Closes(<<>>, d) /\ ~Hides(<<>>, d)
         /\ ~Sends(<<>>, d, x) /\ ~Clears(<<>>, d, x)
         /\ ~Leaves(<<>>) /\ ~Departs(<<>>) /\ ~Empties(<<>>)
         /\ \A s : ~First(<<>>, s)
<1>1. \A s : ~First(<<>>, s)
  BY DEF First
<1> QED
  BY <1>1, Heads

(* What is left of a call that has nothing more to send.                   *)
LEMMA FitsSent ==
  ASSUME NEW w
  PROVE  /\ Accounts(<<>>)' /\ Suits(w, <<>>)' => Fits(w)'
         /\ Accounts(<<>>)' /\ Sets(w)' /\ Suits(Tail(w), <<>>)' => Fits(w)'
<1>1. <<>> \in Seq(Letters)
  OBVIOUS
<1> QED
  BY <1>1 DEF Fits, Letters

(* The other calls are idle while one moves.                               *)
LEMMA OthersIdle ==
  ASSUME OneCall, NEW c \in Calls, ~Idle(c)
  PROVE  \A b \in Calls \ {c} : Idle(b)
BY DEF OneCall

LEMMA MovesAlone ==
  ASSUME TypeOK, NEW c \in Calls, \A b \in Calls \ {c} : Idle(b), NEW w,
         todo' = [todo EXCEPT ![c] = w]
  PROVE  OneCall'
<1>1. \A b \in Calls \ {c} : todo'[b] = <<>>
  BY DEF TypeOK, Idle
<1> QED
  BY <1>1 DEF OneCall, Idle

(* A call that moves on to the steps w, alone.                             *)
LEMMA MovesScreened ==
  ASSUME TypeOK, NEW c \in Calls, \A b \in Calls \ {c} : Idle(b), NEW w,
         todo' = [todo EXCEPT ![c] = w], ~crossed' => Fits(w)'
  PROVE  Screened'
<1> SUFFICES ASSUME ~crossed'
             PROVE  /\ AllIdle' => Current' /\ Accounts(<<>>)'
                    /\ \A b \in Calls : ~Idle(b)' => Fits(todo[b])'
  BY DEF Screened
<1>1. todo'[c] = w /\ \A b \in Calls \ {c} : todo'[b] = <<>>
  BY DEF TypeOK, Idle
<1>2. \A b \in Calls : ~Idle(b)' => b = c
  BY <1>1 DEF Idle
<1>3. Fits(todo[c])'
  BY <1>1 DEF Fits
<1>4. ASSUME AllIdle' PROVE Current' /\ Accounts(<<>>)'
  <2>1. w = <<>>
    BY <1>1, <1>4 DEF AllIdle, Idle
  <2>2. \E x \in Seq(Letters) : Accounts(x)' /\ Suits(<<>>, x)'
    <3>1. ~Sets(<<>>)'
      BY NoStep DEF Sets
    <3> QED
      BY <2>1, <3>1, NoStep DEF Fits
  <2>3. \A x \in Seq(Letters) : Suits(<<>>, x)' => x = <<>> /\ Current'
    BY NoStep DEF Suits
  <2> QED
    BY <2>2, <2>3
<1> QED
  BY <1>2, <1>3, <1>4

LEMMA MovesFlagged ==
  ASSUME TypeOK, NEW c \in Calls, \A b \in Calls \ {c} : Idle(b), NEW w,
         todo' = [todo EXCEPT ![c] = w], FlagFits(w)'
  PROVE  Flagged'
<1>1. todo'[c] = w /\ \A b \in Calls \ {c} : todo'[b] = <<>>
  BY DEF TypeOK, Idle
<1>2. \A b \in Calls : ~Idle(b)' => b = c
  BY <1>1 DEF Idle
<1>3. FlagFits(todo[c])'
  BY <1>1 DEF FlagFits
<1>4. ASSUME AllIdle' PROVE (converting <=> Converting(engine))'
  <2>1. w = <<>>
    BY <1>1, <1>4 DEF AllIdle, Idle
  <2>2. ~Sets(<<>>)'
    BY NoStep DEF Sets
  <2> QED
    BY <2>1, <2>2, NoStep DEF FlagFits
<1> QED
  BY <1>2, <1>3, <1>4 DEF Flagged

(* Calls that do not move.                                                 *)
LEMMA StaysScreened ==
  ASSUME Screened, todo' = todo, crossed' = crossed,
         Current => Current', \A x : Accounts(x) => Accounts(x)',
         Twice => Twice', Display(engine)' = Display(engine),
         Converting(engine)' <=> Converting(engine),
         ~AllIdle => client' = client
  PROVE  Screened'
<1> SUFFICES ASSUME ~crossed'
             PROVE  /\ AllIdle' => Current' /\ Accounts(<<>>)'
                    /\ \A b \in Calls : ~Idle(b)' => Fits(todo[b])'
  BY DEF Screened
<1>1. AllIdle' => Current' /\ Accounts(<<>>)'
  BY DEF Screened, AllIdle, Idle
<1>2. ASSUME NEW b \in Calls, ~Idle(b)' PROVE Fits(todo[b])'
  <2>1. Fits(todo[b]) /\ client' = client
    BY <1>2 DEF Screened, Idle, AllIdle
  <2>2. ASSUME NEW w, NEW x, Suits(w, x) PROVE Suits(w, x)'
    BY <2>1, <2>2 DEF Suits, Blank, Inserts
  <2>3. Sets(todo[b]) => Sets(todo[b])'
    BY DEF Sets
  <2> QED
    BY <2>1, <2>2, <2>3 DEF Fits
<1> QED
  BY <1>1, <1>2

LEMMA StaysFlagged ==
  ASSUME Flagged, todo' = todo, converting' = converting,
         Converting(engine)' <=> Converting(engine)
  PROVE  Flagged'
<1>1. \A w : Sets(w) => Sets(w)'
  BY DEF Sets
<1>2. \A w : FlagFits(w) => FlagFits(w)'
  BY <1>1 DEF FlagFits
<1>3. \A b \in Calls : ~Idle(b)' => FlagFits(todo[b])'
  BY <1>2 DEF Flagged, Idle, FlagFits, Sets
<1> QED
  BY <1>3 DEF Flagged, AllIdle, Idle

-----------------------------------------------------------------------------
(* The steps of a call keep the invariant                                  *)

LEMMA CountedType ==
  ASSUME NEW count \in [Letters -> Nat], NEW text \in Seq(Letters)
  PROVE  /\ Counted(count, text) \in [Letters -> Nat]
         /\ \A i \in Letters : Counted(count, text)[i] = count[i] + Count(text, i)
<1>1. \A i \in Letters : Count(text, i) \in Nat
  BY CountNat
<1> QED
  BY <1>1 DEF Counted

LEMMA CountedNothing ==
  ASSUME NEW count \in [Letters -> Nat]
  PROVE  Counted(count, <<>>) = count
<1>1. \A i \in Letters : Count(<<>>, i) = 0
  BY CountEmpty
<1> QED
  BY <1>1 DEF Counted

(* The engine, seen from a later state.                                    *)
LEMMA EngineNext ==
  /\ Display(engine)' = Display(engine') /\ Reading(engine)' = Reading(engine')
  /\ Converting(engine)' <=> Converting(engine')
  /\ Vacant(engine)' <=> Vacant(engine')
  /\ Sound(engine, Letters)' <=> Sound(engine', Letters)
  /\ \A i : Credit(engine, i)' = Credit(engine', i)
BY DEF Display, Text, Credit, Preedit, Converting, Vacant, Sound, Letters, Engines,
       RawSound, ConversionSound, Own, Doubled, LoneN, Reading, Spelt, PutBack

(* What is left of the accounts when the keystrokes stay where they are.   *)
LEMMA AccountsStill ==
  ASSUME engine'.strayed = engine.strayed, Display(engine').text = Display(engine).text,
         \A i \in Letters : Credit(engine', i) = Credit(engine, i),
         UNCHANGED <<sent, auto, typed>>
  PROVE  /\ \A x : Accounts(x) => Accounts(x)'
         /\ Twice => Twice'
BY EngineNext DEF Accounts, Twice, Letters

(* What the engine gives up x is to be sent, and nothing else has become   *)
(* of its keystrokes.                                                      *)
LEMMA BalanceAccounts ==
  ASSUME TypeOK, Accounts(<<>>), engine' \in Engines(Letters), NEW news,
         \A i \in Letters : i <= typed' <=> i <= typed \/ i \in news,
         \A i \in news : ~(i <= typed),
         NEW x, Balance(engine, engine', x, news, Letters), UNCHANGED <<sent, auto>>
  PROVE  Accounts(x)'
<1> SUFFICES ASSUME NEW i \in Letters, i \notin engine'.strayed
             PROVE  sent[i] + auto[i] + Credit(engine', i) + Count(x, i)
                      = IF i <= typed' THEN 1 ELSE 0
  BY EngineNext DEF Accounts, Letters
<1>1. /\ i \notin engine.strayed /\ x \in Seq(Letters)
      /\ Count(x, i) + Credit(engine', i)
           = Credit(engine, i) + (IF i \in news THEN 1 ELSE 0)
  BY DEF Balance
<1>2. sent[i] \in Nat /\ auto[i] \in Nat
  BY DEF TypeOK
<1>3. Count(x, i) \in Nat /\ Credit(engine, i) \in Nat /\ Credit(engine', i) \in Nat
  BY <1>1, CountNat, OwnType DEF TypeOK
<1>4. sent[i] + auto[i] + Credit(engine, i) = IF i <= typed THEN 1 ELSE 0
  <2>1. Count(<<>>, i) = 0
    BY CountEmpty
  <2>2. sent[i] + auto[i] + Credit(engine, i) + Count(<<>>, i) = IF i <= typed THEN 1 ELSE 0
    BY <1>1 DEF Accounts
  <2> QED
    BY <1>2, <1>3, <2>1, <2>2
<1>5. CASE i \in news
  BY <1>1, <1>2, <1>3, <1>4, <1>5
<1>6. CASE i \notin news
  BY <1>1, <1>2, <1>3, <1>4, <1>6
<1> QED
  BY <1>5, <1>6

LEMMA StepSetup ==
  ASSUME IInv, OneCall, NEW c \in Calls, NEW op, NextIs(c, op), Advance(c)
  PROVE  /\ todo[c] \in Seq(Steps) /\ todo[c] # <<>> /\ Head(todo[c]) \in Steps
         /\ Tail(todo[c]) \in Seq(Steps) /\ Head(todo[c]).op = op
         /\ \A b \in Calls \ {c} : Idle(b)
         /\ todo' = [todo EXCEPT ![c] = Tail(todo[c])]
         /\ todo' \in [Calls -> Seq(Steps)]
         /\ ~crossed => Fits(todo[c])
         /\ FlagFits(todo[c])
<1>1. todo[c] \in Seq(Steps) /\ todo[c] # <<>> /\ Head(todo[c]).op = op
  BY DEF IInv, TypeOK, NextIs
<1>2. Tail(todo[c]) \in Seq(Steps) /\ Head(todo[c]) \in Steps
  BY <1>1
<1>3. ~Idle(c)
  BY <1>1 DEF Idle
<1>4. todo' = [todo EXCEPT ![c] = Tail(todo[c])]
  BY DEF Advance
<1>5. todo' \in [Calls -> Seq(Steps)]
  BY <1>2, <1>4 DEF IInv, TypeOK
<1> QED
  BY <1>1, <1>2, <1>3, <1>4, <1>5, OthersIdle DEF IInv, Screened, Flagged

(* What a context that leaves does next.                                   *)
LEMMA LeavingTail ==
  ASSUME NEW w, Leaving(w), Head(w).op # "clear"
  PROVE  Leaving(Tail(w)) /\ (Leaves(w) \/ Departs(w))
<1>1. ~Empties(w)
  BY Heads
<1> QED
  BY <1>1 DEF Leaving, Leaves, Departs

(* A step that leaves the engine and the flag alone.                       *)
LEMMA PlainStep ==
  ASSUME IInv, OneCall, NEW c \in Calls, NEW op, op \notin {"flag", "clear"},
         NextIs(c, op), Advance(c), UNCHANGED <<engine, converting, focused, typed>>,
         \A t \in Tasks : task'[t] = task[t] \/ task'[t].pc # "recheck"
  PROVE  Flagged' /\ Guarded' /\ Away' /\ Sound(engine, Letters)'
<1>1. /\ todo[c] \in Seq(Steps) /\ todo[c] # <<>> /\ Head(todo[c]).op = op
      /\ \A b \in Calls \ {c} : Idle(b)
      /\ todo' = [todo EXCEPT ![c] = Tail(todo[c])]
      /\ FlagFits(todo[c])
  BY StepSetup
<1>2. PICK w : w = todo[c]
  OBVIOUS
<1>3. Flagged'
  <2>1. CASE NoFlag(w) /\ (converting <=> Converting(engine))
    <3>1. NoFlag(Tail(w))
      BY <1>1, <1>2, <2>1, NoFlagTail
    <3>2. FlagFits(Tail(w))'
      BY <2>1, <3>1, EngineNext DEF FlagFits
    <3> QED
      BY <1>1, <1>2, <3>2, MovesFlagged DEF IInv
  <2>2. CASE Sets(w)
    <3>1. Head(w).op = "flag"
      BY <2>2, StepOps DEF Sets, First
    <3> QED
      BY <1>1, <1>2, <3>1
  <2>3. CASE Leaving(w)
    <3>1. Leaving(Tail(w))
      BY <1>1, <1>2, <2>3, LeavingTail
    <3>2. FlagFits(Tail(w))'
      BY <3>1 DEF FlagFits, Leaving
    <3> QED
      BY <1>1, <1>2, <3>2, MovesFlagged DEF IInv
  <2> QED
    BY <1>1, <1>2, <2>1, <2>2, <2>3 DEF FlagFits, Leaving
<1>4. Guarded'
  BY DEF IInv, Guarded, At
<1>5. Away'
  <2> SUFFICES ASSUME ~focused', ~Vacant(engine')
               PROVE  \E b \in Calls : Leaving(todo'[b])
    BY EngineNext DEF Away, Leaving
  <2>1. PICK b \in Calls : Leaving(todo[b])
    BY DEF IInv, Away
  <2>2. b = c
    BY <1>1, <2>1, NoStep DEF Idle, Leaving
  <2>3. todo'[c] = Tail(todo[c])
    BY <1>1 DEF IInv, TypeOK
  <2> QED
    BY <1>1, <2>1, <2>2, <2>3, LeavingTail
<1> QED
  BY <1>3, <1>4, <1>5, EngineNext DEF IInv

LEMMA StepUpdateKeeps ==
  ASSUME IInv, OneCall, NEW c \in Calls, StepUpdate(c)
  PROVE  IInv'
<1>1. /\ todo[c] \in Seq(Steps) /\ todo[c] # <<>> /\ Head(todo[c]).op = "update"
      /\ Head(todo[c]) \in Steps
      /\ \A b \in Calls \ {c} : Idle(b)
      /\ todo' = [todo EXCEPT ![c] = Tail(todo[c])]
      /\ todo' \in [Calls -> Seq(Steps)]
      /\ ~crossed => Fits(todo[c])
  BY StepSetup DEF StepUpdate
<1>2. PICK w, v : w = todo[c] /\ v = Tail(w)
  OBVIOUS
<1>3. Flagged' /\ Guarded' /\ Away' /\ Sound(engine, Letters)'
  BY PlainStep DEF StepUpdate
<1>4. PICK d : d = Display(engine)
  OBVIOUS
<1>5. Display(engine)' = d
  BY <1>4, EngineNext DEF StepUpdate
<1>6. client'.shown = Head(w).shown /\ client'.mode = Head(w).mode
  BY <1>2 DEF StepUpdate, IInv, TypeOK
<1>7. \A x : Accounts(x) => Accounts(x)'
  BY AccountsStill DEF StepUpdate
<1>8. ASSUME ~crossed' PROVE Fits(v)'
  <2>1. Fits(w)
    BY <1>1, <1>2, <1>8 DEF StepUpdate
  <2>2. /\ ~Done(w) /\ ~Tables(w, d) /\ ~Closes(w, d) /\ ~Hides(w, d)
        /\ \A x : ~Sends(w, d, x)
        /\ ~Leaves(w) /\ ~Departs(w) /\ ~Empties(w) /\ ~Sets(w)
    <3>1. ~Sets(w)
      BY <1>1, <1>2, StepOps DEF Sets, First
    <3> QED
      BY <1>1, <1>2, <3>1, Heads
  <2>3. PICK x \in Seq(Letters) : Accounts(x) /\ Suits(w, x)
    BY <2>1, <2>2 DEF Fits
  <2>4. CASE Shows(w, d) /\ x = <<>>
    <3>1. Head(w) = Update(d, 1) /\ Tables(v, d)
      BY <1>2, <2>4 DEF Shows, First
    <3>2. client'.shown = d /\ client'.mode = 1
      BY <1>6, <3>1, StepOps
    <3>3. Suits(v, x)'
      BY <1>5, <2>4, <3>1, <3>2 DEF Suits, Inserts
    <3> QED
      BY <1>7, <2>3, <3>3 DEF Fits, Letters
  <2>5. CASE Clears(w, d, x)
    <3>1. Head(w) = Update(Nothing, 0) /\ (Sends(v, d, x) \/ (x = <<>> /\ Hides(v, d)))
      BY <1>2, <2>5 DEF Clears, First
    <3>2. client'.mode = 0
      BY <1>6, <3>1, StepOps
    <3>3. Suits(v, x)'
      BY <1>5, <3>1, <3>2 DEF Suits, Blank
    <3> QED
      BY <1>7, <2>3, <3>3 DEF Fits, Letters
  <2> QED
    BY <1>4, <2>2, <2>3, <2>4, <2>5 DEF Suits
<1>9. Screened'
  BY <1>1, <1>2, <1>8, MovesScreened DEF IInv
<1>10. TypeOK'
  <2>1. Head(w).shown \in Shown /\ Head(w).mode \in {0, 1}
    BY <1>1, <1>2 DEF Steps
  <2>2. client' \in [shown : Shown, mode : {0, 1}, lookup : Nat]
    BY <1>2, <2>1 DEF StepUpdate, IInv, TypeOK
  <2> QED
    BY <1>1, <2>2 DEF StepUpdate, IInv, TypeOK, Letters, Shown, Steps
<1> QED
  BY <1>3, <1>9, <1>10 DEF IInv

LEMMA StepLookupKeeps ==
  ASSUME IInv, OneCall, NEW c \in Calls, StepLookup(c)
  PROVE  IInv'
<1>1. /\ todo[c] \in Seq(Steps) /\ todo[c] # <<>> /\ Head(todo[c]).op = "lookup"
      /\ Head(todo[c]) \in Steps
      /\ \A b \in Calls \ {c} : Idle(b)
      /\ todo' = [todo EXCEPT ![c] = Tail(todo[c])]
      /\ todo' \in [Calls -> Seq(Steps)]
      /\ ~crossed => Fits(todo[c])
  BY StepSetup DEF StepLookup
<1>2. PICK w, v : w = todo[c] /\ v = Tail(w)
  OBVIOUS
<1>3. Flagged' /\ Guarded' /\ Away' /\ Sound(engine, Letters)'
  BY PlainStep DEF StepLookup
<1>4. PICK d : d = Display(engine)
  OBVIOUS
<1>5. Display(engine)' = d
  BY <1>4, EngineNext DEF StepLookup
<1>6. client'.lookup = Head(w).stamp /\ client'.shown = client.shown /\ client'.mode = client.mode
  BY <1>2 DEF StepLookup, IInv, TypeOK
<1>7. /\ \A x : Accounts(x) => Accounts(x)'
      /\ Twice => Twice'
  BY AccountsStill DEF StepLookup
<1>8. ASSUME ~crossed' PROVE Fits(v)'
  <2>1. Fits(w)
    BY <1>1, <1>2, <1>8 DEF StepLookup
  <2>2. /\ ~Done(w) /\ ~Shows(w, d) /\ ~Hides(w, d)
        /\ \A x : ~Sends(w, d, x) /\ ~Clears(w, d, x)
        /\ ~Leaves(w) /\ ~Empties(w) /\ ~Sets(w)
    <3>1. ~Sets(w)
      BY <1>1, <1>2, StepOps DEF Sets, First
    <3> QED
      BY <1>1, <1>2, <3>1, Heads
  <2>3. CASE \E x \in Seq(Letters) : Accounts(x) /\ Suits(w, x)
    <3>1. PICK x \in Seq(Letters) : Accounts(x) /\ Suits(w, x)
      BY <2>3
    <3>2. CASE Tables(w, d) /\ x = <<>> /\ client.shown = d /\ Inserts
      <4>1. Head(w) = Lookup(d.stamp) /\ Done(v)
        BY <1>2, <3>2 DEF Tables, First
      <4>2. client'.shown = d /\ client'.lookup = d.stamp /\ Inserts'
        BY <1>6, <3>2, <4>1, StepOps DEF Inserts
      <4>3. Suits(v, x)'
        BY <1>5, <3>2, <4>1, <4>2 DEF Suits, Current
      <4> QED
        BY <1>7, <3>1, <4>3 DEF Fits, Letters
    <3>3. CASE Closes(w, d) /\ x = <<>>
      <4>1. Shows(v, d)
        BY <1>2, <3>3 DEF Closes
      <4>2. Suits(v, x)'
        BY <1>5, <3>3, <4>1 DEF Suits
      <4> QED
        BY <1>7, <3>1, <4>2 DEF Fits, Letters
    <3> QED
      BY <1>4, <2>2, <3>1, <3>2, <3>3 DEF Suits
  <2>4. CASE Departs(w) /\ Twice /\ client.shown = Nothing
    <3>1. Head(w) = Lookup(0) /\ Empties(v)
      BY <1>2, <2>4 DEF Departs, First
    <3>2. client'.shown = Nothing /\ client'.lookup = 0
      BY <1>6, <2>4, <3>1, StepOps
    <3> QED
      BY <1>7, <2>4, <3>1, <3>2 DEF Fits
  <2> QED
    BY <2>1, <2>2, <2>3, <2>4 DEF Fits
<1>9. Screened'
  BY <1>1, <1>2, <1>8, MovesScreened DEF IInv
<1>10. TypeOK'
  <2>1. Head(w).stamp \in Nat
    BY <1>1, <1>2 DEF Steps
  <2>2. client' \in [shown : Shown, mode : {0, 1}, lookup : Nat]
    BY <1>2, <2>1 DEF StepLookup, IInv, TypeOK
  <2> QED
    BY <1>1, <2>2 DEF StepLookup, IInv, TypeOK, Letters, Shown, Steps
<1> QED
  BY <1>3, <1>9, <1>10 DEF IInv

LEMMA StepCommitKeeps ==
  ASSUME IInv, OneCall, NEW c \in Calls, StepCommit(c)
  PROVE  IInv'
<1>1. /\ todo[c] \in Seq(Steps) /\ todo[c] # <<>> /\ Head(todo[c]).op = "commit"
      /\ Head(todo[c]) \in Steps
      /\ \A b \in Calls \ {c} : Idle(b)
      /\ todo' = [todo EXCEPT ![c] = Tail(todo[c])]
      /\ todo' \in [Calls -> Seq(Steps)]
      /\ ~crossed => Fits(todo[c])
  BY StepSetup DEF StepCommit
<1>2. PICK w, v : w = todo[c] /\ v = Tail(w)
  OBVIOUS
<1>3. Flagged' /\ Guarded' /\ Away' /\ Sound(engine, Letters)'
  BY PlainStep DEF StepCommit
<1>4. PICK d : d = Display(engine)
  OBVIOUS
<1>5. Display(engine)' = d
  BY <1>4, EngineNext DEF StepCommit
<1>6. sent' = Counted(sent, Head(w).text) /\ sent \in [Letters -> Nat] /\ auto \in [Letters -> Nat]
  BY <1>2 DEF StepCommit, IInv, TypeOK
<1>7. ASSUME ~crossed' PROVE Fits(v)'
  <2>1. Fits(w)
    BY <1>1, <1>2, <1>7 DEF StepCommit
  <2>2. /\ ~Done(w) /\ ~Tables(w, d) /\ ~Shows(w, d) /\ ~Closes(w, d) /\ ~Hides(w, d)
        /\ \A x : ~Clears(w, d, x)
        /\ ~Leaves(w) /\ ~Departs(w) /\ ~Empties(w) /\ ~Sets(w)
    <3>1. ~Sets(w)
      BY <1>1, <1>2, StepOps DEF Sets, First
    <3> QED
      BY <1>1, <1>2, <3>1, Heads
  <2>3. PICK x \in Seq(Letters) : Accounts(x) /\ Suits(w, x)
    BY <2>1, <2>2 DEF Fits
  <2>4. Sends(w, d, x) /\ Blank
    BY <1>4, <2>2, <2>3 DEF Suits
  <2>5. Head(w) = CommitText(x) /\ (Closes(v, d) \/ Hides(v, d))
    BY <1>2, <2>4 DEF Sends, First
  <2>6. sent' = Counted(sent, x)
    BY <1>6, <2>5, StepOps
  <2>7. Accounts(<<>>)'
    <3> SUFFICES ASSUME NEW i \in Letters, i \notin engine.strayed
                 PROVE  sent'[i] + auto[i] + Credit(engine, i) + Count(<<>>, i)
                          = IF i <= typed THEN 1 ELSE 0
      BY EngineNext DEF Accounts, Letters, StepCommit
    <3>1. sent'[i] = sent[i] + Count(x, i) /\ Count(x, i) \in Nat
      <4>1. x \in Seq(Letters) /\ sent \in [Letters -> Nat]
        BY <1>6, <2>3
      <4>2. Counted(sent, x)[i] = sent[i] + Count(x, i)
        BY <4>1, CountedType
      <4> QED
        BY <2>6, <4>1, <4>2, CountNat
    <3>2. Count(<<>>, i) = 0
      BY CountEmpty
    <3>3. sent[i] + auto[i] + Credit(engine, i) + Count(x, i) = IF i <= typed THEN 1 ELSE 0
      BY <2>3 DEF Accounts
    <3>4. sent[i] \in Nat /\ auto[i] \in Nat /\ Credit(engine, i) \in Nat
      BY <1>6, OwnType DEF IInv, TypeOK
    <3> QED
      BY <3>1, <3>2, <3>3, <3>4
  <2>8. Suits(v, <<>>)'
    BY <1>5, <2>4, <2>5 DEF Suits, Blank, StepCommit
  <2> QED
    BY <2>7, <2>8, FitsSent
<1>8. Screened'
  BY <1>1, <1>2, <1>7, MovesScreened DEF IInv
<1>9. TypeOK'
  <2>1. Head(w).text \in Seq(Letters)
    BY <1>1, <1>2 DEF Steps
  <2>2. sent' \in [Letters -> Nat]
    BY <1>6, <2>1, CountedType
  <2> QED
    BY <1>1, <2>2 DEF StepCommit, IInv, TypeOK, Letters, Shown, Steps
<1> QED
  BY <1>3, <1>8, <1>9 DEF IInv

LEMMA StepHideKeeps ==
  ASSUME IInv, OneCall, NEW c \in Calls, StepHide(c)
  PROVE  IInv'
<1>1. /\ todo[c] \in Seq(Steps) /\ todo[c] # <<>> /\ Head(todo[c]).op = "hide"
      /\ Head(todo[c]) \in Steps
      /\ \A b \in Calls \ {c} : Idle(b)
      /\ todo' = [todo EXCEPT ![c] = Tail(todo[c])]
      /\ todo' \in [Calls -> Seq(Steps)]
      /\ ~crossed => Fits(todo[c])
  BY StepSetup DEF StepHide
<1>2. PICK w, v : w = todo[c] /\ v = Tail(w)
  OBVIOUS
<1>3. Flagged' /\ Guarded' /\ Away' /\ Sound(engine, Letters)'
  BY PlainStep DEF StepHide
<1>4. PICK d : d = Display(engine)
  OBVIOUS
<1>5. Display(engine)' = d
  BY <1>4, EngineNext DEF StepHide
<1>6. /\ client'.shown = Nothing /\ client'.mode = client.mode /\ client'.lookup = client.lookup
      /\ sent \in [Letters -> Nat] /\ auto \in [Letters -> Nat]
      /\ client.mode \in {0, 1}
  BY DEF StepHide, IInv, TypeOK
<1>7. PICK text \in Seq(Letters) : text = IF client.mode = 1 THEN client.shown.text ELSE <<>>
  <2>1. client.shown.text \in Seq(Letters) /\ <<>> \in Seq(Letters)
    BY DEF IInv, TypeOK, Shown
  <2> QED
    BY <2>1
<1>8. auto' = Counted(auto, text)
  BY <1>6, <1>7, CountedNothing DEF StepHide
<1>9. \A i \in Letters : /\ auto'[i] = auto[i] + Count(text, i) /\ Count(text, i) \in Nat
                         /\ sent[i] \in Nat /\ auto[i] \in Nat /\ Credit(engine, i) \in Nat
  BY <1>6, <1>8, CountedType, CountNat, OwnType DEF IInv, TypeOK
<1>10. ASSUME ~crossed' PROVE Fits(v)'
  <2>1. Fits(w)
    BY <1>1, <1>2, <1>10 DEF StepHide
  <2>2. /\ ~Done(w) /\ ~Tables(w, d) /\ ~Shows(w, d) /\ ~Closes(w, d)
        /\ \A x : ~Sends(w, d, x) /\ ~Clears(w, d, x)
        /\ ~Departs(w) /\ ~Empties(w) /\ ~Sets(w)
    <3>1. ~Sets(w)
      BY <1>1, <1>2, StepOps DEF Sets, First
    <3> QED
      BY <1>1, <1>2, <3>1, Heads
  <2>3. CASE \E x \in Seq(Letters) : Accounts(x) /\ Suits(w, x)
    <3>1. PICK x \in Seq(Letters) : Accounts(x) /\ Suits(w, x)
      BY <2>3
    <3>2. Hides(w, d) /\ x = <<>> /\ Blank
      BY <1>4, <2>2, <3>1 DEF Suits
    <3>3. Tables(v, d) /\ d = Nothing /\ text = <<>>
      BY <1>2, <1>7, <3>2 DEF Hides, Blank
    <3>4. Accounts(<<>>)'
      <4>1. \A i \in Letters : Count(<<>>, i) = 0
        BY CountEmpty
      <4>2. auto' = auto
        BY <1>6, <1>8, <3>3, CountedNothing
      <4> QED
        BY <3>1, <3>2, <4>2, AccountsStill DEF StepHide
    <3>5. Inserts'
      BY <1>6, StepTypes DEF Inserts
    <3>6. Suits(v, <<>>)'
      BY <1>5, <1>6, <3>3, <3>5 DEF Suits
    <3> QED
      BY <3>4, <3>6, FitsSent
  <2>4. CASE Leaves(w) /\ Accounts(<<>>) /\ Current
    <3>1. Departs(v)
      BY <1>2, <2>4 DEF Leaves
    <3>2. text = d.text
      BY <1>4, <1>7, <2>4 DEF Current, Inserts
    <3>3. Twice'
      <4> SUFFICES ASSUME NEW i \in Letters, i \notin engine.strayed
                   PROVE  sent[i] + auto'[i] + Credit(engine, i)
                            = (IF i <= typed THEN 1 ELSE 0) + Count(d.text, i)
        BY <1>5, EngineNext DEF Twice, Letters, StepHide
      <4>1. Count(<<>>, i) = 0
        BY CountEmpty
      <4>2. sent[i] + auto[i] + Credit(engine, i) + Count(<<>>, i) = (IF i <= typed THEN 1 ELSE 0)
        BY <2>4 DEF Accounts
      <4> QED
        BY <1>9, <3>2, <4>1, <4>2
    <3> QED
      BY <1>6, <3>1, <3>3 DEF Fits
  <2> QED
    BY <2>1, <2>2, <2>3, <2>4 DEF Fits
<1>11. Screened'
  BY <1>1, <1>2, <1>10, MovesScreened DEF IInv
<1>12. TypeOK'
  <2>1. client' \in [shown : Shown, mode : {0, 1}, lookup : Nat]
    BY StepTypes DEF StepHide, IInv, TypeOK
  <2>2. auto' \in [Letters -> Nat]
    BY <1>6, <1>8, CountedType
  <2> QED
    BY <1>1, <2>1, <2>2 DEF StepHide, IInv, TypeOK, Letters, Shown, Steps
<1> QED
  BY <1>3, <1>11, <1>12 DEF IInv

LEMMA StepFlagKeeps ==
  ASSUME IInv, OneCall, NEW c \in Calls, StepFlag(c)
  PROVE  IInv'
<1>1. /\ todo[c] \in Seq(Steps) /\ todo[c] # <<>> /\ Head(todo[c]).op = "flag"
      /\ Head(todo[c]) \in Steps
      /\ \A b \in Calls \ {c} : Idle(b)
      /\ todo' = [todo EXCEPT ![c] = Tail(todo[c])]
      /\ todo' \in [Calls -> Seq(Steps)]
      /\ ~crossed => Fits(todo[c])
      /\ FlagFits(todo[c])
  BY StepSetup DEF StepFlag
<1>2. PICK w, v : w = todo[c] /\ v = Tail(w)
  OBVIOUS
<1>3. PICK d : d = Display(engine)
  OBVIOUS
<1>4. Display(engine)' = d /\ (Converting(engine)' <=> Converting(engine))
  BY <1>3, EngineNext DEF StepFlag
<1>5. /\ ~Done(w) /\ ~Tables(w, d) /\ ~Shows(w, d) /\ ~Closes(w, d) /\ ~Hides(w, d)
      /\ \A x : ~Sends(w, d, x) /\ ~Clears(w, d, x)
      /\ ~Leaves(w) /\ ~Departs(w) /\ ~Empties(w) /\ ~NoFlag(w)
  BY <1>1, <1>2, Heads, NoFlagTail
<1>6. Sets(w) /\ NoFlag(v)
  BY <1>1, <1>2, <1>5 DEF FlagFits
<1>7. converting' <=> Converting(engine)
  BY <1>2, <1>6, StepOps DEF StepFlag, Sets, First
<1>8. ASSUME ~crossed' PROVE Fits(v)'
  <2>1. Fits(w)
    BY <1>1, <1>2, <1>8 DEF StepFlag
  <2>2. PICK x \in Seq(Letters) : Accounts(x) /\ Suits(v, x)
    BY <1>2, <1>3, <1>5, <2>1 DEF Fits, Suits
  <2>3. Accounts(x)'
    BY <2>2, AccountsStill DEF StepFlag
  <2>4. Current => Current'
    <3>1. ASSUME NEW t \in Tasks, Coming(t) PROVE Coming(t)'
      BY <1>3, <1>4, <1>7, <3>1 DEF StepFlag, Coming, At
    <3> QED
      BY <1>3, <1>4, <3>1 DEF StepFlag, Current, Inserts
  <2>5. Suits(v, x)'
    BY <1>3, <1>4, <2>2, <2>4 DEF StepFlag, Suits, Blank, Inserts
  <2> QED
    BY <2>3, <2>5 DEF Fits, Letters
<1>9. Screened'
  BY <1>1, <1>2, <1>8, MovesScreened DEF IInv
<1>10. Flagged'
  <2>1. FlagFits(v)'
    BY <1>4, <1>6, <1>7 DEF FlagFits
  <2> QED
    BY <1>1, <1>2, <2>1, MovesFlagged DEF IInv
<1>11. Guarded' /\ Sound(engine, Letters)'
  BY EngineNext DEF StepFlag, IInv, Guarded, At
<1>12. Away'
  <2>1. ASSUME NEW b \in Calls, Leaving(todo[b]) PROVE FALSE
    BY <1>1, <1>2, <1>5, <2>1, NoStep DEF Idle, Leaving
  <2> QED
    BY <2>1, EngineNext DEF StepFlag, IInv, Away
<1>13. TypeOK'
  <2>1. converting' \in BOOLEAN
    BY <1>2, <1>6, StepOps DEF StepFlag, Sets, First
  <2> QED
    BY <1>1, <2>1 DEF StepFlag, IInv, TypeOK, Letters, Shown, Steps
<1> QED
  BY <1>9, <1>10, <1>11, <1>12, <1>13 DEF IInv

(* Clearing the engine: what the application was given of it is gone from  *)
(* it, and the rest is astray.                                             *)
LEMMA StepClearKeeps ==
  ASSUME IInv, OneCall, NEW c \in Calls, StepClear(c)
  PROVE  IInv'
<1>1. /\ todo[c] \in Seq(Steps) /\ todo[c] # <<>> /\ Head(todo[c]).op = "clear"
      /\ Head(todo[c]) \in Steps
      /\ \A b \in Calls \ {c} : Idle(b)
      /\ todo' = [todo EXCEPT ![c] = Tail(todo[c])]
      /\ todo' \in [Calls -> Seq(Steps)]
      /\ ~crossed => Fits(todo[c])
      /\ FlagFits(todo[c])
  BY StepSetup DEF StepClear
<1>2. PICK w, v : w = todo[c] /\ v = Tail(w)
  OBVIOUS
<1>3. /\ AtRest(engine', Letters) /\ Vacant(engine')
      /\ engine'.generation = engine.generation + 1
      /\ Balance(engine, engine', Display(engine).text, {}, Letters)
  <2>1. PICK n : n = Unfocused(engine)
    OBVIOUS
  <2>2. /\ AtRest(n, Letters) /\ Preedit(n) = <<>> /\ n.generation = engine.generation + 1
        /\ Balance(engine, n, Display(engine).text, {}, Letters)
    BY <2>1, UnfocusedFine DEF IInv
  <2>3. engine' = n
    BY <2>1 DEF StepClear
  <2> QED
    BY <2>2, <2>3 DEF Vacant, AtRest
<1>4. ~Converting(engine)' /\ Vacant(engine)' /\ Sound(engine, Letters)'
  BY <1>3, EngineNext DEF AtRest
<1>5. Display(engine)' = Nothing
  <2>1. ~Converting(engine') /\ Preedit(engine') = <<>>
    BY <1>3 DEF Vacant
  <2> QED
    BY <2>1, EngineNext DEF Display, Nothing
<1>6. PICK d : d = Display(engine)
  OBVIOUS
<1>7. /\ ~Done(w) /\ ~Tables(w, d) /\ ~Shows(w, d) /\ ~Closes(w, d) /\ ~Hides(w, d)
      /\ \A x : ~Sends(w, d, x) /\ ~Clears(w, d, x)
      /\ ~Leaves(w) /\ ~Departs(w) /\ ~Sets(w) /\ ~NoFlag(w)
  <2>1. ~Sets(w)
    BY <1>1, <1>2, StepOps DEF Sets, First
  <2> QED
    BY <1>1, <1>2, <2>1, Heads, NoFlagTail
<1>8. Empties(w) /\ v = <<SetFlag(FALSE)>>
  BY <1>1, <1>2, <1>7 DEF FlagFits, Empties
<1>9. First(v, SetFlag(FALSE)) /\ Tail(v) = <<>>
  BY <1>8 DEF First
<1>10. Sets(v)'
  BY <1>4, <1>9 DEF Sets
<1>11. ASSUME ~crossed' PROVE Fits(v)'
  <2>1. Twice /\ client.shown = Nothing /\ client.lookup = 0
    BY <1>1, <1>2, <1>6, <1>7, <1>11 DEF StepClear, Fits, Suits
  <2>2. Accounts(<<>>)'
    <3> SUFFICES ASSUME NEW i \in Letters, i \notin engine'.strayed
                 PROVE  sent[i] + auto[i] + Credit(engine', i) + Count(<<>>, i)
                          = IF i <= typed THEN 1 ELSE 0
      BY EngineNext DEF Accounts, Letters, StepClear
    <3>1. /\ i \notin engine.strayed /\ d.text \in Seq(Letters)
          /\ Count(d.text, i) + Credit(engine', i) = Credit(engine, i)
      <4>1. /\ i \notin engine.strayed /\ d.text \in Seq(Letters)
            /\ Count(d.text, i) + Credit(engine', i)
                 = Credit(engine, i) + (IF i \in {} THEN 1 ELSE 0)
        BY <1>3, <1>6 DEF Balance
      <4>2. Credit(engine, i) \in Nat
        BY OwnType DEF IInv, TypeOK
      <4> QED
        BY <4>1, <4>2
    <3>2. sent[i] + auto[i] + Credit(engine, i) = (IF i <= typed THEN 1 ELSE 0) + Count(d.text, i)
      BY <1>6, <2>1, <3>1 DEF Twice
    <3>3. /\ sent[i] \in Nat /\ auto[i] \in Nat /\ Count(d.text, i) \in Nat
          /\ Credit(engine, i) \in Nat /\ Credit(engine', i) \in Nat
      BY <1>3, <3>1, CountNat, OwnType DEF IInv, TypeOK, AtRest, Sound
    <3>4. Count(<<>>, i) = 0
      BY CountEmpty
    <3> QED
      BY <3>1, <3>2, <3>3, <3>4
  <2>3. Suits(<<>>, <<>>)'
    <3>1. Current'
      BY <1>5, <2>1, StepTypes DEF StepClear, Current, Inserts
    <3> QED
      BY <3>1 DEF Suits, Done
  <2> QED
    BY <1>9, <1>10, <2>2, <2>3, FitsSent
<1>12. Screened'
  BY <1>1, <1>2, <1>11, MovesScreened DEF IInv
<1>13. Flagged'
  <2>1. FlagFits(v)'
    BY <1>9, <1>10, NoFlagNone DEF FlagFits
  <2> QED
    BY <1>1, <1>2, <2>1, MovesFlagged DEF IInv
<1>14. Guarded'
  <2>1. engine.generation \in Nat
    BY DEF IInv, TypeOK, Engines
  <2>2. ASSUME NEW t \in Tasks, At(t, "recheck")'
        PROVE  task[t].generation \in Nat /\ task[t].generation <= engine.generation
    BY <2>2 DEF StepClear, IInv, Guarded, At, TypeOK
  <2> QED
    BY <1>3, <2>1, <2>2 DEF StepClear, Guarded
<1>15. Away'
  BY <1>4 DEF Away
<1>16. TypeOK'
  <2>1. engine' \in Engines(Letters)
    BY <1>3 DEF AtRest, Sound
  <2> QED
    BY <1>1, <2>1 DEF StepClear, IInv, TypeOK, Letters, Shown, Steps, Engines, Conversions
<1> QED
  BY <1>4, <1>12, <1>13, <1>14, <1>15, <1>16 DEF IInv

LEMMA StepSpawnKeeps ==
  ASSUME IInv, OneCall, NEW c \in Calls, StepSpawn(c)
  PROVE  IInv'
<1>1. /\ todo[c] \in Seq(Steps) /\ todo[c] # <<>> /\ Head(todo[c]).op = "spawn"
      /\ Head(todo[c]) \in Steps
      /\ \A b \in Calls \ {c} : Idle(b)
      /\ todo' = [todo EXCEPT ![c] = Tail(todo[c])]
      /\ todo' \in [Calls -> Seq(Steps)]
      /\ ~crossed => Fits(todo[c])
  BY StepSetup DEF StepSpawn
<1>2. PICK w, v : w = todo[c] /\ v = Tail(w)
  OBVIOUS
<1>3. PICK s \in Tasks : /\ task[s].pc = "none"
                         /\ task' = [task EXCEPT ![s] = [NoTask EXCEPT !.pc = "poll"]]
  BY DEF StepSpawn
<1>4. /\ task'[s].pc = "poll" /\ task'[s].polls = 0 /\ task'[s].shown = Nothing
      /\ task'[s].generation = 0
      /\ \A t \in Tasks \ {s} : task'[t] = task[t]
      /\ task'[s] = [NoTask EXCEPT !.pc = "poll"]
  BY <1>3 DEF IInv, TypeOK, NoTask
<1>5. Flagged' /\ Guarded' /\ Away' /\ Sound(engine, Letters)'
  <2>1. \A t \in Tasks : task'[t] = task[t] \/ task'[t].pc # "recheck"
    BY <1>4
  <2> QED
    BY <2>1, PlainStep DEF StepSpawn
<1>6. PICK d : d = Display(engine)
  OBVIOUS
<1>7. Display(engine)' = d /\ (Converting(engine)' <=> Converting(engine))
  BY <1>6, EngineNext DEF StepSpawn
<1>8. ASSUME ~crossed' PROVE Fits(v)'
  <2>1. Fits(w)
    BY <1>1, <1>2, <1>8 DEF StepSpawn
  <2>2. /\ ~Tables(w, d) /\ ~Shows(w, d) /\ ~Closes(w, d) /\ ~Hides(w, d)
        /\ \A x : ~Sends(w, d, x) /\ ~Clears(w, d, x)
        /\ ~Leaves(w) /\ ~Departs(w) /\ ~Empties(w) /\ ~Sets(w)
    <3>1. ~Sets(w)
      BY <1>1, <1>2, StepOps DEF Sets, First
    <3> QED
      BY <1>1, <1>2, <3>1, Heads
  <2>3. PICK x \in Seq(Letters) : Accounts(x) /\ Suits(w, x)
    BY <2>1, <2>2 DEF Fits
  <2>4. Done(w) /\ x = <<>> /\ Current
    BY <1>6, <2>2, <2>3 DEF Suits
  <2>5. v = <<>>
    BY <1>1, <1>2, <2>4, Heads
  <2>6. Accounts(x)'
    BY <2>3, AccountsStill DEF StepSpawn
  <2>7. Current'
    <3>1. ASSUME NEW t \in Tasks, Coming(t) PROVE Coming(t)'
      <4>1. t # s
        BY <1>3, <3>1 DEF Coming, At
      <4> QED
        BY <1>4, <1>6, <1>7, <3>1, <4>1 DEF StepSpawn, Coming, At
    <3> QED
      BY <1>6, <1>7, <2>4, <3>1 DEF StepSpawn, Current, Inserts
  <2> QED
    BY <2>4, <2>5, <2>6, <2>7 DEF Fits, Suits, Done, Letters
<1>9. Screened'
  BY <1>1, <1>2, <1>8, MovesScreened DEF IInv
<1>10. TypeOK'
  <2>1. 0 \in 0 .. MaxPolls
    BY BoundsAssumption
  <2>2. [NoTask EXCEPT !.pc = "poll"] = [pc |-> "poll", polls |-> 0, shown |-> Nothing, generation |-> 0]
    BY DEF NoTask
  <2>3. task' \in [Tasks -> [pc : {"none", "poll", "check", "apply", "recheck", "emit", "table"},
                             polls : 0 .. MaxPolls, shown : Shown, generation : Nat]]
    BY <1>3, <2>1, <2>2, StepTypes DEF IInv, TypeOK
  <2> QED
    BY <1>1, <2>3 DEF StepSpawn, IInv, TypeOK, Letters, Shown, Steps
<1> QED
  BY <1>5, <1>9, <1>10 DEF IInv

-----------------------------------------------------------------------------
(* The start of a call keeps the invariant                                 *)

LEMMA BeginSetup ==
  ASSUME IInv, Waits, NEW c \in Calls, NEW w, Begin(c, w)
  PROVE  /\ AllIdle /\ \A b \in Calls \ {c} : Idle(b)
         /\ todo' = [todo EXCEPT ![c] = w] /\ todo'[c] = w
         /\ w \in Seq(Steps) => todo' \in [Calls -> Seq(Steps)]
         /\ events' \in 0 .. MaxEvents
         /\ ~crossed => Current /\ Accounts(<<>>)
         /\ converting <=> Converting(engine)
         /\ ~focused => Vacant(engine)
<1>1. todo' = [todo EXCEPT ![c] = w] /\ events' = events + 1 /\ events < MaxEvents
  BY DEF Begin
<1>2. events \in Nat /\ MaxEvents \in Nat
  BY BoundsAssumption DEF IInv, TypeOK
<1>3. AllIdle
  BY <1>1, <1>2 DEF Waits
<1>4. todo'[c] = w /\ (w \in Seq(Steps) => todo' \in [Calls -> Seq(Steps)])
  BY <1>1 DEF IInv, TypeOK
<1>5. ~focused => Vacant(engine)
  BY <1>3, NoStep DEF IInv, Away, Leaving, AllIdle, Idle
<1> QED
  BY <1>1, <1>2, <1>3, <1>4, <1>5 DEF IInv, Screened, Flagged, AllIdle

(* Later engines let no more snapshots pass the guard.                     *)
LEMMA LaterGuarded ==
  ASSUME IInv, engine' \in Engines(Letters), Later(engine, engine'), task' = task
  PROVE  Guarded'
<1> SUFFICES ASSUME NEW t \in Tasks, At(t, "recheck")
             PROVE  /\ task[t].generation <= engine'.generation
                    /\ task[t].generation = engine'.generation =>
                         Converting(engine') /\ task[t].shown.text \in {Reading(engine'), engine'.raw}
  BY EngineNext DEF Guarded, At
<1>1. engine.generation \in Nat /\ engine'.generation \in Nat /\ task[t].generation \in Nat
  BY DEF IInv, TypeOK, Engines
<1>2. task[t].generation <= engine.generation /\ engine.generation <= engine'.generation
  BY DEF IInv, Guarded, Later
<1>3. ASSUME task[t].generation = engine'.generation
      PROVE  Converting(engine') /\ task[t].shown.text \in {Reading(engine'), engine'.raw}
  <2>1. task[t].generation = engine.generation /\ engine'.generation = engine.generation
    BY <1>1, <1>2, <1>3
  <2>2. Converting(engine) /\ task[t].shown.text \in {Reading(engine), engine.raw}
    BY <2>1 DEF IInv, Guarded
  <2>3. Converting(engine') /\ Reading(engine') = Reading(engine) /\ engine'.raw = engine.raw
    BY <2>1, <2>2 DEF Later, Reading
  <2> QED
    BY <2>2, <2>3
<1> QED
  BY <1>1, <1>2, <1>3

LEMMA ProcessKeyEventKeeps ==
  ASSUME IInv, Waits, NEW c \in Calls, ProcessKeyEvent(c)
  PROVE  IInv' /\ OneCall'
<1>0. PICK key \in KeyKinds :
        /\ focused
        /\ key \in TypingKinds => typed < MaxLetters
        /\ typed' = IF key \in TypingKinds THEN typed + 1 ELSE typed
        /\ \E r \in DispatchKey(engine, converting, key, typed + 1) :
             /\ engine' = r.engine
             /\ Begin(c, <<SetFlag(r.flag)>> \o ApplyOutcome(r.outcome, r.engine))
  BY DEF ProcessKeyEvent
<1>1. PICK r \in DispatchKey(engine, converting, key, typed + 1) :
        /\ focused
        /\ key \in TypingKinds => typed < MaxLetters
        /\ typed' = IF key \in TypingKinds THEN typed + 1 ELSE typed
        /\ engine' = r.engine
        /\ Begin(c, <<SetFlag(r.flag)>> \o ApplyOutcome(r.outcome, r.engine))
  BY <1>0
<1>2. UNCHANGED <<converting, client, focused, task, sent, auto, crossed>>
  BY DEF ProcessKeyEvent
<1>3. /\ typed \in Nat /\ typed <= MaxLetters /\ typed' \in 0 .. MaxLetters
      /\ key \in TypingKinds => typed + 1 \in Letters
  <2>1. typed \in Nat /\ typed <= MaxLetters /\ MaxLetters \in Nat
    BY BoundsAssumption DEF IInv, TypeOK
  <2> QED
    BY <1>1, <2>1 DEF Letters
<1>4. PICK news : news = IF key \in TypingKinds THEN {typed + 1} ELSE {}
  OBVIOUS
<1>5. /\ \A i \in Letters : i <= typed' <=> i <= typed \/ i \in news
      /\ \A i \in news : ~(i <= typed)
  BY <1>1, <1>3, <1>4 DEF Letters
<1>6. PICK o, sig, w : /\ o = r.outcome /\ sig = ApplyOutcome(r.outcome, r.engine)
                       /\ w = <<SetFlag(r.flag)>> \o sig
  OBVIOUS
<1>7. /\ AllIdle /\ \A b \in Calls \ {c} : Idle(b)
      /\ todo' = [todo EXCEPT ![c] = w] /\ todo'[c] = w
      /\ w \in Seq(Steps) => todo' \in [Calls -> Seq(Steps)]
      /\ events' \in 0 .. MaxEvents
      /\ ~crossed => Current /\ Accounts(<<>>)
      /\ converting <=> Converting(engine)
  BY <1>1, <1>6, BeginSetup
<1>8. converting \in BOOLEAN /\ Sound(engine, Letters)
  BY DEF IInv, TypeOK
<1>9. Fine(engine, news, r, Letters) /\ Tells(engine, r) /\ Later(engine, engine')
  BY <1>1, <1>3, <1>4, <1>7, <1>8, LettersNat, DispatchFine, DispatchTells, DispatchLater
<1>10. o.commit \in Seq(Letters) /\ Sound(r.engine, Letters)
  BY <1>6, <1>9 DEF Fine, Balance
<1>11. sig \in Seq(Steps) /\ NoFlag(sig) /\ Signals(sig, r.engine, o)
  BY <1>6, <1>9, <1>10, OutcomeSignals
<1>12. w \in Seq(Steps) /\ First(w, SetFlag(r.flag)) /\ Tail(w) = sig
  <2>1. SetFlag(r.flag) \in Steps
    BY <1>9, StepTypes DEF Fine
  <2> QED
    BY <1>6, <1>11, <2>1, ConsFirst
<1>13. Sets(w)'
  BY <1>1, <1>9, <1>12, EngineNext DEF Sets, Fine
<1>14. ASSUME ~crossed' PROVE Fits(w)'
  <2>1. Current /\ Accounts(<<>>)
    BY <1>2, <1>7, <1>14
  <2>2. Accounts(o.commit)'
    BY <1>1, <1>2, <1>5, <1>6, <1>9, <1>10, <2>1, BalanceAccounts DEF Fine, IInv, Sound
  <2>3. PICK d : d = Display(engine')
    OBVIOUS
  <2>4. Display(engine)' = d
    BY <2>3, EngineNext
  <2>5. Suits(sig, o.commit)'
    <3>1. CASE sig = <<>> /\ o.commit = <<>> /\ o.display = "unchanged"
      <4>1. engine' = engine
        BY <1>1, <1>6, <1>9, <3>1 DEF Tells
      <4>2. Current'
        BY <1>2, <2>1, <4>1, EngineNext DEF Current, Coming, At, Inserts
      <4> QED
        BY <3>1, <4>2 DEF Suits, Done
    <3>2. CASE Shows(sig, d) /\ o.commit = <<>>
      BY <2>4, <3>2 DEF Suits
    <3>3. CASE Clears(sig, d, o.commit)
      BY <2>4, <3>3 DEF Suits
    <3> QED
      BY <1>1, <1>11, <2>3, <3>1, <3>2, <3>3 DEF Signals
  <2> QED
    BY <1>10, <1>12, <1>13, <2>2, <2>5 DEF Fits, Letters
<1>15. Screened'
  BY <1>7, <1>14, MovesScreened DEF IInv
<1>16. Flagged'
  <2>1. FlagFits(w)'
    BY <1>11, <1>12, <1>13 DEF FlagFits
  <2> QED
    BY <1>7, <2>1, MovesFlagged DEF IInv
<1>17. Guarded'
  BY <1>1, <1>2, <1>9, <1>10, LaterGuarded DEF Sound
<1>18. Away' /\ Sound(engine, Letters)'
  BY <1>1, <1>2, <1>10, EngineNext DEF Away
<1>19. OneCall'
  BY <1>7, MovesAlone DEF IInv
<1>20. TypeOK'
  <2>1. engine' \in Engines(Letters)
    BY <1>1, <1>10 DEF Sound
  <2> QED
    BY <1>2, <1>3, <1>7, <1>12, <2>1
       DEF IInv, TypeOK, Letters, Shown, Steps, Engines, Conversions
<1> QED
  BY <1>15, <1>16, <1>17, <1>18, <1>19, <1>20 DEF IInv

(* Coming into focus finds an empty engine and a blank screen.             *)
LEMMA FocusInKeeps ==
  ASSUME IInv, Waits, NEW c \in Calls, FocusIn(c)
  PROVE  IInv' /\ OneCall'
<1>1. /\ AllIdle /\ \A b \in Calls \ {c} : Idle(b)
      /\ todo' = [todo EXCEPT ![c] = HideAll] /\ todo'[c] = HideAll
      /\ HideAll \in Seq(Steps) => todo' \in [Calls -> Seq(Steps)]
      /\ events' \in 0 .. MaxEvents
      /\ ~crossed => Current /\ Accounts(<<>>)
      /\ converting <=> Converting(engine)
      /\ Vacant(engine)
  BY BeginSetup DEF FocusIn
<1>2. UNCHANGED <<engine, converting, client, task, sent, auto, typed, crossed>> /\ focused'
  BY DEF FocusIn
<1>3. Display(engine) = Nothing
  BY <1>1 DEF Vacant, Display, Nothing
<1>4. PICK d \in Shown : d = Nothing
  BY StepTypes
<1>5. HideAll \in Seq(Steps) /\ Hides(HideAll, d) /\ NoFlag(HideAll)
  BY <1>4, HidesOf
<1>6. Display(engine)' = d
  BY <1>2, <1>3, <1>4, EngineNext
<1>7. ASSUME ~crossed' PROVE Fits(HideAll)'
  <2>1. Current /\ Accounts(<<>>)
    BY <1>1, <1>2, <1>7
  <2>2. Accounts(<<>>)'
    BY <1>2, <2>1, AccountsStill
  <2>3. Blank'
    BY <1>2, <1>3, <2>1, StepTypes DEF Current, Blank
  <2>4. Suits(HideAll, <<>>)'
    BY <1>5, <1>6, <2>3 DEF Suits
  <2> QED
    BY <2>2, <2>4, FitsSent
<1>8. Screened'
  BY <1>1, <1>7, MovesScreened DEF IInv
<1>9. Flagged'
  <2>1. FlagFits(HideAll)'
    BY <1>1, <1>2, <1>5, EngineNext DEF FlagFits
  <2> QED
    BY <1>1, <2>1, MovesFlagged DEF IInv
<1>10. Guarded' /\ Away' /\ Sound(engine, Letters)'
  BY <1>2, EngineNext DEF IInv, Guarded, At, Away
<1>11. OneCall'
  BY <1>1, MovesAlone DEF IInv
<1>12. TypeOK'
  BY <1>1, <1>2, <1>5 DEF IInv, TypeOK, Letters, Shown, Steps
<1> QED
  BY <1>8, <1>9, <1>10, <1>11, <1>12 DEF IInv

LEMMA LeavesOf ==
  ASSUME NEW w, w = HideAll \o <<Clear, SetFlag(FALSE)>>
  PROVE  w \in Seq(Steps) /\ Leaves(w)
<1>1. PICK down \in Steps : down = SetFlag(FALSE)
  <2>1. SetFlag(FALSE) \in Steps
    BY StepTypes
  <2> QED
    BY <2>1
<1>2. PICK s : s = <<Clear, down>>
  OBVIOUS
<1>3. Clear \in Steps /\ s \in Seq(Steps)
  BY <1>2, StepTypes
<1>4. s # <<>> /\ Head(s) = Clear /\ Tail(s) = <<down>>
  BY <1>2
<1>5. First(s, Clear) /\ Tail(s) = <<SetFlag(FALSE)>>
  BY <1>1, <1>4 DEF First
<1>6. PICK u : u = <<Lookup(0)>> \o s
  OBVIOUS
<1>7. u \in Seq(Steps) /\ First(u, Lookup(0)) /\ Tail(u) = s
  <2>1. Lookup(0) \in Steps
    BY StepTypes
  <2> QED
    BY <1>3, <1>6, <2>1, ConsFirst
<1>8. w = <<Hide>> \o u
  <2>1. HideAll = <<Hide>> \o <<Lookup(0)>>
    BY DEF HideAll
  <2> QED
    BY <1>1, <1>2, <1>3, <1>6, <2>1, StepTypes, Joined
<1>9. w \in Seq(Steps) /\ First(w, Hide) /\ Tail(w) = u
  BY <1>7, <1>8, StepTypes, ConsFirst
<1> QED
  BY <1>5, <1>7, <1>9 DEF Leaves, Departs, Empties

LEMMA FocusOutKeeps ==
  ASSUME IInv, Waits, NEW c \in Calls, FocusOut(c)
  PROVE  IInv' /\ OneCall'
<1>1. PICK w : w = HideAll \o <<Clear, SetFlag(FALSE)>>
  OBVIOUS
<1>2. w \in Seq(Steps) /\ Leaves(w)
  BY <1>1, LeavesOf
<1>3. /\ AllIdle /\ \A b \in Calls \ {c} : Idle(b)
      /\ todo' = [todo EXCEPT ![c] = w] /\ todo'[c] = w
      /\ w \in Seq(Steps) => todo' \in [Calls -> Seq(Steps)]
      /\ events' \in 0 .. MaxEvents
      /\ ~crossed => Current /\ Accounts(<<>>)
  BY <1>1, BeginSetup DEF FocusOut
<1>4. UNCHANGED <<engine, converting, client, task, sent, auto, typed, crossed>>
  BY DEF FocusOut
<1>5. ASSUME ~crossed' PROVE Fits(w)'
  <2>1. Current /\ Accounts(<<>>)
    BY <1>3, <1>4, <1>5
  <2>2. Accounts(<<>>)'
    BY <1>4, <2>1, AccountsStill
  <2>3. Current'
    BY <1>4, <2>1, EngineNext DEF Current, Coming, At, Inserts
  <2> QED
    BY <1>2, <2>2, <2>3 DEF Fits
<1>6. Screened'
  BY <1>3, <1>5, MovesScreened DEF IInv
<1>7. Flagged'
  <2>1. FlagFits(w)'
    BY <1>2 DEF FlagFits
  <2> QED
    BY <1>3, <2>1, MovesFlagged DEF IInv
<1>8. Guarded' /\ Sound(engine, Letters)'
  BY <1>4, EngineNext DEF IInv, Guarded, At
<1>9. Away'
  BY <1>2, <1>3 DEF Away, Leaving
<1>10. OneCall'
  BY <1>3, MovesAlone DEF IInv
<1>11. TypeOK'
  BY <1>2, <1>3, <1>4 DEF FocusOut, IInv, TypeOK, Letters, Shown, Steps
<1> QED
  BY <1>6, <1>7, <1>8, <1>9, <1>10, <1>11 DEF IInv

LEMMA CancelInputKeeps ==
  ASSUME IInv, Waits, NEW c \in Calls, CancelInput(c)
  PROVE  IInv' /\ OneCall'
<1>1. PICK w, v : /\ w = <<SetFlag(FALSE)>> \o Neutralise \o HideAll
                  /\ v = Neutralise \o HideAll
  OBVIOUS
<1>2. /\ AtRest(engine', Letters) /\ Vacant(engine')
      /\ engine'.generation = engine.generation + 1
      /\ Balance(engine, engine', <<>>, {}, Letters)
  <2>1. PICK n : n = Cancelled(engine)
    OBVIOUS
  <2>2. /\ AtRest(n, Letters) /\ Preedit(n) = <<>> /\ n.generation = engine.generation + 1
        /\ Balance(engine, n, <<>>, {}, Letters)
    BY <2>1, CancelledFine DEF IInv, TypeOK
  <2>3. engine' = n
    BY <2>1 DEF CancelInput
  <2> QED
    BY <2>2, <2>3 DEF Vacant, AtRest
<1>3. ~Converting(engine)' /\ Vacant(engine)' /\ Sound(engine, Letters)'
  BY <1>2, EngineNext DEF AtRest
<1>4. PICK d \in Shown : d = Nothing
  BY StepTypes
<1>5. Display(engine)' = d
  <2>1. ~Converting(engine') /\ Preedit(engine') = <<>>
    BY <1>2 DEF Vacant
  <2> QED
    BY <1>4, <2>1, EngineNext DEF Display, Nothing
<1>6. HideAll \in Seq(Steps) /\ Hides(HideAll, d) /\ NoFlag(HideAll)
  BY <1>4, HidesOf
<1>7. v \in Seq(Steps) /\ Clears(v, d, <<>>) /\ NoFlag(v)
  <2>1. <<>> \in Seq(Letters)
    OBVIOUS
  <2> QED
    BY <1>1, <1>6, <2>1, ClearsOf
<1>8. w \in Seq(Steps) /\ First(w, SetFlag(FALSE)) /\ Tail(w) = v
  <2>1. w = <<SetFlag(FALSE)>> \o v
    BY <1>1, <1>6, StepTypes, Joined DEF Neutralise
  <2> QED
    BY <1>7, <2>1, StepTypes, ConsFirst
<1>9. /\ AllIdle /\ \A b \in Calls \ {c} : Idle(b)
      /\ todo' = [todo EXCEPT ![c] = w] /\ todo'[c] = w
      /\ w \in Seq(Steps) => todo' \in [Calls -> Seq(Steps)]
      /\ events' \in 0 .. MaxEvents
      /\ ~crossed => Current /\ Accounts(<<>>)
  BY <1>1, BeginSetup DEF CancelInput
<1>10. UNCHANGED <<converting, client, focused, task, sent, auto, typed, crossed>>
  BY DEF CancelInput
<1>11. Sets(w)'
  BY <1>3, <1>8 DEF Sets
<1>12. ASSUME ~crossed' PROVE Fits(w)'
  <2>1. Accounts(<<>>)'
    <3>1. engine' \in Engines(Letters)
      BY <1>2 DEF AtRest, Sound
    <3>2. \A i \in Letters : i <= typed' <=> i <= typed \/ i \in {}
      BY <1>10
    <3> QED
      BY <1>2, <1>9, <1>10, <1>12, <3>1, <3>2, BalanceAccounts DEF IInv
  <2>2. Suits(v, <<>>)'
    BY <1>5, <1>7 DEF Suits
  <2> QED
    BY <1>8, <1>11, <2>1, <2>2, FitsSent
<1>13. Screened'
  BY <1>9, <1>12, MovesScreened DEF IInv
<1>14. Flagged'
  <2>1. FlagFits(w)'
    BY <1>7, <1>8, <1>11 DEF FlagFits
  <2> QED
    BY <1>9, <2>1, MovesFlagged DEF IInv
<1>15. Guarded'
  <2>1. engine \in Engines(Letters) /\ engine' \in Engines(Letters)
    BY <1>2 DEF IInv, TypeOK, AtRest, Sound
  <2> QED
    BY <1>2, <1>10, <2>1, NextLater, LaterGuarded DEF IInv
<1>16. Away'
  BY <1>3 DEF Away
<1>17. OneCall'
  BY <1>9, MovesAlone DEF IInv
<1>18. TypeOK'
  <2>1. engine' \in Engines(Letters)
    BY <1>2 DEF AtRest, Sound
  <2> QED
    BY <1>8, <1>9, <1>10, <2>1
       DEF IInv, TypeOK, Letters, Shown, Steps, Engines, Conversions
<1> QED
  BY <1>3, <1>13, <1>14, <1>15, <1>16, <1>17, <1>18 DEF IInv

-----------------------------------------------------------------------------
(* The worker and the refresh tasks keep the invariant                     *)

TaskPlaces == {"none", "poll", "check", "apply", "recheck", "emit", "table"}
TaskStates == [pc : TaskPlaces, polls : 0 .. MaxPolls, shown : Shown, generation : Nat]

LEMMA TaskMoves ==
  ASSUME TypeOK, NEW t \in Tasks, NEW s \in TaskStates, task' = [task EXCEPT ![t] = s]
  PROVE  /\ task' \in [Tasks -> TaskStates] /\ task'[t] = s
         /\ \A u \in Tasks \ {t} : task'[u] = task[u]
BY DEF TypeOK, TaskStates, TaskPlaces

LEMMA TaskEndsMoves ==
  ASSUME TypeOK, NEW t \in Tasks, TaskEnds(t)
  PROVE  /\ task' \in [Tasks -> TaskStates] /\ task'[t].pc = "none"
         /\ \A u \in Tasks \ {t} : task'[u] = task[u]
<1>1. 0 \in 0 .. MaxPolls
  BY BoundsAssumption
<1>2. NoTask \in TaskStates /\ NoTask.pc = "none"
  BY <1>1, StepTypes DEF NoTask, TaskStates, TaskPlaces
<1> QED
  BY <1>2, TaskMoves DEF TaskEnds

LEMMA TaskGoesMoves ==
  ASSUME TypeOK, NEW t \in Tasks, NEW pc \in TaskPlaces, TaskGoes(t, pc)
  PROVE  /\ task' \in [Tasks -> TaskStates] /\ task'[t].pc = pc
         /\ task'[t].shown = task[t].shown /\ task'[t].generation = task[t].generation
         /\ \A u \in Tasks \ {t} : task'[u] = task[u]
<1>1. task[t] \in TaskStates
  BY DEF TypeOK, TaskStates, TaskPlaces
<1>2. PICK s : s = [task[t] EXCEPT !.pc = pc]
  OBVIOUS
<1>3. s \in TaskStates /\ s.pc = pc /\ s.shown = task[t].shown /\ s.generation = task[t].generation
  BY <1>1, <1>2 DEF TaskStates
<1>4. task' = [task EXCEPT ![t] = s]
  BY <1>2 DEF TaskGoes
<1> QED
  BY <1>3, <1>4, TaskMoves

(* Without a call.                                                         *)
LEMMA AloneStill ==
  ASSUME OneCall, todo' = todo
  PROVE  OneCall'
BY DEF OneCall, Idle

LEMMA AwayStill ==
  ASSUME Away, Vacant(engine') <=> Vacant(engine), UNCHANGED <<focused, todo>>
  PROVE  Away'
BY EngineNext DEF Away

(* An engine n that holds the same texts as e.                             *)
Same(e, n) ==
  /\ Sound(n, Letters) /\ n.generation = e.generation /\ n.strayed = e.strayed
  /\ (Converting(n) <=> Converting(e)) /\ Display(n).text = Display(e).text
  /\ Reading(n) = Reading(e) /\ n.raw = e.raw /\ (Vacant(n) <=> Vacant(e))
  /\ \A i \in Letters : Credit(n, i) = Credit(e, i)

LEMMA SameTexts ==
  ASSUME NEW e, Sound(e, Letters), NEW n \in Engines(Letters),
         n.generation = e.generation, n.kana = e.kana, n.buffer = e.buffer,
         n.raw = e.raw, n.conversion = e.conversion, n.gone = e.gone,
         n.ghosts = e.ghosts, n.strayed = e.strayed
  PROVE  Same(e, n)
<1>1. /\ Sound(n, Letters) /\ (Converting(n) <=> Converting(e)) /\ Own(n) = Own(e)
      /\ Display(n).text = Display(e).text
  BY Untouched
<1>2. Reading(n) = Reading(e) /\ Preedit(n) = Preedit(e)
  BY DEF Reading, Preedit
<1> QED
  BY <1>1, <1>2 DEF Same, Vacant, Credit

(* The result of a pass, put in its slot or taken from it.                 *)
LEMMA PassOnly ==
  ASSUME NEW e, Sound(e, Letters), NEW pass \in {"none", "running", "ready"},
         NEW n, n = [e EXCEPT !.pass = pass]
  PROVE  Same(e, n) /\ Display(n) = Display(e)
<1>1. /\ n \in Engines(Letters) /\ n.kana = e.kana /\ n.buffer = e.buffer
      /\ n.raw = e.raw /\ n.conversion = e.conversion /\ n.gone = e.gone
      /\ n.ghosts = e.ghosts /\ n.strayed = e.strayed
      /\ n.generation = e.generation /\ n.stamp = e.stamp
  BY DEF Sound, Engines
<1>2. Same(e, n)
  BY <1>1, SameTexts
<1>3. Display(n) = Display(e)
  BY <1>1 DEF Display, Converting, Preedit, Text, Reading
<1> QED
  BY <1>2, <1>3

(* A step that changes neither what there is nor what is shown.            *)
LEMMA QuietKeeps ==
  ASSUME IInv, OneCall, TypeOK',
         UNCHANGED <<converting, client, focused, todo, sent, auto, typed, crossed>>,
         Same(engine, engine'), Display(engine') = Display(engine),
         \A t \in Tasks : Coming(t) => Coming(t)',
         \A t \in Tasks : task'[t] = task[t] \/ task'[t].pc # "recheck"
  PROVE  IInv' /\ OneCall'
<1>1. /\ (Converting(engine') <=> Converting(engine)) /\ engine'.generation = engine.generation
      /\ engine'.strayed = engine.strayed /\ (Vacant(engine') <=> Vacant(engine))
      /\ Reading(engine') = Reading(engine) /\ engine'.raw = engine.raw
      /\ \A i \in Letters : Credit(engine', i) = Credit(engine, i)
      /\ Sound(engine', Letters)
  BY DEF Same
<1>2. Current => Current'
  BY EngineNext DEF Current, Inserts
<1>3. Screened'
  BY <1>1, <1>2, EngineNext, AccountsStill, StaysScreened DEF IInv
<1>4. Flagged'
  BY <1>1, EngineNext, StaysFlagged DEF IInv
<1>5. Guarded'
  BY <1>1, EngineNext DEF IInv, Guarded, At
<1>6. Away' /\ Sound(engine, Letters)'
  BY <1>1, EngineNext, AwayStill DEF IInv
<1> QED
  BY <1>3, <1>4, <1>5, <1>6, AloneStill DEF IInv

LEMMA ResultArrivesKeeps ==
  ASSUME IInv, OneCall, ResultArrives
  PROVE  IInv' /\ OneCall'
<1>1. /\ Same(engine, engine') /\ Display(engine') = Display(engine)
      /\ Sound(engine', Letters) /\ engine'.generation = engine.generation
      /\ (Converting(engine') <=> Converting(engine))
  BY PassOnly DEF IInv, ResultArrives, Same
<1>2. \A t \in Tasks : Coming(t) => Coming(t)'
  BY <1>1, EngineNext DEF ResultArrives, Coming, At
<1>3. TypeOK'
  BY <1>1 DEF ResultArrives, IInv, TypeOK, Sound, Letters, Shown, Steps, Engines, Conversions
<1> QED
  BY <1>1, <1>2, <1>3, QuietKeeps DEF ResultArrives

(* A task that moves on without a word.                                    *)
LEMMA QuietTask ==
  ASSUME IInv, OneCall, NEW t \in Tasks,
         UNCHANGED <<converting, client, focused, todo, sent, auto, typed, crossed, events>>,
         engine' = engine \/ engine' = [engine EXCEPT !.pass = "none"],
         task' \in [Tasks -> TaskStates], task'[t].pc # "recheck",
         Coming(t) => task'[t].pc = "emit" /\ task'[t].shown = task[t].shown,
         \A u \in Tasks \ {t} : task'[u] = task[u]
  PROVE  IInv' /\ OneCall'
<1>1. /\ Same(engine, engine') /\ Display(engine') = Display(engine)
      /\ Sound(engine', Letters) /\ engine'.generation = engine.generation
      /\ (Converting(engine') <=> Converting(engine))
  <2>1. CASE engine' = engine
    <3>1. engine \in Engines(Letters)
      BY DEF IInv, TypeOK
    <3> QED
      BY <2>1, <3>1, SameTexts DEF IInv, Same
  <2>2. CASE engine' = [engine EXCEPT !.pass = "none"]
    BY <2>2, PassOnly DEF IInv, Same
  <2> QED
    BY <2>1, <2>2
<1>2. ASSUME NEW u \in Tasks, Coming(u) PROVE Coming(u)'
  <2>1. CASE u = t
    BY <1>1, <1>2, <2>1, EngineNext DEF Coming, At
  <2>2. CASE u # t
    BY <1>1, <1>2, <2>2, EngineNext DEF Coming, At
  <2> QED
    BY <2>1, <2>2
<1>3. TypeOK'
  <2>1. engine' \in Engines(Letters)
    BY <1>1 DEF Sound
  <2> QED
    BY <2>1 DEF IInv, TypeOK, TaskStates, TaskPlaces, Letters, Shown, Steps, Engines, Conversions
<1> QED
  BY <1>1, <1>2, <1>3, QuietKeeps

LEMMA PollKeeps ==
  ASSUME IInv, OneCall, NEW t \in Tasks, Poll(t)
  PROVE  IInv' /\ OneCall'
<1>1. ~Coming(t)
  BY DEF Poll, Coming, At
<1>2. /\ task' \in [Tasks -> TaskStates] /\ task'[t].pc # "recheck"
      /\ \A u \in Tasks \ {t} : task'[u] = task[u]
  <2>1. CASE engine.pass = "ready" \/ task[t].polls = MaxPolls
    <3>1. TaskGoes(t, "check")
      BY <2>1 DEF Poll
    <3> QED
      BY <3>1, TaskGoesMoves DEF IInv, TaskPlaces
  <2>2. CASE ~(engine.pass = "ready" \/ task[t].polls = MaxPolls)
    <3>1. task' = [task EXCEPT ![t].polls = @ + 1]
      BY <2>2 DEF Poll
    <3>2. PICK s : s = [task[t] EXCEPT !.polls = @ + 1]
      OBVIOUS
    <3>3. task[t] \in TaskStates
      BY DEF IInv, TypeOK, TaskStates, TaskPlaces
    <3>4. task[t].polls + 1 \in 0 .. MaxPolls
      BY <2>2, <3>3, BoundsAssumption DEF TaskStates
    <3>5. s \in TaskStates /\ s.pc = task[t].pc
      BY <3>2, <3>3, <3>4 DEF TaskStates
    <3>6. task' = [task EXCEPT ![t] = s]
      BY <3>1, <3>2
    <3> QED
      BY <3>5, <3>6, TaskMoves DEF IInv, Poll, At
  <2> QED
    BY <2>1, <2>2
<1> QED
  BY <1>1, <1>2, QuietTask DEF Poll

LEMMA CheckFlagKeeps ==
  ASSUME IInv, OneCall, NEW t \in Tasks, CheckFlag(t)
  PROVE  IInv' /\ OneCall'
<1>1. ~Coming(t)
  BY DEF CheckFlag, Coming, At
<1>2. /\ task' \in [Tasks -> TaskStates] /\ task'[t].pc # "recheck"
      /\ \A u \in Tasks \ {t} : task'[u] = task[u]
  <2>1. TaskGoes(t, "apply") \/ TaskEnds(t)
    BY DEF CheckFlag
  <2> QED
    BY <2>1, TaskGoesMoves, TaskEndsMoves DEF IInv, TaskPlaces
<1> QED
  BY <1>1, <1>2, QuietTask DEF CheckFlag

LEMMA RecheckKeeps ==
  ASSUME IInv, OneCall, NEW t \in Tasks, Recheck(t)
  PROVE  IInv' /\ OneCall'
<1>1. CASE GuardPasses(t)
  <2>1. TaskGoes(t, "emit")
    BY <1>1 DEF Recheck
  <2>2. /\ task' \in [Tasks -> TaskStates] /\ task'[t].pc = "emit"
        /\ task'[t].shown = task[t].shown
        /\ \A u \in Tasks \ {t} : task'[u] = task[u]
    BY <2>1, TaskGoesMoves DEF IInv, TaskPlaces
  <2> QED
    BY <2>2, QuietTask DEF Recheck
<1>2. CASE ~GuardPasses(t)
  <2>1. ~Coming(t)
    BY <1>2 DEF Recheck, Coming, At, GuardPasses
  <2>2. TaskEnds(t)
    BY <1>2 DEF Recheck
  <2>3. /\ task' \in [Tasks -> TaskStates] /\ task'[t].pc = "none"
        /\ \A u \in Tasks \ {t} : task'[u] = task[u]
    BY <2>2, TaskEndsMoves DEF IInv
  <2> QED
    BY <2>1, <2>3, QuietTask DEF Recheck
<1> QED
  BY <1>1, <1>2

(* A result applied: what is shown changes, and the task will show it.     *)
LEMMA AppliedEngine ==
  ASSUME NEW e, Sound(e, Letters), Converting(e),
         NEW n, n = Changed([e EXCEPT !.pass = "none"])
  PROVE  /\ Same(e, n) /\ Display(n) \in Shown
         /\ Display(n).text \in {Reading(n), n.raw}
<1>1. PICK m : m = [e EXCEPT !.pass = "none"]
  OBVIOUS
<1>2. /\ m \in Engines(Letters) /\ m.kana = e.kana /\ m.buffer = e.buffer
      /\ m.raw = e.raw /\ m.conversion = e.conversion /\ m.gone = e.gone
      /\ m.ghosts = e.ghosts /\ m.strayed = e.strayed /\ m.generation = e.generation
  BY <1>1 DEF Sound, Engines
<1>3. /\ n \in Engines(Letters) /\ n.kana = e.kana /\ n.buffer = e.buffer
      /\ n.raw = e.raw /\ n.conversion = e.conversion /\ n.gone = e.gone
      /\ n.ghosts = e.ghosts /\ n.strayed = e.strayed /\ n.generation = e.generation
  BY <1>1, <1>2, ChangedFields
<1>4. Same(e, n)
  BY <1>3, SameTexts
<1>5. Display(n) \in Shown
  BY <1>4, DisplayType DEF Same, Shown
<1>6. Display(n).text \in {Reading(n), n.raw}
  BY <1>4 DEF Same, Display, Text
<1> QED
  BY <1>4, <1>5, <1>6

LEMMA ApplyKeeps ==
  ASSUME IInv, OneCall, NEW t \in Tasks, Apply(t)
  PROVE  IInv' /\ OneCall'
<1>1. CASE /\ engine' = IF engine.pass = "ready" THEN [engine EXCEPT !.pass = "none"] ELSE engine
           /\ TaskEnds(t)
           /\ UNCHANGED crossed
  <2>1. ~Coming(t)
    BY DEF Apply, Coming, At
  <2>2. /\ task' \in [Tasks -> TaskStates] /\ task'[t].pc = "none"
        /\ \A u \in Tasks \ {t} : task'[u] = task[u]
    BY <1>1, TaskEndsMoves DEF IInv
  <2> QED
    BY <1>1, <2>1, <2>2, QuietTask DEF Apply
<1>2. CASE /\ engine.pass = "ready" /\ Converting(engine)
           /\ engine' = Changed([engine EXCEPT !.pass = "none"])
           /\ task' = [task EXCEPT ![t] = [@ EXCEPT !.pc = "recheck", !.shown = Display(engine'),
                                                    !.generation = engine.generation]]
           /\ crossed' = (crossed \/ ~AllIdle)
  <2>1. /\ Same(engine, engine') /\ Display(engine') \in Shown
        /\ Display(engine').text \in {Reading(engine'), engine'.raw}
        /\ Sound(engine', Letters) /\ engine'.generation = engine.generation
        /\ Converting(engine') /\ Display(engine').text = Display(engine).text
    BY <1>2, AppliedEngine DEF IInv, Same
  <2>2. PICK d : d = Display(engine')
    OBVIOUS
  <2>3. d \in Shown /\ Display(engine)' = d
    BY <2>1, <2>2, EngineNext
  <2>4. PICK s : s = [task[t] EXCEPT !.pc = "recheck", !.shown = d, !.generation = engine.generation]
    OBVIOUS
  <2>5. s \in TaskStates /\ s.pc = "recheck" /\ s.shown = d /\ s.generation = engine.generation
    <3>1. task[t] \in TaskStates /\ engine.generation \in Nat
      BY DEF IInv, TypeOK, TaskStates, TaskPlaces, Engines
    <3> QED
      BY <2>3, <2>4, <3>1 DEF TaskStates, TaskPlaces
  <2>6. /\ task' \in [Tasks -> TaskStates] /\ task'[t] = s
        /\ \A u \in Tasks \ {t} : task'[u] = task[u]
    <3>1. task' = [task EXCEPT ![t] = s]
      BY <1>2, <2>2, <2>4
    <3> QED
      BY <2>5, <3>1, TaskMoves DEF IInv
  <2>7. UNCHANGED <<converting, client, focused, todo, sent, auto, typed, events>>
    BY DEF Apply
  <2>8. Screened'
    <3> SUFFICES ASSUME ~crossed'
                 PROVE  /\ AllIdle' => Current' /\ Accounts(<<>>)'
                        /\ \A b \in Calls : ~Idle(b)' => Fits(todo[b])'
      BY DEF Screened
    <3>1. AllIdle /\ Current /\ Accounts(<<>>) /\ converting
      BY <1>2 DEF IInv, Screened, Flagged
    <3>2. \A b \in Calls : Idle(b)'
      BY <2>7, <3>1 DEF AllIdle, Idle
    <3>3. Accounts(<<>>)'
      BY <2>1, <2>7, <3>1, AccountsStill DEF Same
    <3>4. Coming(t)'
      BY <2>1, <2>3, <2>5, <2>6, <2>7, <3>1, EngineNext DEF Coming, At
    <3>5. Current'
      BY <2>1, <2>2, <2>3, <2>7, <3>1, <3>4 DEF Current, Inserts
    <3> QED
      BY <3>2, <3>3, <3>5
  <2>9. Flagged'
    BY <1>2, <2>1, <2>7, EngineNext, StaysFlagged DEF IInv
  <2>10. Guarded'
    <3> SUFFICES ASSUME NEW u \in Tasks, task'[u].pc = "recheck"
                 PROVE  /\ task'[u].generation <= engine'.generation
                        /\ task'[u].generation = engine'.generation =>
                             Converting(engine') /\ task'[u].shown.text \in {Reading(engine'), engine'.raw}
      BY EngineNext DEF Guarded, At
    <3>1. engine.generation \in Nat
      BY DEF IInv, TypeOK, Engines
    <3>2. CASE u = t
      <4>1. d.text \in {Reading(engine'), engine'.raw}
        BY <2>1, <2>2
      <4> QED
        BY <2>1, <2>5, <2>6, <3>1, <3>2, <4>1
    <3>3. CASE u # t
      BY <2>1, <2>6, <3>3 DEF IInv, Guarded, At, Same
    <3> QED
      BY <3>2, <3>3
  <2>11. Away' /\ Sound(engine, Letters)'
    BY <2>1, <2>7, EngineNext, AwayStill DEF IInv, Same
  <2>12. TypeOK'
    <3>1. engine' \in Engines(Letters)
      BY <2>1 DEF Sound
    <3>2. crossed' \in BOOLEAN
      BY <1>2 DEF IInv, TypeOK
    <3> QED
      BY <2>6, <2>7, <3>1, <3>2
         DEF IInv, TypeOK, TaskStates, TaskPlaces, Letters, Shown, Steps, Engines, Conversions
  <2> QED
    BY <2>7, <2>8, <2>9, <2>10, <2>11, <2>12, AloneStill DEF IInv
<1> QED
  BY <1>1, <1>2 DEF Apply

(* A task that sends a signal.                                             *)
LEMMA TaskSends ==
  ASSUME IInv, OneCall, NEW t \in Tasks,
         UNCHANGED <<engine, converting, focused, todo, sent, auto, typed, events>>,
         client' \in [shown : Shown, mode : {0, 1}, lookup : Nat],
         crossed' = (crossed \/ Crosses(t)),
         task' \in [Tasks -> TaskStates], task'[t].pc # "recheck",
         \A u \in Tasks \ {t} : task'[u] = task[u],
         Current /\ task[t].shown = Display(engine) => Current'
  PROVE  IInv' /\ OneCall'
<1>1. Screened'
  <2> SUFFICES ASSUME ~crossed'
               PROVE  /\ AllIdle' => Current' /\ Accounts(<<>>)'
                      /\ \A b \in Calls : ~Idle(b)' => Fits(todo[b])'
    BY DEF Screened
  <2>1. AllIdle /\ Current /\ Accounts(<<>>) /\ task[t].shown = Display(engine)
    BY DEF IInv, Screened, Crosses
  <2>2. \A b \in Calls : Idle(b)'
    BY <2>1 DEF AllIdle, Idle
  <2>3. Accounts(<<>>)'
    BY <2>1, AccountsStill
  <2> QED
    BY <2>1, <2>2, <2>3
<1>2. Flagged'
  BY EngineNext, StaysFlagged DEF IInv
<1>3. Guarded'
  BY EngineNext DEF IInv, Guarded, At
<1>4. Away' /\ Sound(engine, Letters)'
  BY EngineNext, AwayStill DEF IInv
<1>5. TypeOK'
  <2>1. crossed' \in BOOLEAN
    BY DEF IInv, TypeOK, Crosses, AllIdle, Idle
  <2> QED
    BY <2>1 DEF IInv, TypeOK, TaskStates, TaskPlaces, Letters, Shown, Steps
<1> QED
  BY <1>1, <1>2, <1>3, <1>4, <1>5, AloneStill DEF IInv

LEMMA EmitKeeps ==
  ASSUME IInv, OneCall, NEW t \in Tasks, Emit(t)
  PROVE  IInv' /\ OneCall'
<1>1. /\ task' \in [Tasks -> TaskStates] /\ task'[t].pc = "table"
      /\ task'[t].shown = task[t].shown
      /\ \A u \in Tasks \ {t} : task'[u] = task[u]
  BY TaskGoesMoves DEF Emit, IInv, TaskPlaces
<1>2. task[t].shown \in Shown
  BY DEF IInv, TypeOK
<1>3. /\ client'.shown = task[t].shown /\ client'.mode = 1
      /\ client' \in [shown : Shown, mode : {0, 1}, lookup : Nat]
  BY <1>2 DEF Emit, IInv, TypeOK
<1>4. ASSUME task[t].shown = Display(engine) PROVE Current'
  <2>1. Display(engine)' = Display(engine)
    BY EngineNext DEF Emit
  <2>2. Coming(t)'
    BY <1>1, <1>3, <1>4, <2>1 DEF Coming, At
  <2> QED
    BY <1>3, <1>4, <2>1, <2>2 DEF Current, Inserts
<1> QED
  BY <1>1, <1>3, <1>4, TaskSends DEF Emit

LEMMA EmitTableKeeps ==
  ASSUME IInv, OneCall, NEW t \in Tasks, EmitTable(t)
  PROVE  IInv' /\ OneCall'
<1>1. /\ task' \in [Tasks -> TaskStates] /\ task'[t].pc = "none"
      /\ \A u \in Tasks \ {t} : task'[u] = task[u]
  BY TaskEndsMoves DEF EmitTable, IInv
<1>2. task[t].shown.stamp \in Nat
  BY DEF IInv, TypeOK, Shown
<1>3. /\ client'.lookup = task[t].shown.stamp /\ client'.shown = client.shown
      /\ client'.mode = client.mode
      /\ client' \in [shown : Shown, mode : {0, 1}, lookup : Nat]
  BY <1>2 DEF EmitTable, IInv, TypeOK
<1>4. ASSUME Current, task[t].shown = Display(engine) PROVE Current'
  <2>1. Display(engine)' = Display(engine)
    BY EngineNext DEF EmitTable
  <2>2. ASSUME NEW u \in Tasks, Coming(u), client.shown # Display(engine) PROVE Coming(u)'
    <3>1. u # t
      BY <2>2 DEF EmitTable, Coming, At
    <3> QED
      BY <1>1, <1>3, <2>1, <2>2, <3>1, EngineNext DEF EmitTable, Coming, At
  <2> QED
    BY <1>3, <1>4, <2>1, <2>2 DEF Current, Inserts
<1> QED
  BY <1>1, <1>3, <1>4, TaskSends DEF EmitTable

-----------------------------------------------------------------------------
(* The invariant and the properties                                        *)

LEMMA Initially ==
  ASSUME Init
  PROVE  IInv /\ OneCall
<1>1. /\ AtRest(engine, Letters) /\ engine \in Engines(Letters) /\ Preedit(engine) = <<>>
      /\ engine.generation = 0 /\ \A i \in Letters : Credit(engine, i) = 0
  BY NewEngineFine DEF Init
<1>2. AllIdle
  BY DEF Init, AllIdle, Idle
<1>3. Current /\ Accounts(<<>>)
  <2>1. Sound(engine, Letters) /\ ~Converting(engine) /\ Display(engine) = Nothing
    BY <1>1 DEF AtRest, Display, Nothing
  <2>2. Current
    BY <2>1, StepTypes DEF Init, Current, Inserts
  <2>3. ASSUME NEW i \in Letters
        PROVE  sent[i] + auto[i] + Credit(engine, i) + Count(<<>>, i)
                 = IF i <= typed THEN 1 ELSE 0
    <3>1. i \in Nat /\ ~(i <= 0)
      BY BoundsAssumption DEF Letters
    <3>2. Count(<<>>, i) = 0
      BY CountEmpty
    <3> QED
      BY <1>1, <3>1, <3>2 DEF Init
  <2> QED
    BY <2>2, <2>3 DEF Accounts
<1>4. Screened /\ Flagged
  BY <1>1, <1>2, <1>3 DEF Screened, Flagged, AllIdle, Init, AtRest
<1>5. Guarded /\ Away 
  BY <1>1 DEF Init, Guarded, At, NoTask, Away
<1>6. TypeOK
  <2>1. 0 \in 0 .. MaxPolls /\ 0 \in 0 .. MaxEvents /\ 0 \in 0 .. MaxLetters
    BY BoundsAssumption
  <2>2. engine \in Engines(Letters)
    BY <1>1
  <2>3. /\ client \in [shown : Shown, mode : {0, 1}, lookup : Nat]
        /\ todo \in [Calls -> Seq(Steps)]
    BY StepTypes DEF Init
  <2>4. task \in [Tasks -> TaskStates]
    BY <2>1, StepTypes DEF Init, NoTask, TaskStates, TaskPlaces
  <2> QED
    BY <2>1, <2>2, <2>3, <2>4 DEF Init, TypeOK, TaskStates, TaskPlaces
<1> QED
  BY <1>1, <1>2, <1>4, <1>5, <1>6 DEF IInv, OneCall, AllIdle, Init, AtRest

LEMMA StepKeeps ==
  ASSUME IInv, OneCall, NEW c \in Calls, Step(c)
  PROVE  IInv' /\ OneCall'
<1>1. IInv'
  BY StepFlagKeeps, StepClearKeeps, StepUpdateKeeps, StepLookupKeeps, StepCommitKeeps,
     StepHideKeeps, StepSpawnKeeps DEF Step
<1>2. \E op : NextIs(c, op) /\ Advance(c)
  BY DEF Step, StepFlag, StepClear, StepUpdate, StepLookup, StepCommit, StepHide, StepSpawn
<1>3. OneCall'
  BY <1>2, StepSetup, MovesAlone DEF IInv
<1> QED
  BY <1>1, <1>3

LEMMA Inductive ==
  ASSUME IInv, OneCall, [Next]_vars, [Waits]_vars
  PROVE  IInv' /\ OneCall'
<1>1. CASE UNCHANGED vars
  <2>1. TypeOK'
    BY <1>1 DEF vars, IInv, TypeOK
  <2>2. \A t \in Tasks : Coming(t) => Coming(t)'
    BY <1>1, EngineNext DEF vars, Coming, At
  <2>3. Same(engine, engine') /\ Display(engine') = Display(engine)
    <3>1. engine' = engine /\ engine \in Engines(Letters)
      BY <1>1 DEF vars, IInv, TypeOK
    <3> QED
      BY <3>1, SameTexts DEF IInv
  <2> QED
    BY <1>1, <2>1, <2>2, <2>3, QuietKeeps DEF vars
<1>2. CASE Next /\ Waits
  <2>1. ASSUME NEW c \in Calls,
               ProcessKeyEvent(c) \/ FocusIn(c) \/ FocusOut(c) \/ CancelInput(c) \/ Step(c)
        PROVE  IInv' /\ OneCall'
    BY <1>2, <2>1, ProcessKeyEventKeeps, FocusInKeeps, FocusOutKeeps, CancelInputKeeps, StepKeeps
  <2>2. ASSUME NEW t \in Tasks, RefreshStep(t)
        PROVE  IInv' /\ OneCall'
    BY <2>2, PollKeeps, CheckFlagKeeps, ApplyKeeps, RecheckKeeps, EmitKeeps, EmitTableKeeps
       DEF RefreshStep
  <2> QED
    BY <1>2, <2>1, <2>2, ResultArrivesKeeps DEF Next
<1> QED
  BY <1>1, <1>2

LEMMA AlwaysIInv == Spec /\ [][Waits]_vars => [](IInv /\ OneCall)
<1>1. Init => IInv /\ OneCall
  BY Initially
<1>2. (IInv /\ OneCall) /\ [Next]_vars /\ [Waits]_vars => (IInv /\ OneCall)'
  <2> SUFFICES ASSUME IInv, OneCall, [Next]_vars, [Waits]_vars PROVE IInv' /\ OneCall'
    OBVIOUS
  <2> QED
    BY Inductive
<1> QED
  BY <1>1, <1>2, PTL DEF Spec

(* Under a daemon that makes one call at a time every variable of the      *)
(* frontend has its type: what dispatch_key is given in process_key_event  *)
(* is always an engine of the shape its callers keep.                      *)
THEOREM FrontendTypeCorrect == Spec /\ [][Waits]_vars => []TypeOK
<1>1. IInv => TypeOK
  BY DEF IInv
<1> QED
  BY <1>1, AlwaysIInv, PTL

(* When no call and no refresh is under way, apply_outcome, cancel_input,  *)
(* focus_out and the refresh tasks have left on the screen what the engine *)
(* would commit, with the candidates exactly while there is a conversion,  *)
(* unless a refresh has crossed a call.                                    *)
THEOREM ScreenIsEngineHolds == Spec /\ [][Waits]_vars => []ScreenIsEngine
<1>1. IInv => ScreenIsEngine
  <2> SUFFICES ASSUME IInv, Settled, ~crossed
               PROVE  /\ client.shown = Display(engine)
                      /\ client.lookup = Display(engine).stamp
    BY DEF ScreenIsEngine
  <2>1. Current
    BY DEF IInv, Screened, Settled
  <2>2. \A t \in Tasks : ~Coming(t)
    BY DEF Settled, Coming, At
  <2> QED
    BY <2>1, <2>2 DEF Current
<1> QED
  BY <1>1, AlwaysIInv, PTL

(* Between calls the flag that process_key_event writes back after it has  *)
(* given up the engine's mutex says whether the engine has a conversion.   *)
THEOREM FlagMirrorsEngineHolds == Spec /\ [][Waits]_vars => []FlagMirrorsEngine
<1>1. IInv => FlagMirrorsEngine
  BY DEF IInv, Flagged, FlagMirrorsEngine
<1> QED
  BY <1>1, AlwaysIInv, PTL

(* Between calls, unless a refresh has crossed one, every keystroke is     *)
(* once in the text given to the application, by commit_text or by IBus as *)
(* it hid the preedit, in what the engine would still commit, or among the *)
(* deleted, unless the engine itself counts it otherwise (Excused).        *)
THEOREM EveryLetterOnceHolds == Spec /\ [][Waits]_vars => []EveryLetterOnce
<1>1. ASSUME IInv, AllIdle, ~crossed, NEW i \in 1 .. typed, ~Excused(i)
      PROVE  Places(i) = 1
  <2>1. typed \in Nat /\ typed <= MaxLetters /\ MaxLetters \in Nat
    BY <1>1, BoundsAssumption DEF IInv, TypeOK
  <2>2. i \in Letters /\ i <= typed
    BY <2>1 DEF Letters
  <2>3. Sound(engine, Letters) /\ i \in Letters \ InDoubt(engine) /\ i \notin engine.strayed
    BY <1>1, <2>2 DEF IInv, Excused
  <2>4. sent[i] + auto[i] + Credit(engine, i) + Count(<<>>, i) = 1
    BY <1>1, <2>2, <2>3 DEF IInv, Screened, Accounts
  <2>5. Count(<<>>, i) = 0
    BY CountEmpty
  <2>6. Count(Remains(engine), i) + engine.gone[i] = Credit(engine, i)
    BY <2>3, RemainsOwn
  <2>7. Count(Remains(engine), i) \in Nat
    BY <2>3, RemainsType, CountNat
  <2>8. sent[i] \in Nat /\ auto[i] \in Nat /\ engine.gone[i] \in Nat
    BY <1>1, <2>2 DEF IInv, TypeOK, Engines
  <2> QED
    BY <2>4, <2>5, <2>6, <2>7, <2>8 DEF Places
<1>2. IInv => EveryLetterOnce
  BY <1>1 DEF EveryLetterOnce
<1> QED
  BY <1>2, AlwaysIInv, PTL

(* The generation in the guard of spawn_rerank_refresh keeps out every     *)
(* snapshot of a conversion that has ended, even if the next one is up and *)
(* the flag with it.                                                       *)
THEOREM GuardCatchesEndHolds == Spec /\ [][Waits]_vars => GuardCatchesEnd
<1> DEFINE Passes ==
      \A t \in Tasks :
        At(t, "recheck") /\ task'[t].pc = "emit" =>
          /\ Converting(engine)
          /\ task[t].shown.text \in {Reading(engine), engine.raw}
<1>1. IInv /\ [Next]_vars => [Passes]_vars
  <2> SUFFICES ASSUME IInv, Next, NEW t \in Tasks, At(t, "recheck"), task'[t].pc = "emit"
               PROVE  Converting(engine) /\ task[t].shown.text \in {Reading(engine), engine.raw}
    OBVIOUS
  <2>1. task'[t] # task[t]
    BY DEF At
  <2>2. Recheck(t)
    <3>1. ASSUME NEW c \in Calls,
                 ProcessKeyEvent(c) \/ FocusIn(c) \/ FocusOut(c) \/ CancelInput(c) \/ Step(c)
          PROVE  FALSE
      <4>1. CASE StepSpawn(c)
        <5>1. PICK s \in Tasks : /\ task[s].pc = "none"
                                 /\ task' = [task EXCEPT ![s] = [NoTask EXCEPT !.pc = "poll"]]
          BY <4>1 DEF StepSpawn
        <5>2. s # t
          BY <5>1 DEF At
        <5> QED
          BY <2>1, <5>1, <5>2 DEF IInv, TypeOK
      <4>2. CASE ~StepSpawn(c)
        <5>1. task' = task
          BY <3>1, <4>2 DEF ProcessKeyEvent, FocusIn, FocusOut, CancelInput, Step, StepFlag,
             StepClear, StepUpdate, StepLookup, StepCommit, StepHide
        <5> QED
          BY <2>1, <5>1
      <4> QED
        BY <4>1, <4>2
    <3>2. ASSUME ResultArrives PROVE FALSE
      BY <2>1, <3>2 DEF ResultArrives
    <3>3. ASSUME NEW u \in Tasks, u # t, RefreshStep(u) PROVE FALSE
      <4>1. \A s : task' = [task EXCEPT ![u] = s] => task'[t] = task[t]
        BY <3>3 DEF IInv, TypeOK
      <4> QED
        BY <2>1, <3>3, <4>1 DEF RefreshStep, Poll, CheckFlag, Apply, Recheck, Emit, EmitTable,
           TaskGoes, TaskEnds
    <3>4. ASSUME RefreshStep(t) PROVE Recheck(t)
      BY <3>4 DEF RefreshStep, Poll, CheckFlag, Apply, Recheck, Emit, EmitTable, At
    <3> QED
      BY <3>1, <3>2, <3>3, <3>4 DEF Next
  <2>3. GuardPasses(t)
    <3>1. ASSUME ~GuardPasses(t) PROVE FALSE
      <4>1. task'[t].pc = "none"
        BY <2>2, <3>1, TaskEndsMoves DEF Recheck, IInv
      <4> QED
        BY <4>1
    <3> QED
      BY <3>1
  <2> QED
    BY <2>3 DEF GuardPasses, IInv, Guarded
<1>2. Spec /\ [][Waits]_vars => [][Passes]_vars
  BY <1>1, AlwaysIInv, PTL DEF Spec
<1> QED
  BY <1>2 DEF GuardCatchesEnd
=============================================================================
