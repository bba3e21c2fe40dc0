---------------------------- MODULE FcitxFrontend ----------------------------
(***************************************************************************)
(* One input context of the Fcitx5 frontend: the C++ addon                  *)
(* (src/fcitx5/bonolith_engine.cpp) over the C interface (src/src/ffi.rs).  *)
(* Everything runs on one event loop, so a handler is one step: a key       *)
(* event, a reset, a loss of focus, or the timer that polls for the result  *)
(* of a background rerank.  Only the worker runs beside it.                 *)
(*                                                                          *)
(* The compositor is what the comments in the code say of it: it inserts    *)
(* the preedit on the screen before the addon hears of the loss of focus.   *)
(***************************************************************************)
EXTENDS Dispatch

CONSTANTS
  KeyKinds,    \* kinds of keys explored
  MaxEvents,   \* bound: events but for the timer's
  MaxLetters,  \* bound: keystrokes typed
  MaxTicks,    \* kMaxTicks
  NoTimer      \* rerankTimer_ is not armed

ASSUME KeysAssumption == KeyKinds \subseteq Kinds
ASSUME BoundsAssumption ==
  /\ MaxEvents \in Nat /\ MaxLetters \in Nat
  /\ MaxTicks \in Nat \ {0} /\ NoTimer \notin Nat

VARIABLES
  engine,      \* engine of BonolithContext
  converting,  \* converting of BonolithContext
  pending,     \* pending_commit; <<>> is None
  panel,       \* client preedit and candidate list
  timer,       \* rerankTicks_ while the timer is armed
  down,        \* kind of the key last pressed, if its press was consumed
  orphan,      \* the last event was the release of such a key, passed on
  sent,        \* how often each keystroke was sent with commitString
  finalised,   \* how often the compositor inserted it
  typed,       \* keystrokes so far
  events

vars == <<engine, converting, pending, panel, timer, down, orphan, sent,
          finalised, typed, events>>

Letters == 1 .. MaxLetters

TypeOK ==
  /\ engine \in Engines(Letters)
  /\ converting \in BOOLEAN
  /\ pending \in Seq(Letters)
  /\ panel \in [text : Seq(Letters), stamp : Nat]
  /\ timer \in 0 .. MaxTicks - 1 \cup {NoTimer}
  /\ down \in KeyKinds \cup {"none"}
  /\ orphan \in BOOLEAN
  /\ sent \in [Letters -> Nat]
  /\ finalised \in [Letters -> Nat]
  /\ typed \in 0 .. MaxLetters
  /\ events \in 0 .. MaxEvents

Init ==
  /\ engine = NewEngine(Letters)
  /\ converting = FALSE
  /\ pending = <<>>
  /\ panel = Nothing
  /\ timer = NoTimer
  /\ down = "none"
  /\ orphan = FALSE
  /\ sent = [i \in Letters |-> 0]
  /\ finalised = [i \in Letters |-> 0]
  /\ typed = 0
  /\ events = 0

Counted(count, text) == [i \in Letters |-> count[i] + Count(text, i)]

Event == events < MaxEvents /\ events' = events + 1

-----------------------------------------------------------------------------
(* The C interface                                                          *)

\* bonolith_is_converting or bonolith_has_preedit.
Showing(e, flag) == flag \/ Preedit(e) # <<>>

\* bonolith_get_ui_state, but for the text it takes from pending_commit.
UiState(e, flag) ==
  IF flag THEN IF Converting(e) THEN Display(e) ELSE Nothing
  ELSE [text |-> Preedit(e), stamp |-> 0]

\* bonolith_rerank_pending
RerankPending(e) == e.pass # "none"

\* bonolith_handle_key, for a press.  An outcome without a commit leaves
\* pending_commit alone.
Parked(commit) == IF commit # <<>> THEN commit ELSE pending

-----------------------------------------------------------------------------
(* The addon                                                                *)

\* updateUI: commitString, then the panel.
UpdateUI(e, flag, parked) ==
  /\ sent' = Counted(sent, parked)
  /\ pending' = <<>>
  /\ panel' = UiState(e, flag)

NoUpdate(parked) == pending' = parked /\ UNCHANGED <<panel, sent>>

\* scheduleRerankRefresh starts over whenever a pass is outstanding.
Schedule(e) == timer' = IF RerankPending(e) THEN 0 ELSE timer

\* Mutant: the panel is refreshed for consumed keys only, if text was shown.
BuggyPanelFollows(e, flag, consumed, parked) ==
  IF consumed /\ Showing(engine, converting)
    THEN UpdateUI(e, flag, parked)
    ELSE NoUpdate(parked)

PanelFollows(e, flag, consumed, parked) ==
  IF consumed \/ Showing(engine, converting) \/ Showing(e, flag)
    THEN UpdateUI(e, flag, parked)
    ELSE NoUpdate(parked)

\* keyEvent, a press.
KeyPress(key) ==
  /\ Event
  /\ key \in TypingKinds => typed < MaxLetters
  /\ typed' = IF key \in TypingKinds THEN typed + 1 ELSE typed
  /\ \E r \in DispatchKey(engine, converting, key, typed + 1) :
       /\ engine' = r.engine
       /\ converting' = r.flag
       /\ PanelFollows(r.engine, r.flag, r.outcome.consumed,
                       Parked(r.outcome.commit))
       /\ Schedule(r.engine)
       /\ down' = IF r.outcome.consumed THEN key ELSE "none"
  /\ orphan' = FALSE
  /\ UNCHANGED finalised

\* bonolith_handle_key, for a release: consumed while text is shown, and for
\* the keys that open menus.
ReleaseConsumed(key) == Showing(engine, converting) \/ key = "fkey"

\* keyEvent, the release of the key last pressed.
KeyRelease ==
  /\ Event
  /\ down # "none"
  /\ down' = "none"
  /\ orphan' = ~ReleaseConsumed(down)
  /\ PanelFollows(engine, converting, ReleaseConsumed(down), pending)
  /\ Schedule(engine)
  /\ UNCHANGED <<engine, converting, finalised, typed>>

\* bonolith_reset and the empty panel.
Emptied(cleared) ==
  /\ engine' = cleared
  /\ converting' = FALSE
  /\ pending' = <<>>
  /\ panel' = Nothing

Reset ==
  /\ Event
  /\ Emptied(Gone(Cancelled(engine), pending))
  /\ orphan' = FALSE
  /\ UNCHANGED <<timer, down, sent, finalised, typed>>

\* Mutant: the addon commits what the compositor has already inserted.
BuggyDeactivate ==
  /\ Event
  /\ finalised' = Counted(finalised, panel.text)
  /\ sent' = Counted(sent, panel.text)
  /\ Emptied(Unfocused(engine))
  /\ down' = "none"
  /\ orphan' = FALSE
  /\ UNCHANGED <<timer, typed>>

\* deactivate, through commitInput.
Deactivate ==
  /\ Event
  /\ finalised' = Counted(finalised, panel.text)
  /\ Emptied(Unfocused(engine))
  /\ down' = "none"
  /\ orphan' = FALSE
  /\ UNCHANGED <<timer, sent, typed>>

\* The worker of the current pass stores its result or fails (PassService).
WorkerEnds ==
  /\ engine.pass = "running"
  /\ \E pass \in {"ready", "none"} : engine' = [engine EXCEPT !.pass = pass]
  /\ UNCHANGED <<converting, pending, panel, timer, down, orphan, sent,
                 finalised, typed, events>>

\* Mutant: re-armed whatever the budget.
BuggyRearmed == timer

\* Re-armed until the budget is spent.
Rearmed == IF timer + 1 < MaxTicks THEN timer + 1 ELSE NoTimer

\* The timer: out of conversion it stops ...
TimerIdle ==
  /\ timer # NoTimer
  /\ ~converting
  /\ timer' = NoTimer
  /\ UNCHANGED <<engine, converting, pending, panel, down, orphan, sent,
                 finalised, typed, events>>

\* ... a result that changes the candidates is shown ...
TimerApplies ==
  /\ timer # NoTimer
  /\ converting
  /\ engine.pass = "ready"
  /\ Converting(engine)
  /\ engine' = Changed([engine EXCEPT !.pass = "none"])
  /\ UpdateUI(engine', converting, pending)
  /\ timer' = NoTimer
  /\ UNCHANGED <<converting, down, orphan, finalised, typed, events>>

\* ... one that changes none is taken ...
TimerAppliesNothing ==
  /\ timer # NoTimer
  /\ converting
  /\ engine.pass = "ready"
  /\ engine' = [engine EXCEPT !.pass = "none"]
  /\ timer' = NoTimer
  /\ UNCHANGED <<converting, pending, panel, down, orphan, sent, finalised,
                 typed, events>>

\* Mutant: the budget is looked at before the slot.
BuggyTimerWaits ==
  /\ timer # NoTimer
  /\ converting
  /\ timer' = IF RerankPending(engine) THEN Rearmed ELSE NoTimer
  /\ UNCHANGED <<engine, converting, pending, panel, down, orphan, sent,
                 finalised, typed, events>>

\* ... and without one it waits for a pass that is outstanding.
TimerWaits ==
  /\ timer # NoTimer
  /\ converting
  /\ engine.pass # "ready"
  /\ timer' = IF RerankPending(engine) THEN Rearmed ELSE NoTimer
  /\ UNCHANGED <<engine, converting, pending, panel, down, orphan, sent,
                 finalised, typed, events>>

Timer == TimerIdle \/ TimerApplies \/ TimerAppliesNothing \/ TimerWaits

Next ==
  \/ \E key \in KeyKinds : KeyPress(key)
  \/ KeyRelease \/ Reset \/ Deactivate
  \/ WorkerEnds
  \/ Timer

Spec == Init /\ [][Next]_vars

\* The event loop fires a timer whose time has come.  Nothing is assumed
\* about the user or the worker.
FairSpec == Spec /\ WF_vars(Timer)

-----------------------------------------------------------------------------
(* Properties                                                               *)

\* What the panel shows is what the engine holds for display, after every
\* event and whichever of them refreshed it.
PanelIsEngine == panel = Display(engine) /\ (converting <=> Converting(engine))

\* pending_commit is empty between events: no commit waits for the next key,
\* where another would overwrite it or a reset clear it.
NothingParked == pending = <<>>

Places(i) ==
  sent[i] + finalised[i] + Count(Remains(engine), i) + engine.gone[i]

Excused(i) == i \in engine.strayed \cup InDoubt(engine)

\* Every keystroke is once in the text given to the application (by
\* commitString, or by the compositor when the focus is lost), in what the
\* engine would still commit, or among the deleted: by Backspace, Escape or a
\* reset, or discarded because no kana begins with it.  Excused are those the
\* engine itself counts otherwise: the lone n that an F-key conversion doubles;
\* letters of the raw input, where it is shown, that were discarded or that a
\* cancel put back twice; the letters pending at Space where the raw input
\* covers them but is not shown; and at a focus loss the pending letters, which
\* are not on the screen.
EveryLetterOnce == \A i \in 1 .. typed : ~Excused(i) => Places(i) = 1

\* The comment on deactivate (bonolith_engine.cpp:313): text in progress is
\* committed, not discarded, when the focus is lost.
FocusLossKeepsText ==
  [][finalised' # finalised =>
       \A i \in ToSet(Own(engine)) : finalised'[i] > finalised[i]]_vars

\* The comment on bonolith_handle_key (ffi.rs:181-190): the release of a key
\* whose press was consumed is consumed.
ReleasesConsumed == ~orphan

\* The timer does not poll for ever.
TimerStops == timer # NoTimer ~> timer = NoTimer

\* A result that lands while the timer is armed reaches the panel, or
\* changes nothing, without another key, unless its conversion ends first.
ResultShown ==
  timer # NoTimer /\ engine.pass = "ready" ~> engine.pass # "ready"
=============================================================================
