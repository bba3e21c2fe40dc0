------------------------------ MODULE IbusGate ------------------------------
(***************************************************************************)
(* Which keys reach the engines of the IBus frontend at all: the ON/OFF     *)
(* switch of every input context with its toggle, Henkan and Muhenkan keys, *)
(* the consumption of key releases (src/src/ibus/engine_impl.rs) and the    *)
(* force-on window that the word-register dialog opens for all contexts     *)
(* (src/src/ibus/factory.rs).                                               *)
(*                                                                          *)
(* An input context is a number of ENGINE_SEQ.  Of its composition only     *)
(* whether there is one is kept.  Turning off gives way to other calls      *)
(* while cancel_input sends its signals; calls to one context come one      *)
(* after the other (IbusFrontend has them overlap).                         *)
(***************************************************************************)
EXTENDS Naturals

CONSTANTS
  MaxEngines,   \* bound: input contexts created
  MaxTime,      \* bound: ticks of the clock
  GraceTicks,   \* DISABLE_GRACE_MS
  WindowTicks,  \* FORCE_WINDOW
  Never         \* disabled_at = None

\* letter is consumed by an engine that is on, enter only with a composition.
OffKeys == {"toggle", "muhenkan"}
Keys == OffKeys \cup {"henkan", "letter", "enter"}
Engines == 1 .. MaxEngines

VARIABLES
  created,     \* ENGINE_SEQ
  live,        \* contexts not destroyed
  focus,       \* context in focus, or 0
  enabled,     \* enabled of every context
  composing,   \* it holds a preedit or a conversion
  owed,        \* pending_release
  disabledAt,  \* disabled_at
  closing,     \* key of a call that is turning the context off, or "none"
  deadline,    \* ForceEnable: end of the window; 0 is None
  now,
  press,       \* what became of the press of every key
  orphans,     \* the key last released, if its press was consumed and that was not
  forced       \* contexts turned on by the window since it was opened

vars == <<created, live, focus, enabled, composing, owed, disabledAt, closing,
          deadline, now, press, orphans, forced>>

TypeOK ==
  /\ created \in 0 .. MaxEngines
  /\ live \subseteq 1 .. created
  /\ focus \in live \cup {0}
  /\ enabled \in [Engines -> BOOLEAN]
  /\ composing \in [Engines -> BOOLEAN]
  /\ owed \in [Engines -> SUBSET OffKeys]
  /\ disabledAt \in [Engines -> 0 .. MaxTime \cup {Never}]
  /\ closing \in [Engines -> OffKeys \cup {"none"}]
  /\ deadline \in 0 .. MaxTime + WindowTicks
  /\ now \in 0 .. MaxTime
  /\ press \in [Keys -> {"up", "consumed", "passed", "elsewhere"}]
  /\ orphans \subseteq Keys
  /\ forced \subseteq Engines

Init ==
  /\ created = 0
  /\ live = {}
  /\ focus = 0
  /\ enabled = [e \in Engines |-> FALSE]
  /\ composing = [e \in Engines |-> FALSE]
  /\ owed = [e \in Engines |-> {}]
  /\ disabledAt = [e \in Engines |-> Never]
  /\ closing = [e \in Engines |-> "none"]
  /\ deadline = 0
  /\ now = 0
  /\ press = [k \in Keys |-> "up"]
  /\ orphans = {}
  /\ forced = {}

-----------------------------------------------------------------------------
ForceActive == now < deadline

\* apply_force_enable, at the start of focus_in, enable and a key press.
On(e) == enabled[e] \/ ForceActive
Forced(e) == IF ForceActive /\ ~enabled[e] THEN forced \cup {e} ELSE forced

\* A call comes to a context in focus that is not in the middle of another.
Ready(e) == focus = e /\ closing[e] = "none"

Pressed(k, fate) == press' = [press EXCEPT ![k] = fate]

\* The releases of keys that are down will come to someone else.
Elsewhere == [k \in Keys |-> IF press[k] = "up" THEN "up" ELSE "elsewhere"]

-----------------------------------------------------------------------------
(* Key presses; a key that is down repeats                                  *)

Henkan(e) ==
  /\ Ready(e)
  /\ enabled' = [enabled EXCEPT ![e] = TRUE]
  /\ forced' = Forced(e)
  /\ Pressed("henkan", "consumed")
  /\ UNCHANGED <<created, live, focus, composing, owed, disabledAt, closing,
                 deadline, now, orphans>>

\* Muhenkan, and the toggle key of a context that is on (by now): the
\* composition goes first, and the signals of cancel_input are sent.
TurnOff(e, k) ==
  /\ Ready(e)
  /\ k = "toggle" => On(e)
  /\ enabled' = [enabled EXCEPT ![e] = On(e)]
  /\ composing' = [composing EXCEPT ![e] = FALSE]
  /\ closing' = [closing EXCEPT ![e] = k]
  /\ forced' = Forced(e)
  /\ Pressed(k, "consumed")
  /\ UNCHANGED <<created, live, focus, owed, disabledAt, deadline, now, orphans>>

\* Mutant: the release of the key that turned the context off is not owed.
BuggyOff(e) ==
  /\ closing[e] # "none"
  /\ enabled' = [enabled EXCEPT ![e] = FALSE]
  /\ disabledAt' = [disabledAt EXCEPT ![e] = now]
  /\ closing' = [closing EXCEPT ![e] = "none"]
  /\ UNCHANGED <<created, live, focus, composing, owed, deadline, now, press,
                 orphans, forced>>

\* The switch, mark_disabled and pending_release, when they have been sent.
Off(e) ==
  /\ closing[e] # "none"
  /\ enabled' = [enabled EXCEPT ![e] = FALSE]
  /\ disabledAt' = [disabledAt EXCEPT ![e] = now]
  /\ owed' = [owed EXCEPT ![e] = @ \cup {closing[e]}]
  /\ closing' = [closing EXCEPT ![e] = "none"]
  /\ UNCHANGED <<created, live, focus, composing, deadline, now, press,
                 orphans, forced>>

ToggleOn(e) ==
  /\ Ready(e)
  /\ ~On(e)
  /\ enabled' = [enabled EXCEPT ![e] = TRUE]
  /\ owed' = [owed EXCEPT ![e] = @ \cup {"toggle"}]
  /\ Pressed("toggle", "consumed")
  /\ UNCHANGED <<created, live, focus, composing, disabledAt, closing,
                 deadline, now, orphans, forced>>

\* Mutant: keys reach the engine whether the context is on or not.
BuggyType(e) ==
  /\ Ready(e)
  /\ enabled' = [enabled EXCEPT ![e] = On(e)]
  /\ composing' = [composing EXCEPT ![e] = TRUE]
  /\ forced' = Forced(e)
  /\ Pressed("letter", "consumed")
  /\ UNCHANGED <<created, live, focus, owed, disabledAt, closing, deadline,
                 now, orphans>>

\* A letter, to the engine or past it.
Type(e) ==
  /\ Ready(e)
  /\ enabled' = [enabled EXCEPT ![e] = On(e)]
  /\ composing' = [composing EXCEPT ![e] = On(e)]
  /\ forced' = Forced(e)
  /\ Pressed("letter", IF On(e) THEN "consumed" ELSE "passed")
  /\ UNCHANGED <<created, live, focus, owed, disabledAt, closing, deadline,
                 now, orphans>>

Enter(e) ==
  /\ Ready(e)
  /\ enabled' = [enabled EXCEPT ![e] = On(e)]
  /\ composing' = [composing EXCEPT ![e] = FALSE]
  /\ forced' = Forced(e)
  /\ Pressed("enter", IF composing[e] THEN "consumed" ELSE "passed")
  /\ UNCHANGED <<created, live, focus, owed, disabledAt, closing, deadline,
                 now, orphans>>

-----------------------------------------------------------------------------
(* Releases                                                                 *)

InGrace(e) == disabledAt[e] # Never /\ now - disabledAt[e] < GraceTicks

ReleaseConsumed(e, k) == k \in owed[e] \/ enabled[e] \/ InGrace(e)

Release(e, k) ==
  /\ Ready(e)
  /\ press[k] # "up"
  /\ owed' = [owed EXCEPT ![e] = @ \ {k}]
  /\ orphans' = IF press[k] = "consumed" /\ ~ReleaseConsumed(e, k)
                  THEN {k} ELSE {}
  /\ Pressed(k, "up")
  /\ UNCHANGED <<created, live, focus, enabled, composing, disabledAt,
                 closing, deadline, now, forced>>

\* A release while no context of ours has the focus.
ReleaseOutside(k) ==
  /\ focus = 0
  /\ press[k] # "up"
  /\ Pressed(k, "up")
  /\ UNCHANGED <<created, live, focus, enabled, composing, owed, disabledAt,
                 closing, deadline, now, orphans, forced>>

-----------------------------------------------------------------------------
(* The daemon's other calls                                                 *)

\* create_engine
CreateEngine ==
  /\ created < MaxEngines
  /\ created' = created + 1
  /\ live' = live \cup {created'}
  /\ UNCHANGED <<focus, enabled, composing, owed, disabledAt, closing,
                 deadline, now, press, orphans, forced>>

\* destroy, of a context out of focus.
Destroy(e) ==
  /\ e \in live
  /\ focus # e
  /\ live' = live \ {e}
  /\ UNCHANGED <<created, focus, enabled, composing, owed, disabledAt, closing,
                 deadline, now, press, orphans, forced>>

\* focus_in and enable.
FocusIn(e) ==
  /\ e \in live
  /\ focus = 0
  /\ focus' = e
  /\ enabled' = [enabled EXCEPT ![e] = On(e)]
  /\ forced' = Forced(e)
  /\ UNCHANGED <<created, live, composing, owed, disabledAt, closing, deadline,
                 now, press, orphans>>

\* focus_out: the mode stays.
FocusOut(e) ==
  /\ Ready(e)
  /\ focus' = 0
  /\ composing' = [composing EXCEPT ![e] = FALSE]
  /\ owed' = [owed EXCEPT ![e] = {}]
  /\ press' = Elsewhere
  /\ UNCHANGED <<created, live, enabled, disabledAt, closing, deadline, now,
                 orphans, forced>>

\* reset: cancel_input.
Reset(e) ==
  /\ Ready(e)
  /\ composing' = [composing EXCEPT ![e] = FALSE]
  /\ UNCHANGED <<created, live, focus, enabled, owed, disabledAt, closing,
                 deadline, now, press, orphans, forced>>

\* disable
Disable(e) ==
  /\ Ready(e)
  /\ composing' = [composing EXCEPT ![e] = FALSE]
  /\ enabled' = [enabled EXCEPT ![e] = FALSE]
  /\ disabledAt' = [disabledAt EXCEPT ![e] = now]
  /\ owed' = [owed EXCEPT ![e] = {}]
  /\ press' = Elsewhere
  /\ UNCHANGED <<created, live, focus, closing, deadline, now, orphans, forced>>

\* force_enable and force_enable_clear, from the dialog.
ForceEnable ==
  /\ deadline' = now + WindowTicks
  /\ forced' = {}
  /\ UNCHANGED <<created, live, focus, enabled, composing, owed, disabledAt,
                 closing, now, press, orphans>>

ForceEnableClear ==
  /\ deadline' = 0
  /\ UNCHANGED <<created, live, focus, enabled, composing, owed, disabledAt,
                 closing, now, press, orphans, forced>>

Tick ==
  /\ now < MaxTime
  /\ now' = now + 1
  /\ UNCHANGED <<created, live, focus, enabled, composing, owed, disabledAt,
                 closing, deadline, press, orphans, forced>>

Next ==
  \/ \E e \in Engines :
       \/ Henkan(e) \/ \E k \in OffKeys : TurnOff(e, k)
       \/ Off(e) \/ ToggleOn(e) \/ Type(e) \/ Enter(e)
       \/ \E k \in Keys : Release(e, k)
       \/ Destroy(e) \/ FocusIn(e) \/ FocusOut(e) \/ Reset(e) \/ Disable(e)
  \/ \E k \in Keys : ReleaseOutside(k)
  \/ CreateEngine \/ ForceEnable \/ ForceEnableClear \/ Tick

Spec == Init /\ [][Next]_vars

-----------------------------------------------------------------------------
(* Properties                                                               *)

\* The release of a key that switched a context is consumed, however late it
\* comes and whatever is pressed or switched meanwhile, unless the focus has
\* changed: the application never sees it without its press.
OwnReleaseConsumed == orphans \cap OffKeys = {}

\* pending_release holds no debt that outlives its key: a context only waits
\* for releases of keys that are down, whose press it has consumed, while it
\* has the focus.
NoStaleDebt ==
  \A e \in Engines : \A k \in owed[e] : focus = e /\ press[k] = "consumed"

\* A switching key's release goes where its press went.
ReleaseFollowsPress == OwnReleaseConsumed /\ NoStaleDebt

\* A context that is off or out of focus holds no composition that its user
\* could neither see, finish nor cancel.
OffHoldsNothing == \A e \in Engines : composing[e] => enabled[e] /\ focus = e

\* The comment on the release gate (engine_impl.rs:285-286): any key whose
\* press was consumed has its release consumed too.
EveryReleaseConsumed == orphans = {}

\* The doc of force_enable (factory.rs:64-65): the next context to focus or
\* receive a key turns itself on; one, then.
ForceTurnsOneOn ==
  \A e, f \in forced : e = f
=============================================================================
