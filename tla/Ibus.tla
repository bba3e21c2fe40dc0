-------------------------------- MODULE Ibus --------------------------------
(***************************************************************************)
(* The IBus frontend: the gate in front of the engines (Gate), and what     *)
(* happens to the keys that pass it (IbusFrontend).  The two share no       *)
(* variable.                                                                *)
(***************************************************************************)
EXTENDS IbusFrontend

CONSTANTS
  MaxEngines,   \* bound: input contexts created
  MaxTime,      \* bound: ticks of the clock
  GraceTicks,   \* DISABLE_GRACE_MS
  WindowTicks,  \* FORCE_WINDOW
  Never         \* disabled_at = None

ASSUME ClockAssumption ==
  {MaxEngines, MaxTime, GraceTicks, WindowTicks} \subseteq Nat

VARIABLES
  created, live, focus, enabled, composing, owed, disabledAt, closing,
  deadline, now, press, orphans, forced  \* of the gate

gateVars == <<created, live, focus, enabled, composing, owed, disabledAt,
              closing, deadline, now, press, orphans, forced>>

Gate == INSTANCE IbusGate

\* The application never sees the release of a key that has switched a
\* context in focus, and no debt outlives its key (IbusGate).
ReleaseFollowsPress == Gate!ReleaseFollowsPress

\* A context that is off or out of focus holds no composition (IbusGate).
OffHoldsNothing == Gate!OffHoldsNothing
=============================================================================
