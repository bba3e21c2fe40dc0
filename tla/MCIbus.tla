-------------------------------- MODULE MCIbus --------------------------------
(* A behaviour moves one part of the IBus frontend and leaves the other       *)
(* where it starts.                                                           *)
EXTENDS Ibus

CONSTANTS
  Parts,  \* parts explored
  c1, r1  \* model values

VARIABLE part

MCParts == {"gate", "frontend"}
MCFrontendOnly == {"frontend"}
MCOneCall == {c1}
MCOneTask == {r1}
MCAllKinds == Kinds
MCRefreshKinds == {"letter", "space", "cycle", "resize", "enter", "escape"}

allVars == <<part, vars, gateVars>>

MCInit == part \in Parts /\ Init /\ Gate!Init

MCNext ==
  \/ part = "gate" /\ Gate!Next /\ UNCHANGED <<part, vars>>
  \/ part = "frontend" /\ Next /\ UNCHANGED <<part, gateVars>>

MCSpec == MCInit /\ [][MCNext]_allVars

\* The fairness of IbusFrontend; the gate needs none.
MCFairSpec ==
  /\ MCSpec
  /\ \A c \in Calls : WF_vars(Step(c))
  /\ \A t \in Tasks : WF_vars(RefreshStep(t))
=============================================================================
