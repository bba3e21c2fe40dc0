------------------------------- MODULE MCFcitx -------------------------------
(* A behaviour moves one part of the Fcitx5 frontend and leaves the other    *)
(* where it starts.                                                          *)
EXTENDS Fcitx

CONSTANT Parts  \* parts explored
VARIABLE part

MCParts == {"layout", "frontend"}
MCFrontendOnly == {"frontend"}
MCSizes == 1 .. 3
MCTotals == {1, 5}
MCAllKinds == Kinds
MCFewKinds == {"letter", "space", "resize", "enter", "escape"}

allVars == <<part, vars, uiVars>>

MCInit == part \in Parts /\ Init /\ Ui!Init

MCNext ==
  \/ part = "layout" /\ Ui!Next /\ UNCHANGED <<part, vars>>
  \/ part = "frontend" /\ Next /\ UNCHANGED <<part, uiVars>>

MCSpec == MCInit /\ [][MCNext]_allVars

\* The fairness of FcitxFrontend; the layout needs none.
MCFairSpec == MCSpec /\ WF_vars(Timer)
=============================================================================
