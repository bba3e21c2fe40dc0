-------------------------------- MODULE Fcitx --------------------------------
(***************************************************************************)
(* The Fcitx5 frontend: the event handling of the addon and the C interface *)
(* (FcitxFrontend), and the layout of a conversion in the structure it      *)
(* hands over (Ui).  The two share no variable.                             *)
(***************************************************************************)
EXTENDS FcitxFrontend

CONSTANTS
  MaxSegments,    \* MAX_SEGMENTS
  MaxCandidates,  \* MAX_CANDIDATES
  Sizes,          \* numbers of segments explored
  Totals,         \* numbers of candidates explored
  MaxText         \* bound: length of the composed text

ASSUME SlotsAssumption ==
  MaxSegments \in Nat \ {0} /\ MaxCandidates \in Nat \ {0}
ASSUME SizesAssumption ==
  Sizes \subseteq Nat \ {0} /\ Totals \subseteq Nat \ {0} /\ MaxText \in Nat

VARIABLES n, ends, total, selected, focus  \* of the layout

uiVars == <<n, ends, total, selected, focus>>

Ui == INSTANCE FcitxUi

\* The panel marks the candidate that a commit inserts, in a window within
\* the candidates (FcitxUi).
WindowShowsSelection == Ui!WindowShowsSelection

\* The slots cover the text, and the highlighted one has the focused segment
\* (FcitxUi).
PreeditShowsText == Ui!PreeditShowsText
=============================================================================
