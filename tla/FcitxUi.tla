------------------------------- MODULE FcitxUi -------------------------------
(***************************************************************************)
(* What bonolith_get_ui_state (src/src/ffi.rs) puts into its arrays of fixed *)
(* size during a conversion: the segments of the composed text, the last    *)
(* slot taking in all that have none of their own, and a window into the    *)
(* candidates of the focused segment.                                       *)
(*                                                                          *)
(* Segments and candidates are numbered from 0, as in the code; ends[i] is  *)
(* where the text of segment i ends.                                        *)
(***************************************************************************)
EXTENDS Integers

CONSTANTS
  MaxSegments,    \* MAX_SEGMENTS
  MaxCandidates,  \* MAX_CANDIDATES
  Sizes,          \* numbers of segments explored
  Totals,         \* numbers of candidates explored
  MaxText         \* bound: length of the composed text

VARIABLES
  n,         \* number of segments
  ends,      \* ends of the segments in the composed text
  total,     \* number of candidates of every segment
  selected,  \* its selected candidate
  focus      \* the focused segment

vars == <<n, ends, total, selected, focus>>

Segments == 0 .. n - 1

Least(a, b) == IF a <= b THEN a ELSE b

-----------------------------------------------------------------------------
(* The conversion, as far as the display depends on it                      *)

\* segment_char_ranges
Start(i) == IF i = 0 THEN 0 ELSE ends[i - 1]
Range(i) == [first |-> Start(i), last |-> ends[i]]

Increasing(m, f) ==
  /\ f[0] > 0
  /\ \A i, j \in 0 .. m - 1 : i < j => f[i] < f[j]

\* A conversion, as start_conversion and resize_segment make them.
Convert(m) ==
  /\ n' = m
  /\ ends' \in {f \in [0 .. m - 1 -> 1 .. MaxText] : Increasing(m, f)}
  /\ total' \in [0 .. m - 1 -> Totals]
  /\ selected' = [i \in 0 .. m - 1 |-> 0]
  /\ focus' \in 0 .. m - 1

MoveFocus(step) ==
  /\ focus' = IF step > 0 THEN (IF focus + 1 = n THEN 0 ELSE focus + 1)
              ELSE IF focus = 0 THEN n - 1 ELSE focus - 1
  /\ UNCHANGED <<n, ends, total, selected>>

\* The candidate that is selected, and where the texts end then.
Select(choice) ==
  /\ choice \in 0 .. total[focus] - 1
  /\ selected' = [selected EXCEPT ![focus] = choice]
  /\ \E end \in Start(focus) + 1 .. MaxText :
       ends' = [i \in Segments |->
                  IF i < focus THEN ends[i] ELSE ends[i] + end - ends[focus]]
  /\ UNCHANGED <<n, total, focus>>

\* cycle_candidate
CycleCandidate(step) ==
  Select(IF step > 0
           THEN IF selected[focus] + 1 = total[focus] THEN 0
                ELSE selected[focus] + 1
         ELSE IF selected[focus] = 0 THEN total[focus] - 1
         ELSE selected[focus] - 1)

Init ==
  /\ n = 1
  /\ ends = [i \in 0 .. 0 |-> 1]
  /\ total = [i \in 0 .. 0 |-> 1]
  /\ selected = [i \in 0 .. 0 |-> 0]
  /\ focus = 0

Next ==
  \/ \E m \in Sizes : Convert(m)
  \/ \E step \in {-1, 1} : MoveFocus(step) \/ CycleCandidate(step)

Spec == Init /\ [][Next]_vars

-----------------------------------------------------------------------------
(* bonolith_get_ui_state                                                    *)

\* compress_segments_for_display
Visible == Least(n, MaxSegments)

\* Mutant: the segments without a slot are left out.
BuggySlot(i) == Range(i)

Slot(i) ==
  IF i = Visible - 1 /\ n > MaxSegments
    THEN [first |-> Start(i), last |-> ends[n - 1]]
    ELSE Range(i)

FocusSlot(f) == Least(f, Visible - 1)

\* The window: count candidates from start on, the selected one at place.
Count == Least(total[focus], MaxCandidates)

\* Mutant: the window never moves.
BuggyWindowStart(choice) == 0

WindowStart(choice) == IF choice < Count THEN 0 ELSE choice + 1 - Count

Place(choice) == Least(choice - WindowStart(choice), Count - 1)

-----------------------------------------------------------------------------
(* Properties                                                               *)

TypeOK ==
  /\ n \in Nat \ {0}
  /\ ends \in [Segments -> Nat]
  /\ Increasing(n, ends)
  /\ total \in [Segments -> Nat \ {0}]
  /\ selected \in [Segments -> Nat]
  /\ focus \in Segments

\* The candidate the panel marks is the one that a commit would insert ...
SelectedShown ==
  /\ WindowStart(selected[focus]) + Place(selected[focus]) = selected[focus]
  /\ Place(selected[focus]) \in 0 .. Count - 1

\* ... in a window that lies within the candidates and is all of them if
\* they fit.
WindowInside ==
  /\ 0 <= WindowStart(selected[focus])
  /\ WindowStart(selected[focus]) + Count <= total[focus]
  /\ total[focus] <= MaxCandidates => Count = total[focus]

\* What the panel marks is what a commit inserts, for lists of any length.
WindowShowsSelection == SelectedShown /\ WindowInside

\* The slots together are the composed text that a commit would insert, from
\* its start to its end, without a gap or an overlap ...
TextShown ==
  /\ Slot(0).first = 0
  /\ \A i \in 0 .. Visible - 2 : Slot(i + 1).first = Slot(i).last
  /\ Slot(Visible - 1).last = ends[n - 1]

\* ... and the highlighted one has the focused segment.
FocusShown ==
  /\ FocusSlot(focus) \in 0 .. Visible - 1
  /\ Slot(FocusSlot(focus)).first <= Start(focus)
  /\ ends[focus] <= Slot(FocusSlot(focus)).last

\* The preedit shows the text a commit inserts and where the focus is, for
\* any number of segments.
PreeditShowsText == TextShown /\ FocusShown
=============================================================================
