------------------------------ MODULE SplitPane ------------------------------
(***************************************************************************)
(* app.js, initSub32SplitResize: two panes and the divider between them.   *)
(* All lengths are in pixels; the width of the container less that of the  *)
(* divider is one number.                                                  *)
(***************************************************************************)
EXTENDS PageParameters

MIN_PANE_WIDTH == 180

VARIABLES
  total,     \* width of both panes
  left,      \* width set for the left pane, if `absolute`
  right,     \* width set for the right pane, if `absolute`
  absolute,  \* are the widths set in pixels? otherwise they are 50% each
  dragging,  \* isDragging
  resized    \* history: was the window resized after the widths were set?

split == <<total, left, right, absolute, dragging, resized>>

SplitTypeOK ==
  /\ total \in Totals
  /\ {left, right} \subseteq Int
  /\ {absolute, dragging, resized} \subseteq BOOLEAN

SplitInit ==
  /\ total \in Totals
  /\ left = 0 /\ right = 0
  /\ absolute = FALSE /\ dragging = FALSE /\ resized = FALSE

\* Math.floor(totalPaneWidth * MAX_PANE_RATIO)
maxPaneWidth == (4 * total) \div 5

Smaller(a, b) == IF a < b THEN a ELSE b
Larger(a, b) == IF a > b THEN a ELSE b

\* Mutant: the right pane is not kept at its minimum.
MaxLeftByRatio == maxPaneWidth

minLeft == Larger(MIN_PANE_WIDTH, total - maxPaneWidth)
maxLeft == Smaller(maxPaneWidth, total - MIN_PANE_WIDTH)

\* mousedown on the divider
Grab ==
  /\ ~dragging
  /\ dragging' = TRUE
  /\ UNCHANGED <<total, left, right, absolute, resized>>

\* mousemove, updatePaneSizes: the upper limit has the last word.
Drag(x) ==
  /\ dragging
  /\ left' = Smaller(Larger(x, minLeft), maxLeft)
  /\ right' = total - left'
  /\ absolute' = TRUE
  /\ resized' = FALSE
  /\ UNCHANGED <<total, dragging>>

\* mouseup, anywhere
Release ==
  /\ dragging
  /\ dragging' = FALSE
  /\ UNCHANGED <<total, left, right, absolute, resized>>

\* dblclick on the divider: resetPaneSizes
ResetPanes ==
  /\ left' = 0 /\ right' = 0
  /\ absolute' = FALSE
  /\ resized' = FALSE
  /\ UNCHANGED <<total, dragging>>

\* The window is resized; nothing adapts widths in pixels.
Resize(width) ==
  /\ total' = width
  /\ resized' = TRUE
  /\ UNCHANGED <<left, right, absolute, dragging>>

SplitNext ==
  \/ Grab
  \/ \E x \in Pointers : Drag(x)
  \/ Release
  \/ ResetPanes
  \/ \E width \in Totals : Resize(width)

SplitSpec == SplitInit /\ [][SplitNext]_split

\* Wherever the mouse goes, the panes fill the container and the right one keeps
\* its minimum; so does the left one where there is room for both, and then none
\* takes more than four fifths.  A container narrower than one minimum gives the
\* left pane a negative width.
PanesFit == (absolute /\ ~resized) =>
  /\ left + right = total
  /\ right >= MIN_PANE_WIDTH
  /\ total >= MIN_PANE_WIDTH => left >= 0
  /\ total >= 2 * MIN_PANE_WIDTH =>
       /\ left >= MIN_PANE_WIDTH
       /\ 5 * left <= 4 * total /\ 5 * right <= 4 * total
=============================================================================
