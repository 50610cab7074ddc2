----------------------------- MODULE PagesProofs -----------------------------
(***************************************************************************)
(* Proofs about the parts of the browser that are models of their own,     *)
(* SplitPane, Lightbox and CardSlip, and about MCPages, which has all the  *)
(* parts side by side: what is proved of each part, for any values of the  *)
(* constants, holds of every behaviour of the pages.                       *)
(***************************************************************************)
EXTENDS MCPages, SessionProofs, RequestProofs, ConnectionProofs,
        WellFoundedInduction, TLAPS

----------------------------------------------------------------------------
(* SplitPane *)

\* The inductive invariant.
SplitInv == SplitTypeOK /\ PanesFit

\* Four fifths of a width, rounded down.
LEMMA FourFifths ==
  ASSUME total \in Nat
  PROVE  /\ maxPaneWidth \in Nat
         /\ 5 * maxPaneWidth <= 4 * total
         /\ 4 * total <= 5 * maxPaneWidth + 4
BY DEF maxPaneWidth

\* Dragging to any position keeps the panes within their limits: with room for
\* two minimal panes, the lower limit is not above the upper one.
LEMMA DragFits ==
  ASSUME SplitTypeOK, NEW x \in Int, Drag(x)
  PROVE  {left', right'} \subseteq Int /\ PanesFit'
<1>1. total \in Nat /\ total' = total
  BY LengthsAssumption DEF SplitTypeOK, Drag
<1> DEFINE most == maxPaneWidth
<1>2. most \in Nat /\ 5 * most <= 4 * total /\ 4 * total <= 5 * most + 4
  BY <1>1, FourFifths
<1>3. PICK low : low = minLeft
  OBVIOUS
<1>4. PICK high : high = maxLeft
  OBVIOUS
<1>5. /\ low = IF 180 > total - most THEN 180 ELSE total - most
      /\ high = IF most < total - 180 THEN most ELSE total - 180
  BY <1>3, <1>4 DEF minLeft, maxLeft, Larger, Smaller, MIN_PANE_WIDTH
<1>6. /\ left' = IF (IF x > low THEN x ELSE low) < high
                 THEN (IF x > low THEN x ELSE low) ELSE high
      /\ right' = total - left'
  BY <1>3, <1>4 DEF Drag, Larger, Smaller
<1> HIDE DEF most
<1>7. low \in Int /\ high \in Int
  BY <1>1, <1>2, <1>5
<1>8. left' \in Int /\ right' \in Int
  BY <1>1, <1>6, <1>7
<1>9. left' <= high /\ (low <= high => left' >= low)
  BY <1>6, <1>7
<1>10. right' >= 180
  BY <1>1, <1>2, <1>5, <1>6, <1>7, <1>8, <1>9
<1>11. total >= 180 => left' >= 0
  BY <1>1, <1>2, <1>5, <1>6, <1>7, <1>8, <1>9
<1>12. ASSUME total >= 360
       PROVE  left' >= 180 /\ 5 * left' <= 4 * total /\ 5 * right' <= 4 * total
  <2>1. low <= high
    BY <1>1, <1>2, <1>5, <1>12
  <2>2. left' >= low /\ left' <= high
    BY <2>1, <1>9
  <2>3. low >= 180 /\ low >= total - most /\ high <= most
    BY <1>1, <1>2, <1>5
  <2> QED
    BY <2>2, <2>3, <1>1, <1>2, <1>6, <1>7, <1>8
<1> QED
  BY <1>1, <1>6, <1>8, <1>10, <1>11, <1>12 DEF PanesFit, MIN_PANE_WIDTH

\* Every step keeps the invariant.
LEMMA SplitInvNext == SplitInv /\ [SplitNext]_split => SplitInv'
<1> SUFFICES ASSUME SplitInv, [SplitNext]_split
             PROVE  SplitInv'
  OBVIOUS
<1> USE DEF SplitInv
<1>1. CASE Grab
  BY <1>1 DEF Grab, SplitTypeOK, PanesFit
<1>2. ASSUME NEW x \in Pointers, Drag(x)
      PROVE  SplitInv'
  <2>1. x \in Int
    BY LengthsAssumption
  <2>2. {left', right'} \subseteq Int /\ PanesFit'
    BY <1>2, <2>1, DragFits
  <2> QED
    BY <1>2, <2>2 DEF Drag, SplitTypeOK
<1>3. CASE Release
  BY <1>3 DEF Release, SplitTypeOK, PanesFit
<1>4. CASE ResetPanes
  <2>1. absolute' = FALSE /\ resized' = FALSE /\ left' = 0 /\ right' = 0
        /\ total' = total /\ dragging' = dragging
    BY <1>4 DEF ResetPanes
  <2>2. {absolute', dragging', resized'} \subseteq BOOLEAN
    BY <2>1, Zenon DEF SplitTypeOK
  <2>3. total' \in Totals /\ {left', right'} \subseteq Int
    BY <2>1 DEF SplitTypeOK
  <2> QED
    BY <2>1, <2>2, <2>3 DEF SplitTypeOK, PanesFit
<1>5. ASSUME NEW width \in Totals, Resize(width)
      PROVE  SplitInv'
  BY <1>5 DEF Resize, SplitTypeOK, PanesFit
<1>6. CASE UNCHANGED split
  BY <1>6 DEF split, SplitTypeOK, PanesFit, MIN_PANE_WIDTH
<1> QED
  BY <1>1, <1>2, <1>3, <1>4, <1>5, <1>6 DEF SplitNext

\* The invariant holds initially.
LEMMA SplitInvInit == SplitInit => SplitInv
<1> SUFFICES ASSUME SplitInit
             PROVE  SplitInv
  OBVIOUS
<1>1. {absolute, dragging, resized} \subseteq BOOLEAN
  BY Zenon DEF SplitInit
<1>2. total \in Totals /\ {left, right} \subseteq Int
  BY DEF SplitInit
<1> QED
  BY <1>1, <1>2 DEF SplitInit, SplitInv, SplitTypeOK, PanesFit

\* However the divider is dragged, at any width: see PanesFit in SplitPane.
THEOREM PanesAlwaysFit == SplitSpec => []PanesFit
BY SplitInvInit, SplitInvNext, PTL DEF SplitSpec, SplitInv

----------------------------------------------------------------------------
(* Lightbox *)

\* An overlay covers what opens one: there is one at most, and it is the last.
OneOverlay ==
  /\ \A kind \in Zoomable : overlay[kind] <= opened
  /\ \A j, k \in Zoomable : overlay[j] # 0 /\ overlay[k] # 0 => j = k

\* The inductive invariant.
LightboxInv == LightboxTypeOK /\ KeysOwned /\ OneOverlay

\* The invariant holds initially.
LEMMA LightboxInvInit == LightboxInit => LightboxInv
BY OpenedBound DEF LightboxInit, LightboxInv, LightboxTypeOK, KeysOwned, OneOverlay

\* Opening adds the listener of the only overlay.
LEMMA OpenKeeps ==
  ASSUME LightboxInv, NEW kind \in Zoomable, Open(kind)
  PROVE  LightboxInv'
<1> USE OpenedBound DEF LightboxInv
<1>1. /\ \A k \in Zoomable : overlay[k] = 0
      /\ listening = {}
  BY DEF Open, Covered, LightboxTypeOK, KeysOwned
<1>2. PICK o : o = opened + 1
  OBVIOUS
<1>3. /\ o \in 1..MaxOpened /\ opened' = o
      /\ overlay' = [overlay EXCEPT ![kind] = o]
      /\ listening' = {o} /\ media' = media
  BY <1>1, <1>2 DEF Open, LightboxTypeOK
<1>4. /\ overlay' \in [Zoomable -> 0..MaxOpened]
      /\ \A k \in Zoomable : overlay'[k] = IF k = kind THEN o ELSE 0
  BY <1>1, <1>3 DEF LightboxTypeOK
<1>5. LightboxTypeOK'
  BY <1>3, <1>4 DEF LightboxTypeOK
<1>6. KeysOwned'
  BY <1>3, <1>4 DEF KeysOwned
<1>7. OneOverlay'
  BY <1>3, <1>4 DEF OneOverlay
<1> QED
  BY <1>5, <1>6, <1>7

\* Closing an overlay takes away its listener and no other one.
LEMMA ClickKeeps ==
  ASSUME LightboxInv, NEW kind \in Zoomable, Click(kind)
  PROVE  LightboxInv'
<1> USE DEF LightboxInv
<1>1. PICK o : o = overlay[kind]
  OBVIOUS
<1>2. /\ o # 0 /\ o \in 0..MaxOpened
      /\ overlay' = [overlay EXCEPT ![kind] = 0]
      /\ listening' = listening \ {o}
      /\ media' = media /\ opened' = opened
  BY <1>1 DEF Click, Unregistered, LightboxTypeOK
<1>3. \A k \in Zoomable : k # kind => overlay[k] = 0
  BY <1>1, <1>2 DEF OneOverlay
<1>4. listening = {o}
  BY <1>1, <1>2, <1>3 DEF KeysOwned
<1>5. /\ overlay' \in [Zoomable -> 0..MaxOpened]
      /\ \A k \in Zoomable : overlay'[k] = 0
  BY <1>2, <1>3, OpenedBound DEF LightboxTypeOK
<1>6. LightboxTypeOK'
  BY <1>2, <1>5 DEF LightboxTypeOK
<1>7. KeysOwned'
  BY <1>2, <1>4, <1>5 DEF KeysOwned
<1>8. OneOverlay'
  BY <1>2, <1>5 DEF OneOverlay, LightboxTypeOK
<1> QED
  BY <1>6, <1>7, <1>8

\* Escape closes every overlay, for every one of them listens.
LEMMA EscapeKeeps ==
  ASSUME LightboxInv, Escape
  PROVE  LightboxInv'
<1> USE DEF LightboxInv
<1>1. \A k \in Zoomable : overlay[k] # 0 => overlay[k] \in listening
  BY DEF KeysOwned
<1>2. /\ overlay' \in [Zoomable -> 0..MaxOpened]
      /\ \A k \in Zoomable : overlay'[k] = 0
  BY <1>1, OpenedBound DEF Escape, LightboxTypeOK
<1>3. listening' = {} /\ opened' = opened /\ media' = media
  BY DEF Escape
<1>4. LightboxTypeOK'
  BY <1>2, <1>3 DEF LightboxTypeOK
<1>5. KeysOwned'
  BY <1>2, <1>3 DEF KeysOwned
<1>6. OneOverlay'
  BY <1>2, <1>3 DEF OneOverlay, LightboxTypeOK
<1> QED
  BY <1>4, <1>5, <1>6

\* Every step keeps the invariant.
LEMMA LightboxInvNext == LightboxInv /\ [LightboxNext]_lightbox => LightboxInv'
<1> SUFFICES ASSUME LightboxInv, [LightboxNext]_lightbox
             PROVE  LightboxInv'
  OBVIOUS
<1>1. ASSUME NEW kind \in Kinds, Arrive(kind)
      PROVE  LightboxInv'
  BY <1>1 DEF Arrive, LightboxInv, LightboxTypeOK, KeysOwned, OneOverlay
<1>2. CASE ClearChat
  BY <1>2 DEF ClearChat, LightboxInv, LightboxTypeOK, KeysOwned, OneOverlay
<1>3. ASSUME NEW kind \in Zoomable, Open(kind)
      PROVE  LightboxInv'
  BY <1>3, OpenKeeps
<1>4. ASSUME NEW kind \in Zoomable, Click(kind)
      PROVE  LightboxInv'
  BY <1>4, ClickKeeps
<1>5. CASE Escape
  BY <1>5, EscapeKeeps
<1>6. CASE UNCHANGED lightbox
  BY <1>6 DEF lightbox, LightboxInv, LightboxTypeOK, KeysOwned, OneOverlay
<1> QED
  BY <1>1, <1>2, <1>3, <1>4, <1>5, <1>6 DEF LightboxNext

\* No listener outlives its overlay, and no overlay goes without one.
THEOREM KeysAreOwned == LightboxSpec => []KeysOwned
BY LightboxInvInit, LightboxInvNext, PTL DEF LightboxSpec, LightboxInv

----------------------------------------------------------------------------
(* CardSlip *)

\* A slip leaves a sequence of digits.
LEMMA SlipKeeps == CardTypeOK /\ [CardNext]_number => CardTypeOK'
<1> SUFFICES ASSUME number \in Seq(0..9), Slip
             PROVE  number' \in Seq(0..9)
  BY DEF CardTypeOK, CardNext
<1>1. ASSUME NEW i \in DOMAIN number, NEW d \in 0..9,
             number' = [number EXCEPT ![i] = d]
      PROVE  number' \in Seq(0..9)
  BY <1>1
<1>2. ASSUME NEW i \in 1..Len(number) - 1,
             number' = [number EXCEPT ![i] = number[i + 1], ![i + 1] = number[i]]
      PROVE  number' \in Seq(0..9)
  <2>1. i \in DOMAIN number /\ i + 1 \in DOMAIN number
    OBVIOUS
  <2>2. number[i] \in 0..9 /\ number[i + 1] \in 0..9
    BY <2>1
  <2> QED
    BY <1>2, <2>1, <2>2
<1> QED
  BY <1>1, <1>2 DEF Slip

\* What is typed stays a sequence of digits.
THEOREM CardTyped == CardSpec => []CardTypeOK
<1>1. CardInit => CardTypeOK
  BY NumbersAssumption DEF CardInit, CardTypeOK
<1> QED
  BY <1>1, SlipKeeps, PTL DEF CardSpec

----------------------------------------------------------------------------
(* CardNumber: sums over the digits *)

\* A non-empty set of natural numbers has a least element: with this, facts about
\* sums are proved by looking at the least number where they could fail.
LEMMA LeastNat ==
  ASSUME NEW S \in SUBSET Nat, S # {}
  PROVE  \E n \in S : \A m \in S : n <= m
<1>1. PICK R : R = {p \in Nat \X Nat : p[1] < p[2]}
  OBVIOUS
<1>2. R = OpToRel(<, Nat)
  BY <1>1 DEF OpToRel
<1>3. IsWellFoundedOn(R, Nat)
  BY <1>2, NatLessThanWellFounded
<1>4. PICK x \in S : \A y \in S : ~ (<<y, x>> \in R)
  BY <1>3, WFMin
<1>5. ASSUME NEW y \in S
      PROVE  x <= y
  <2>1. ~ (<<y, x>> \in R)
    BY <1>4
  <2>2. /\ x \in Nat /\ y \in Nat /\ <<y, x>> \in Nat \X Nat
        /\ <<y, x>>[1] = y /\ <<y, x>>[2] = x
    OBVIOUS
  <2>3. ~ (y < x)
    BY <1>1, <2>1, <2>2
  <2> QED
    BY <2>2, <2>3
<1> QED
  BY <1>5

\* f[i] is the sum of the first i elements of w.
AddsUp(f, w, n) == f[0] = 0 /\ \A i \in 1..n : f[i] = f[i - 1] + w[i]
Sums(f, w, n) == f \in [0..n -> Int] /\ AddsUp(f, w, n)

\* Two sequences differ at i and i + 1 at most.
Alike(v, w, i, n) == \A j \in 1..n : j # i /\ j # i + 1 => v[j] = w[j]

\* How much they differ there.
Gap(v, w, i, n) == IF i = n THEN w[i] - v[i]
                   ELSE (w[i] - v[i]) + (w[i + 1] - v[i + 1])

\* Sums exist.
LEMMA SumsExist ==
  ASSUME NEW n \in Nat, NEW w \in [1..n -> Int]
  PROVE  \E f : Sums(f, w, n)
<1> DEFINE Without == {k \in 0..n : ~ \E f : Sums(f, w, k)}
<1>1. SUFFICES Without = {}
  <2>1. n \in 0..n
    OBVIOUS
  <2> QED
    BY <2>1
<1>2. SUFFICES ASSUME Without # {}
               PROVE  FALSE
  OBVIOUS
<1>3. PICK k \in Without : \A m \in Without : k <= m
  <2>1. Without \in SUBSET Nat
    OBVIOUS
  <2> HIDE DEF Without
  <2> QED
    BY <1>2, <2>1, LeastNat
<1>4. k \in 0..n /\ ~ \E f : Sums(f, w, k)
  OBVIOUS
<1>5. k # 0
  <2>1. Sums([i \in 0..0 |-> 0], w, 0)
    BY DEF Sums, AddsUp
  <2> QED
    BY <1>4, <2>1
<1>6. k - 1 \in 0..n /\ ~ (k <= k - 1)
  BY <1>4, <1>5
<1>7. PICK f : Sums(f, w, k - 1)
  BY <1>3, <1>6
<1>8. PICK g : g = [i \in 0..k |-> IF i = k THEN f[k - 1] + w[k] ELSE f[i]]
  OBVIOUS
<1>9. Sums(g, w, k)
  <2>1. /\ f \in [0..(k - 1) -> Int] /\ f[0] = 0
        /\ \A i \in 1..(k - 1) : f[i] = f[i - 1] + w[i]
    BY <1>7 DEF Sums, AddsUp
  <2>2. \A i \in 0..k : g[i] \in Int
    BY <1>4, <1>5, <1>8, <2>1
  <2>3. g \in [0..k -> Int]
    BY <1>8, <2>2
  <2>4. g[0] = 0
    BY <1>4, <1>5, <1>8, <2>1
  <2>5. ASSUME NEW i \in 1..k
        PROVE  g[i] = g[i - 1] + w[i]
    <3>1. i \in 0..k /\ i - 1 \in 0..k /\ i - 1 # k
      BY <1>4
    <3>2. g[i - 1] = f[i - 1]
      BY <1>8, <3>1
    <3>3. CASE i = k
      BY <1>8, <3>1, <3>2, <3>3
    <3>4. CASE i # k
      <4>1. i \in 1..(k - 1)
        BY <1>4, <3>4
      <4> QED
        BY <1>8, <2>1, <3>1, <3>2, <3>4, <4>1
    <3> QED
      BY <3>3, <3>4
  <2> QED
    BY <2>3, <2>4, <2>5 DEF Sums, AddsUp
<1> QED
  BY <1>4, <1>9

\* The value of the digit at i in the checksum.
Weight(n, i) == IF (Len(n) - i) % 2 = 1 THEN Doubled(n[i]) ELSE n[i]
Weights(n) == [i \in 1..Len(n) |-> Weight(n, i)]

\* Digits have small integers as weights.
LEMMA WeightsTyped ==
  ASSUME NEW n \in Seq(0..9)
  PROVE  Weights(n) \in [1..Len(n) -> Int]
<1>1. ASSUME NEW i \in 1..Len(n)
      PROVE  Weight(n, i) \in Int
  <2>1. n[i] \in 0..9
    OBVIOUS
  <2> QED
    BY <2>1 DEF Weight, Doubled
<1> QED
  BY <1>1 DEF Weights

\* What adds up element by element is the sum.
LEMMA SumsUnique ==
  ASSUME NEW n \in Nat, NEW w \in [1..n -> Int], NEW f, Sums(f, w, n),
         NEW g, AddsUp(g, w, n)
  PROVE  \A i \in 0..n : g[i] = f[i]
<1> DEFINE Failing == {i \in 0..n : g[i] # f[i]}
<1>1. SUFFICES ASSUME Failing # {}
               PROVE  FALSE
  OBVIOUS
<1>2. PICK k \in Failing : \A m \in Failing : k <= m
  <2>1. Failing \in SUBSET Nat
    OBVIOUS
  <2> HIDE DEF Failing
  <2> QED
    BY <1>1, <2>1, LeastNat
<1>3. k \in 0..n /\ g[k] # f[k]
  OBVIOUS
<1>4. k # 0
  BY <1>3 DEF Sums, AddsUp
<1>5. k \in 1..n /\ k - 1 \in 0..n /\ ~ (k <= k - 1)
  BY <1>3, <1>4
<1>6. g[k - 1] = f[k - 1]
  BY <1>2, <1>5
<1>7. g[k] = g[k - 1] + w[k] /\ f[k] = f[k - 1] + w[k]
  BY <1>5 DEF Sums, AddsUp
<1> QED
  BY <1>3, <1>6, <1>7

\* Luhn is the sum of the weights.
LEMMA LuhnIsSum ==
  ASSUME NEW n \in Seq(0..9)
  PROVE  \E f : Sums(f, Weights(n), Len(n)) /\ Luhn(n) = f[Len(n)]
<1>1. Len(n) \in Nat
  OBVIOUS
<1>2. PICK f : Sums(f, Weights(n), Len(n))
  BY <1>1, SumsExist, WeightsTyped
<1> DEFINE W(i) == IF (Len(n) - i) % 2 = 1 THEN Doubled(n[i]) ELSE n[i]
           Sum == CHOOSE Sum : Sum = [i \in 0..Len(n) |-> IF i = 0 THEN 0 ELSE Sum[i - 1] + W(i)]
<1>3. Luhn(n) = Sum[Len(n)]
  BY Zenon DEF Luhn
<1>4. f = [i \in 0..Len(n) |-> IF i = 0 THEN 0 ELSE f[i - 1] + W(i)]
  <2>1. f = [i \in 0..Len(n) |-> f[i]] /\ f[0] = 0
    BY <1>2, Zenon DEF Sums, AddsUp
  <2>2. ASSUME NEW i \in 0..Len(n), i # 0
        PROVE  f[i] = f[i - 1] + W(i)
    <3>1. i \in 1..Len(n)
      BY <1>1, <2>2
    <3>2. Weights(n)[i] = W(i)
      BY <3>1, Zenon DEF Weights, Weight
    <3> QED
      BY <1>2, <3>1, <3>2, Zenon DEF Sums, AddsUp
  <2> HIDE DEF W
  <2> QED
    BY <2>1, <2>2, Zenon
<1>5. Sum = [i \in 0..Len(n) |-> IF i = 0 THEN 0 ELSE Sum[i - 1] + W(i)]
  <2> HIDE DEF W
  <2> QED
    BY <1>4, Zenon
<1> HIDE DEF Sum
<1>6. Sum[0] = 0
  <2>1. 0 \in 0..Len(n)
    BY <1>1
  <2> HIDE DEF W
  <2> QED
    BY <1>5, <2>1, Zenon
<1>7. ASSUME NEW i \in 1..Len(n)
      PROVE  Sum[i] = Sum[i - 1] + Weights(n)[i]
  <2>1. i \in 0..Len(n) /\ i # 0
    BY <1>1
  <2>2. Weights(n)[i] = W(i)
    BY Zenon DEF Weights, Weight
  <2> HIDE DEF W
  <2> QED
    BY <1>5, <2>1, <2>2, Zenon
<1>8. \A i \in 0..Len(n) : Sum[i] = f[i]
  <2>1. PICK w : w = Weights(n)
    OBVIOUS
  <2>2. PICK g : g = Sum
    OBVIOUS
  <2>3. PICK l : l = Len(n)
    OBVIOUS
  <2>4. l \in Nat /\ w \in [1..l -> Int] /\ Sums(f, w, l)
    BY <1>1, <1>2, <2>1, <2>3, WeightsTyped
  <2>5. AddsUp(g, w, l)
    BY <1>6, <1>7, <2>1, <2>2, <2>3 DEF AddsUp
  <2>6. \A i \in 0..l : g[i] = f[i]
    BY <2>4, <2>5, SumsUnique
  <2> QED
    BY <2>2, <2>3, <2>6
<1>9. Len(n) \in 0..Len(n)
  BY <1>1
<1> QED
  BY <1>2, <1>3, <1>8, <1>9

\* Sums of two sequences that differ at one place, or at it and the next one.
LEMMA SumsDiffer ==
  ASSUME NEW n \in Nat, NEW v \in [1..n -> Int], NEW w \in [1..n -> Int],
         NEW f, Sums(f, v, n), NEW g, Sums(g, w, n), NEW i \in 1..n,
         Alike(v, w, i, n)
  PROVE  g[n] - f[n] = Gap(v, w, i, n)
<1>1. /\ f \in [0..n -> Int] /\ f[0] = 0 /\ \A k \in 1..n : f[k] = f[k - 1] + v[k]
      /\ g \in [0..n -> Int] /\ g[0] = 0 /\ \A k \in 1..n : g[k] = g[k - 1] + w[k]
  BY DEF Sums, AddsUp
<1>2. PICK gap : gap = [k \in 0..n |->
          IF k < i THEN 0 ELSE IF k = i THEN w[i] - v[i]
          ELSE (w[i] - v[i]) + (w[i + 1] - v[i + 1])]
  OBVIOUS
<1> DEFINE Failing == {k \in 0..n : g[k] - f[k] # gap[k]}
<1>3. SUFFICES ASSUME Failing # {}
               PROVE  FALSE
  <2>1. n \in 0..n /\ ~ (n < i)
    OBVIOUS
  <2>2. gap[n] = Gap(v, w, i, n)
    BY <1>2, <2>1 DEF Gap
  <2> QED
    BY <2>1, <2>2
<1>4. PICK k \in Failing : \A m \in Failing : k <= m
  <2>1. Failing \in SUBSET Nat
    OBVIOUS
  <2> HIDE DEF Failing
  <2> QED
    BY <1>3, <2>1, LeastNat
<1>5. k \in 0..n /\ g[k] - f[k] # gap[k]
  OBVIOUS
<1>6. k # 0
  BY <1>1, <1>2, <1>5
<1>7. k \in 1..n /\ k - 1 \in 0..n /\ ~ (k <= k - 1)
  BY <1>5, <1>6
<1>8. g[k - 1] - f[k - 1] = gap[k - 1]
  BY <1>4, <1>7
<1> HIDE DEF Failing
<1>9. /\ f[k - 1] \in Int /\ g[k - 1] \in Int
      /\ v[k] \in Int /\ w[k] \in Int /\ v[i] \in Int /\ w[i] \in Int
      /\ f[k] = f[k - 1] + v[k] /\ g[k] = g[k - 1] + w[k]
  BY <1>1, <1>7
<1>10. g[k] - f[k] = gap[k - 1] + (w[k] - v[k])
  BY <1>8, <1>9
<1>11. CASE k < i
  <2>1. v[k] = w[k] /\ gap[k - 1] = 0 /\ gap[k] = 0
    BY <1>2, <1>7, <1>11 DEF Alike
  <2> QED
    BY <1>5, <1>9, <1>10, <2>1
<1>12. CASE k = i
  <2>1. gap[k - 1] = 0 /\ gap[k] = w[k] - v[k]
    BY <1>2, <1>7, <1>12
  <2> QED
    BY <1>5, <1>9, <1>10, <2>1
<1>13. CASE k = i + 1
  <2>1. gap[k - 1] = w[i] - v[i] /\ gap[k] = (w[i] - v[i]) + (w[k] - v[k])
    BY <1>2, <1>7, <1>13
  <2> QED
    BY <1>5, <1>9, <1>10, <2>1
<1>14. CASE k > i + 1
  <2>1. i + 1 \in 1..n
    BY <1>7, <1>14
  <2>2. v[i + 1] \in Int /\ w[i + 1] \in Int
    BY <2>1
  <2>3. v[k] = w[k]
    BY <1>7, <1>14 DEF Alike
  <2>4. gap[k - 1] = gap[k] /\ gap[k] \in Int
    <3>1. PICK both : both = (w[i] - v[i]) + (w[i + 1] - v[i + 1])
      OBVIOUS
    <3>2. gap[k] = both /\ gap[k - 1] = both
      BY <1>2, <1>7, <1>14, <3>1
    <3> QED
      BY <1>9, <2>2, <3>1, <3>2
  <2> QED
    BY <1>5, <1>9, <1>10, <2>3, <2>4
<1> QED
  BY <1>7, <1>11, <1>12, <1>13, <1>14

\* Doubling keeps digits apart, and moves them by between -4 and 4; of two
\* digits it moves equally far, one is a 0 and the other a 9, or they are one.
LEMMA Doubling ==
  ASSUME NEW x \in 0..9, NEW y \in 0..9
  PROVE  /\ Doubled(x) \in 0..9 /\ Doubled(y) \in 0..9
         /\ Doubled(x) = Doubled(y) => x = y
         /\ Doubled(x) - x \in -4..4 /\ Doubled(y) - y \in -4..4
         /\ Doubled(x) - x = Doubled(y) - y => x = y \/ {x, y} = {0, 9}
<1>1. x \in {0, 1, 2, 3, 4, 5, 6, 7, 8, 9}
  OBVIOUS
<1>2. y \in {0, 1, 2, 3, 4, 5, 6, 7, 8, 9}
  OBVIOUS
<1> QED
  BY <1>1, <1>2 DEF Doubled

\* Two multiples of 10 that are less than 10 apart are one.
LEMMA Multiples ==
  ASSUME NEW a \in Int, NEW b \in Int, a % 10 = 0, b % 10 = 0, b - a \in -9..9
  PROVE  a = b
OBVIOUS

\* The checksums of two numbers of one length, from their weights.
LEMMA LuhnDiffers ==
  ASSUME NEW n \in Seq(0..9), NEW m \in Seq(0..9), Len(m) = Len(n),
         NEW i \in 1..Len(n),
         \A j \in 1..Len(n) : j # i /\ j # i + 1 => m[j] = n[j]
  PROVE  /\ Luhn(n) \in Int /\ Luhn(m) \in Int
         /\ Luhn(m) - Luhn(n) =
              IF i = Len(n) THEN Weight(m, i) - Weight(n, i)
              ELSE (Weight(m, i) - Weight(n, i)) + (Weight(m, i + 1) - Weight(n, i + 1))
<1>1. PICK l : l = Len(n)
  OBVIOUS
<1>2. PICK v : v = Weights(n)
  OBVIOUS
<1>3. PICK w : w = Weights(m)
  OBVIOUS
<1>4. l \in Nat /\ v \in [1..l -> Int] /\ w \in [1..l -> Int]
  BY <1>1, <1>2, <1>3, WeightsTyped
<1>5. PICK f : Sums(f, v, l) /\ Luhn(n) = f[l]
  BY <1>1, <1>2, LuhnIsSum
<1>6. PICK g : Sums(g, w, l) /\ Luhn(m) = g[l]
  BY <1>1, <1>3, LuhnIsSum
<1>7. ASSUME NEW j \in 1..l
      PROVE  v[j] = Weight(n, j) /\ w[j] = Weight(m, j)
  BY <1>1, <1>2, <1>3 DEF Weights
<1>8. Alike(v, w, i, l)
  BY <1>1, <1>7 DEF Weight, Alike
<1>9. g[l] - f[l] = Gap(v, w, i, l)
  <2>1. i \in 1..l
    BY <1>1
  <2> QED
    BY <1>4, <1>5, <1>6, <1>8, <2>1, SumsDiffer
<1>10. f[l] \in Int /\ g[l] \in Int
  BY <1>4, <1>5, <1>6 DEF Sums, AddsUp
<1>11. i # l => i + 1 \in 1..l
  BY <1>1, <1>4
<1> QED
  BY <1>1, <1>5, <1>6, <1>7, <1>9, <1>10, <1>11 DEF Gap

\* A changed digit or two swapped neighbours, in a number the form accepts, give
\* one it does not accept, but for a 0 and a 9 that are swapped.
LEMMA SlipSeen ==
  ASSUME number \in Seq(0..9), IsValid(number), IsValid(number'), Slip, number' # number
  PROVE  ZeroNine
<1>1. Luhn(number) % 10 = 0 /\ Luhn(number') % 10 = 0
  BY DEF IsValid
<1>2. \A d \in 0..9, e \in 0..9 :
        /\ Doubled(d) \in 0..9 /\ Doubled(e) \in 0..9
        /\ Doubled(d) = Doubled(e) => d = e
        /\ Doubled(d) - d \in -4..4 /\ Doubled(e) - e \in -4..4
        /\ Doubled(d) - d = Doubled(e) - e => d = e \/ {d, e} = {0, 9}
  BY Doubling
<1>3. PICK l : l = Len(number)
  OBVIOUS
<1>4. l \in Nat /\ DOMAIN number = 1..l /\ \A j \in 1..l : number[j] \in 0..9
  BY <1>3
<1>5. PICK new : new = number'
  OBVIOUS
<1>6. ASSUME NEW i \in 1..l, NEW d \in 0..9, new = [number EXCEPT ![i] = d]
      PROVE  FALSE
  <2>1. /\ new \in Seq(0..9) /\ Len(new) = l /\ new[i] = d
        /\ \A j \in 1..l : j # i => new[j] = number[j]
    BY <1>3, <1>4, <1>6
  <2>2. d # number[i]
    BY <1>3, <1>4, <1>5, <1>6
  <2>3. i + 1 \in 1..l => Weight(new, i + 1) = Weight(number, i + 1)
    BY <1>3, <2>1 DEF Weight
  <2>4. PICK x : x = Weight(number, i)
    OBVIOUS
  <2>5. PICK y : y = Weight(new, i)
    OBVIOUS
  <2>6. x \in 0..9 /\ y \in 0..9 /\ x # y
    <3>1. number[i] \in 0..9
      BY <1>4
    <3>2. /\ x = IF (l - i) % 2 = 1 THEN Doubled(number[i]) ELSE number[i]
          /\ y = IF (l - i) % 2 = 1 THEN Doubled(d) ELSE d
      BY <1>3, <2>1, <2>4, <2>5 DEF Weight
    <3> QED
      BY <1>2, <2>2, <3>1, <3>2
  <2>7. Luhn(new) - Luhn(number) = y - x /\ Luhn(new) \in Int /\ Luhn(number) \in Int
    <3>1. \A j \in 1..Len(number) : j # i /\ j # i + 1 => new[j] = number[j]
      BY <1>3, <2>1
    <3>2. /\ Luhn(number) \in Int /\ Luhn(new) \in Int
          /\ Luhn(new) - Luhn(number) =
               IF i = Len(number) THEN Weight(new, i) - Weight(number, i)
               ELSE (Weight(new, i) - Weight(number, i))
                      + (Weight(new, i + 1) - Weight(number, i + 1))
      BY <1>3, <2>1, <3>1, LuhnDiffers
    <3>3. i # l => Weight(number, i + 1) \in Int
      <4>1. i # l => i + 1 \in 1..l
        BY <1>4
      <4>2. i # l => number[i + 1] \in 0..9
        BY <1>4, <4>1
      <4> QED
        BY <4>2 DEF Weight, Doubled
    <3>4. i # l => Weight(new, i + 1) = Weight(number, i + 1)
      BY <1>4, <2>3
    <3> QED
      BY <1>3, <2>4, <2>5, <2>6, <3>2, <3>3, <3>4
  <2>8. y - x \in -9..9
    BY <2>6
  <2>9. Luhn(new) % 10 = 0
    BY <1>1, <1>5
  <2>10. Luhn(new) = Luhn(number)
    BY <1>1, <2>7, <2>8, <2>9, Multiples
  <2> QED
    BY <2>6, <2>7, <2>10
<1>7. ASSUME NEW i \in 1..(l - 1),
             new = [number EXCEPT ![i] = number[i + 1], ![i + 1] = number[i]]
      PROVE  ZeroNine
  <2>1. PICK a : a = number[i]
    OBVIOUS
  <2>2. PICK b : b = number[i + 1]
    OBVIOUS
  <2>3. i \in 1..l /\ i + 1 \in 1..l /\ a \in 0..9 /\ b \in 0..9
    BY <1>4, <2>1, <2>2
  <2>4. /\ new \in Seq(0..9) /\ Len(new) = l /\ new[i] = b /\ new[i + 1] = a
        /\ \A j \in 1..l : j # i /\ j # i + 1 => new[j] = number[j]
    <3>1. new = [number EXCEPT ![i] = b, ![i + 1] = a]
      BY <1>7, <2>1, <2>2
    <3> QED
      BY <1>3, <1>4, <2>3, <3>1
  <2>5. a # b
    BY <1>3, <1>5, <1>7, <2>1, <2>2, <2>3
  <2>6. /\ Luhn(number) \in Int /\ Luhn(new) \in Int
        /\ Luhn(new) - Luhn(number) = (Weight(new, i) - Weight(number, i))
                                        + (Weight(new, i + 1) - Weight(number, i + 1))
    <3>1. i # Len(number)
      BY <1>3, <1>4
    <3> QED
      BY <1>3, <2>3, <2>4, <3>1, LuhnDiffers
  <2>7. PICK x : x = Doubled(a)
    OBVIOUS
  <2>8. PICK y : y = Doubled(b)
    OBVIOUS
  <2>9. /\ x \in 0..9 /\ y \in 0..9 /\ x - a \in -4..4 /\ y - b \in -4..4
        /\ x - a = y - b => {a, b} = {0, 9}
    BY <1>2, <2>3, <2>5, <2>7, <2>8
  <2>10. \/ Luhn(new) - Luhn(number) = (y - x) + (a - b)
         \/ Luhn(new) - Luhn(number) = (b - a) + (x - y)
    <3>1. PICK p : p = (l - i) % 2
      OBVIOUS
    <3>2. p = 0 \/ p = 1
      BY <1>4, <3>1
    <3>3. (l - (i + 1)) % 2 = 1 - p
      BY <1>4, <3>1
    <3>4. /\ Weight(number, i) = IF p = 1 THEN x ELSE a
          /\ Weight(new, i) = IF p = 1 THEN y ELSE b
      BY <1>3, <2>1, <2>4, <2>7, <2>8, <3>1 DEF Weight
    <3>5. /\ Weight(number, i + 1) = IF p = 0 THEN y ELSE b
          /\ Weight(new, i + 1) = IF p = 0 THEN x ELSE a
      BY <1>3, <2>2, <2>4, <2>7, <2>8, <3>2, <3>3 DEF Weight
    <3> QED
      BY <2>3, <2>6, <2>9, <3>2, <3>4, <3>5
  <2>11. Luhn(new) - Luhn(number) \in -9..9
    <3>1. (y - x) + (a - b) \in -8..8 /\ (b - a) + (x - y) \in -8..8
      BY <2>3, <2>9
    <3>2. PICK d : d = Luhn(new) - Luhn(number)
      OBVIOUS
    <3>3. d \in -8..8
      BY <2>10, <3>1, <3>2
    <3> QED
      BY <3>2, <3>3
  <2>12. Luhn(new) = Luhn(number)
    BY <1>1, <1>5, <2>6, <2>11, Multiples
  <2>13. x - a = y - b
    BY <2>3, <2>6, <2>9, <2>10, <2>12
  <2>14. {number[i], number[i + 1]} = {0, 9}
    BY <2>1, <2>2, <2>9, <2>13
  <2>15. new[i] # number[i] /\ new[i + 1] # number[i + 1]
    BY <2>1, <2>2, <2>4, <2>5
  <2> QED
    BY <1>3, <1>5, <2>14, <2>15 DEF ZeroNine
<1> QED
  BY <1>3, <1>4, <1>5, <1>6, <1>7 DEF Slip

\* isValidCreditCardNumber finds every wrong digit, and every swap of neighbours
\* but that of a 0 and a 9, in any number the form takes.
THEOREM SlipsSeen == CardSpec => SlipsAreSeen
<1>1. CardInit => CardTypeOK
  BY NumbersAssumption DEF CardInit, CardTypeOK
<1>2. CardTypeOK /\ [CardNext]_number =>
        [IsValid(number) => ~IsValid(number') \/ ZeroNine]_number
  BY SlipSeen DEF CardTypeOK, CardNext
<1> QED
  BY <1>1, <1>2, SlipKeeps, PTL DEF CardSpec, SlipsAreSeen

----------------------------------------------------------------------------
(* MCPages *)

\* Initially every part is in an initial state of its own.
LEMMA PartsBegin ==
  Init => /\ part \in Parts
          /\ SessionInit /\ UploadInit /\ ChatInit /\ StompInit
          /\ PaymentInit /\ CardInit /\ AdminInit /\ SplitInit /\ LightboxInit
BY DEF Init

\* A step of the pages is, for each part, a step of that part or none.
LEMMA PartsMove ==
  [Next]_vars =>
    /\ [SessionNext]_session /\ [UploadNext]_upload
    /\ [ChatNext]_connection /\ [StompNext]_stomp
    /\ [PaymentNext]_payment /\ [CardNext]_number
    /\ [AdminNext]_admin /\ [SplitNext]_split /\ [LightboxNext]_lightbox
<1>1. CASE UNCHANGED vars
  BY <1>1 DEF vars
<1>2. CASE Next
  BY <1>2, Zenon DEF Next, Others
<1> QED
  BY <1>1, <1>2

\* The part that moves is chosen once.
LEMMA OnePart == part \in Parts /\ [Next]_vars => (part \in Parts)'
<1>1. CASE UNCHANGED vars
  BY <1>1 DEF vars
<1>2. CASE Next
  BY <1>2, Zenon DEF Next, Others
<1> QED
  BY <1>1, <1>2

\* The pages behave as each of their parts does: what is proved of a part holds
\* of the pages.
THEOREM PartsBehave ==
  Spec => /\ SessionSpec /\ UploadSpec /\ ChatSpec /\ StompSpec
          /\ PaymentSpec /\ CardSpec /\ AdminSpec /\ SplitSpec /\ LightboxSpec
BY PartsBegin, PartsMove, PTL
   DEF Spec, SessionSpec, UploadSpec, ChatSpec, StompSpec, PaymentSpec, CardSpec,
       AdminSpec, SplitSpec, LightboxSpec

\* The state of every part of the browser stays within its types.
THEOREM TypeCorrect == Spec => []TypeOK
<1>1. SplitSpec => []SplitTypeOK
  BY SplitInvInit, SplitInvNext, PTL DEF SplitSpec, SplitInv
<1>2. LightboxSpec => []LightboxTypeOK
  BY LightboxInvInit, LightboxInvNext, PTL DEF LightboxSpec, LightboxInv
<1>3. Spec => [](part \in Parts)
  BY PartsBegin, OnePart, PTL DEF Spec
<1>4. (part \in Parts) /\ SessionTypeOK /\ UploadTypeOK /\ ChatTypeOK /\ StompTypeOK
        /\ PaymentTypeOK /\ CardTypeOK /\ AdminTypeOK /\ SplitTypeOK /\ LightboxTypeOK
      => TypeOK
  BY DEF TypeOK
<1> QED
  BY PartsBehave, SessionTyped, UploadTyped, ChatTyped, StompTyped, PaymentTyped,
     CardTyped, AdminTyped, <1>1, <1>2, <1>3, <1>4, PTL

\* The status lines of both chat pages are those of their connections.
THEOREM StatusesTrue == Spec => []StatusesAreTrue
<1>1. StatusIsTrue /\ StompStatusIsTrue => StatusesAreTrue
  BY DEF StatusesAreTrue
<1> QED
  BY PartsBehave, ChatStatusTrue, StompStatusTrue, <1>1, PTL

\* No blob URL of the form outlives what displays it, and no key listener its
\* overlay.
THEOREM NothingIsLeaked == Spec => []NothingLeaks
<1>1. UrlsOwned /\ KeysOwned => NothingLeaks
  BY DEF NothingLeaks
<1> QED
  BY PartsBehave, UrlsAreOwned, KeysAreOwned, <1>1, PTL

\* What is proved of one part alone holds of the pages: who is shown signed in
\* and with which token, the outcome of an upload and its Cancel, the texts and
\* files of the STOMP chat, the form, the buttons, and the panes.
THEOREM PagesCorrect ==
  Spec => /\ [](WhoIsShown /\ InSync /\ StoredIsLive)
          /\ [](OwnOutcome /\ Cancellable)
          /\ [](SeenOnce /\ UploadStalls)
          /\ [](OneAtATime /\ AnswerIsOwn /\ PanesFit)
          /\ SlipsAreSeen
BY PartsBehave, Shows, Agrees, LoggedOut, OutcomesAreOwn, UploadsCancellable,
   TextsSeenOnce, UploadsStall, OneRequest, AnswersAreOwn, PanesAlwaysFit, SlipsSeen, PTL
=============================================================================
