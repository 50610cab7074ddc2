--------------------------- MODULE StompRoomProofs ---------------------------
(***************************************************************************)
(* Proofs about StompRoom, for any channels, rooms and ids and any number  *)
(* of frames.                                                              *)
(***************************************************************************)
EXTENDS StompRoom, TLAPS

USE StompRoomAssumption

----------------------------------------------------------------------------
(* What a loop is in the middle of *)

\* The kinds of work.
Put   == [op : {"put"}, room : Rooms, id : Ids]
Walks == [op : {"walk"}, room : Rooms, no : Nat, todo : SUBSET Channels,
          frame : Frame \cup {NoFrame}, owed : SUBSET Channels]
Leaves == [op : {"leave"}, rooms : SUBSET Rooms, room : Rooms \cup {NoRoom}, close : BOOLEAN]

\* The kinds make up Work, and op differs from kind to kind.
LEMMA WorkKinds ==
  /\ Work = {Idle} \cup Put \cup Walks \cup Leaves
  /\ Idle \in Work /\ Idle.op = "idle"
  /\ \A w \in Put : w.op = "put"
  /\ \A w \in Walks : w.op = "walk"
  /\ \A w \in Leaves : w.op = "leave"
BY DEF Work, Put, Walks, Leaves, Idle

\* The field op tells the kind.
LEMMA KindOf ==
  ASSUME NEW w \in Work
  PROVE  /\ w = Idle \/ w \in Put \/ w \in Walks \/ w \in Leaves
         /\ w.op = "idle" <=> w = Idle
         /\ w.op = "put" <=> w \in Put
         /\ IsWalk(w) <=> w \in Walks
         /\ w.op = "leave" <=> w \in Leaves
BY WorkKinds DEF IsWalk

\* What a walk begins with.
LEMMA WalkFacts ==
  ASSUME NEW c \in Channels, NEW r \in Rooms, NEW n \in Nat,
         NEW s \in [Rooms -> [Channels -> Ids \cup {NoId}]],
         groups \in [Rooms -> SUBSET Channels]
  PROVE  /\ Walk(c, r, s, n) \in Walks
         /\ Walk(c, r, s, n).room = r /\ Walk(c, r, s, n).no = n
         /\ Walk(c, r, s, n).frame = NoFrame
         /\ Walk(c, r, s, n).owed = {x \in groups[r] : s[r][x] # NoId}
         /\ Walk(c, r, s, n).owed \subseteq Walk(c, r, s, n).todo
<1> DEFINE o == {x \in groups[r] : s[r][x] # NoId}
<1>1. Audience(c, r, s) \in SUBSET Channels /\ o \in SUBSET Channels /\ o \subseteq Audience(c, r, s)
  BY DEF Audience
<1> HIDE DEF o
<1>2. Walk(c, r, s, n) = [op |-> "walk", room |-> r, no |-> n, todo |-> Audience(c, r, s),
                          frame |-> NoFrame, owed |-> o]
  BY DEF Walk, o
<1> QED
  BY <1>1, <1>2 DEF Walks, o

\* Leaving begins with no room chosen.
LEMMA LeaveFacts ==
  ASSUME NEW R \in SUBSET Rooms, NEW b \in BOOLEAN
  PROVE  /\ Leave(R, b) \in Leaves
         /\ Leave(R, b).rooms = R /\ Leave(R, b).room = NoRoom
BY DEF Leave, Leaves

\* Unsettle touches walks only, and of them only what is owed.
LEMMA UnsettleFacts ==
  ASSUME NEW w \in [Channels -> Work], NEW c \in Channels, NEW R
  PROVE  /\ Unsettle(c, R, w) \in [Channels -> Work]
         /\ \A p \in Channels : ~IsWalk(w[p]) => Unsettle(c, R, w)[p] = w[p]
         /\ \A p \in Channels : IsWalk(w[p]) =>
              /\ Unsettle(c, R, w)[p] \in Walks
              /\ Unsettle(c, R, w)[p].room = w[p].room
              /\ Unsettle(c, R, w)[p].no = w[p].no
              /\ Unsettle(c, R, w)[p].todo = w[p].todo
              /\ Unsettle(c, R, w)[p].frame = w[p].frame
              /\ w[p].room \in R => Unsettle(c, R, w)[p].owed = w[p].owed \ {c}
              /\ w[p].room \notin R => Unsettle(c, R, w)[p].owed = w[p].owed
<1> DEFINE u(p) == [w[p] EXCEPT !.owed = @ \ {c}]
<1>1. \A p \in Channels : IsWalk(w[p]) => w[p] \in Walks
  BY KindOf
<1>2. \A p \in Channels : IsWalk(w[p]) =>
        /\ u(p) \in Walks /\ u(p).room = w[p].room /\ u(p).no = w[p].no
        /\ u(p).todo = w[p].todo /\ u(p).frame = w[p].frame /\ u(p).owed = w[p].owed \ {c}
  BY <1>1 DEF Walks
<1>3. \A p \in Channels : Unsettle(c, R, w)[p]
        = IF IsWalk(w[p]) /\ w[p].room \in R THEN u(p) ELSE w[p]
  BY DEF Unsettle
<1> HIDE DEF u
<1>4. \A p \in Channels : Unsettle(c, R, w)[p] \in Work
  BY <1>2, <1>3, WorkKinds
<1>5. Unsettle(c, R, w) = [p \in Channels |-> Unsettle(c, R, w)[p]]
  BY DEF Unsettle
<1>6. Unsettle(c, R, w) \in [Channels -> Work]
  BY <1>4, <1>5
<1> QED
  BY <1>1, <1>2, <1>3, <1>6

\* A newcomer may come before a walk that has not ended; nothing else changes.
LEMMA MayVisitFacts ==
  ASSUME work \in [Channels -> Work], NEW w \in [Channels -> Work], NEW c \in Channels,
         NEW r \in Rooms, MayVisit(r, c, w),
         \A p \in Channels : IsWalk(work[p]) => w[p] = work[p]
  PROVE  /\ work' \in [Channels -> Work]
         /\ \A p \in Channels : ~IsWalk(w[p]) => work'[p] = w[p]
         /\ \A p \in Channels : IsWalk(w[p]) =>
              /\ work'[p] \in Walks
              /\ work'[p].room = w[p].room
              /\ work'[p].no = w[p].no
              /\ work'[p].frame = w[p].frame
              /\ work'[p].owed = w[p].owed
              /\ w[p].todo \subseteq work'[p].todo
              /\ Ended(w[p]) => work'[p] = w[p]
<1>1. PICK P \in SUBSET {p \in Channels : IsWalk(work[p]) /\ work[p].room = r
                                          /\ ~Ended(work[p])} :
        work' = [p \in Channels |->
                   IF p \in P THEN [w[p] EXCEPT !.todo = @ \cup {c}] ELSE w[p]]
  BY DEF MayVisit
<1> DEFINE v(p) == [w[p] EXCEPT !.todo = @ \cup {c}]
<1>2. \A p \in Channels : IsWalk(w[p]) => w[p] \in Walks
  BY KindOf
<1>3. \A p \in Channels : IsWalk(w[p]) =>
        /\ v(p) \in Walks /\ v(p).room = w[p].room /\ v(p).no = w[p].no
        /\ v(p).todo = w[p].todo \cup {c} /\ v(p).frame = w[p].frame /\ v(p).owed = w[p].owed
  BY <1>2 DEF Walks
<1>4. work' = [p \in Channels |-> IF p \in P THEN v(p) ELSE w[p]]
  BY <1>1
<1>5. \A p \in P : p \in Channels /\ IsWalk(w[p]) /\ ~Ended(w[p])
  BY <1>1
<1> HIDE DEF v
<1>6. \A p \in Channels : work'[p] = IF p \in P THEN v(p) ELSE w[p]
  BY <1>4
<1>7. \A p \in Channels : work'[p] \in Work
  BY <1>3, <1>5, <1>6, WorkKinds
<1>8. work' \in [Channels -> Work]
  BY <1>4, <1>7
<1> QED
  BY <1>2, <1>3, <1>5, <1>6, <1>8

\* The loop of c turns to other work.
LEMMA WorkSet ==
  ASSUME work \in [Channels -> Work], NEW c \in Channels, NEW w \in Work,
         work' = [work EXCEPT ![c] = w]
  PROVE  /\ work' \in [Channels -> Work]
         /\ work'[c] = w
         /\ \A p \in Channels : p # c => work'[p] = work[p]
OBVIOUS

\* A frame that is built.
Built(c, x) == [from |-> c, no |-> work[c].no, to |-> x,
                sub |-> subs[work[c].room][x], id |-> NextId(seq)]

----------------------------------------------------------------------------
(* Type correctness, and what the actions do to the work of a loop *)

\* ReadSubscribe leaves the loop of c between the two halves of subscribe.
LEMMA ReadSubscribeFacts ==
  ASSUME TypeOK, NEW c \in Channels, NEW dest \in Rooms \cup {NoDest},
         NEW i \in ClientIds \cup {NoId}, ReadSubscribe(c, dest, i)
  PROVE  \E r \in Rooms :
           /\ Reads(c)
           /\ frames' = frames + 1
           /\ seq' \in Nat /\ seq <= seq'
           /\ groups' \in [Rooms -> SUBSET Channels]
           /\ \A s \in Rooms : groups[s] \subseteq groups'[s] /\ groups'[s] \subseteq groups[s] \cup {c}
           /\ \A s \in Rooms : s # r \/ conn[c] # "open" => groups'[s] = groups[s]
           /\ conn[c] = "open" => c \in groups'[r]
           /\ UNCHANGED <<conn, subs, got>>
           /\ work' \in [Channels -> Work]
           /\ work'[c] \in Put /\ work'[c].room = r
           /\ \A p \in Channels \ {c} : ~IsWalk(work[p]) => work'[p] = work[p]
           /\ \A p \in Channels : IsWalk(work[p]) =>
                /\ work'[p] \in Walks
                /\ work'[p].room = work[p].room
                /\ work'[p].no = work[p].no
                /\ work'[p].frame = work[p].frame
                /\ work'[p].owed = work[p].owed
                /\ work[p].todo \subseteq work'[p].todo
<1> DEFINE r == Route("SUBSCRIBE", dest)
           n == IF i = NoId THEN NextId(seq) ELSE i
           new == [op |-> "put", room |-> r, id |-> n]
           w == [work EXCEPT ![c] = new]
<1>1. r \in Rooms
  BY DEF Route
<1>2. n \in Ids
  BY DEF TypeOK, NextId, Ids
<1>3. new \in Put /\ new \in Work /\ new.room = r
  BY <1>1, <1>2, WorkKinds DEF Put
<1>4. work \in [Channels -> Work] /\ work[c] = Idle
  BY DEF TypeOK, ReadSubscribe, Reads
<1>5. /\ Reads(c) /\ frames' = frames + 1
      /\ seq' = IF i = NoId THEN NextId(seq) ELSE seq
      /\ IF conn[c] = "open"
           THEN groups' = [groups EXCEPT ![r] = @ \cup {c}] /\ MayVisit(r, c, w)
           ELSE groups' = groups /\ work' = w
      /\ UNCHANGED <<conn, subs, got>>
  BY DEF ReadSubscribe
<1> HIDE DEF r, n, new
<1>6. seq' \in Nat /\ seq <= seq'
  BY <1>5 DEF TypeOK, NextId
<1>7. /\ groups' \in [Rooms -> SUBSET Channels]
      /\ \A s \in Rooms : groups[s] \subseteq groups'[s] /\ groups'[s] \subseteq groups[s] \cup {c}
      /\ \A s \in Rooms : s # r \/ conn[c] # "open" => groups'[s] = groups[s]
      /\ conn[c] = "open" => c \in groups'[r]
  <2>1. groups \in [Rooms -> SUBSET Channels]
    BY DEF TypeOK
  <2>2. CASE conn[c] = "open"
    <3>1. groups' = [groups EXCEPT ![r] = @ \cup {c}]
      BY <1>5, <2>2
    <3> QED
      BY <1>1, <2>1, <2>2, <3>1
  <2>3. CASE conn[c] # "open"
    BY <1>5, <2>1, <2>3
  <2> QED
    BY <2>2, <2>3
<1>8. /\ w \in [Channels -> Work] /\ w[c] = new
      /\ \A p \in Channels : p # c => w[p] = work[p]
  BY <1>3, <1>4
<1>9. ~IsWalk(work[c]) /\ ~IsWalk(w[c])
  BY <1>3, <1>4, <1>8, WorkKinds DEF IsWalk
<1>10. /\ work' \in [Channels -> Work]
       /\ \A p \in Channels : ~IsWalk(w[p]) => work'[p] = w[p]
       /\ \A p \in Channels : IsWalk(w[p]) =>
            /\ work'[p] \in Walks
            /\ work'[p].room = w[p].room
            /\ work'[p].no = w[p].no
            /\ work'[p].frame = w[p].frame
            /\ work'[p].owed = w[p].owed
            /\ w[p].todo \subseteq work'[p].todo
  <2> HIDE DEF w
  <2>1. CASE conn[c] = "open"
    BY <1>1, <1>4, <1>5, <1>8, <1>9, <2>1, MayVisitFacts
  <2>2. CASE conn[c] # "open"
    BY <1>5, <1>8, <2>2, KindOf
  <2> QED
    BY <2>1, <2>2
<1> HIDE DEF w
<1> QED
  BY <1>1, <1>3, <1>5, <1>6, <1>7, <1>8, <1>9, <1>10

\* A fresh server is well typed.
LEMMA TypeInit == Init => TypeOK
BY WorkKinds DEF Init, TypeOK

\* A channel that closes leaves every group and is owed nothing.
LEMMA CloseFacts ==
  ASSUME TypeOK, NEW c \in Channels, NEW w \in [Channels -> Work], Close(c, w)
  PROVE  /\ conn' = [conn EXCEPT ![c] = IF @ = "open" THEN "closed" ELSE @]
         /\ groups' = [r \in Rooms |-> groups[r] \ {c}]
         /\ work' \in [Channels -> Work]
         /\ \A p \in Channels : ~IsWalk(w[p]) => work'[p] = w[p]
         /\ \A p \in Channels : IsWalk(w[p]) =>
              /\ work'[p] \in Walks
              /\ work'[p].room = w[p].room
              /\ work'[p].no = w[p].no
              /\ work'[p].todo = w[p].todo
              /\ work'[p].frame = w[p].frame
              /\ work'[p].owed = w[p].owed \ {c}
         /\ UNCHANGED <<subs, seq, got, frames>>
<1>1. work' = Unsettle(c, Rooms, w)
  BY DEF Close
<1>2. \A p \in Channels : IsWalk(w[p]) => w[p] \in Walks
  BY KindOf
<1>3. \A p \in Channels : IsWalk(w[p]) => w[p].room \in Rooms
  BY <1>2 DEF Walks
<1>4. /\ work' \in [Channels -> Work]
      /\ \A p \in Channels : ~IsWalk(w[p]) => work'[p] = w[p]
      /\ \A p \in Channels : IsWalk(w[p]) =>
           /\ work'[p] \in Walks
           /\ work'[p].room = w[p].room
           /\ work'[p].no = w[p].no
           /\ work'[p].todo = w[p].todo
           /\ work'[p].frame = w[p].frame
           /\ work'[p].owed = w[p].owed \ {c}
  <2>1. work' \in [Channels -> Work]
    BY <1>1, UnsettleFacts
  <2>2. ASSUME NEW p \in Channels, ~IsWalk(w[p]) PROVE work'[p] = w[p]
    BY <1>1, <2>2, UnsettleFacts
  <2>3. ASSUME NEW p \in Channels, IsWalk(w[p])
        PROVE  /\ work'[p] \in Walks
               /\ work'[p].room = w[p].room
               /\ work'[p].no = w[p].no
               /\ work'[p].todo = w[p].todo
               /\ work'[p].frame = w[p].frame
               /\ work'[p].owed = w[p].owed \ {c}
    BY <1>1, <1>3, <2>3, UnsettleFacts
  <2> QED
    BY <2>1, <2>2, <2>3
<1> QED
  BY <1>4 DEF Close

\* Of a walk: it has built a frame.
LEMMA LookFacts ==
  ASSUME TypeOK, NEW c \in Channels, NEW x \in Channels, Look(c, x)
  PROVE  /\ work[c] \in Walks /\ work[c].frame = NoFrame
         /\ work' \in [Channels -> Work] /\ seq' \in Nat
         /\ \A p \in Channels : p # c => work'[p] = work[p]
         /\ work'[c] \in Walks
         /\ work'[c].room = work[c].room /\ work'[c].no = work[c].no
         /\ work'[c].owed = work[c].owed
         /\ \/ /\ subs[work[c].room][x] = NoId /\ seq' = seq
               /\ work'[c].frame = NoFrame
               /\ work'[c].todo = work[c].todo \ {x}
            \/ /\ seq' = seq + 1
               /\ Built(c, x) \in Frame
               /\ work'[c].frame = Built(c, x)
               /\ work'[c].todo = work[c].todo
         /\ UNCHANGED <<conn, groups, subs, got, frames>>
<1>1. work[c] \in Walks /\ work \in [Channels -> Work]
  BY KindOf DEF TypeOK, Look
<1>2. work[c].frame = NoFrame /\ UNCHANGED <<conn, groups, subs, got, frames>>
  BY DEF Look
<1>3. work[c].room \in Rooms /\ work[c].no \in Nat
  BY <1>1 DEF Walks
<1>4. CASE subs[work[c].room][x] = NoId
  <2> DEFINE w == [work[c] EXCEPT !.todo = @ \ {x}]
  <2>1. work' = [work EXCEPT ![c] = w] /\ seq' = seq
    BY <1>1, <1>4 DEF Look
  <2>2. /\ w \in Walks /\ w.room = work[c].room /\ w.no = work[c].no
        /\ w.owed = work[c].owed /\ w.frame = work[c].frame /\ w.todo = work[c].todo \ {x}
    BY <1>1 DEF Walks
  <2> HIDE DEF w
  <2> QED
    BY <1>1, <1>2, <1>4, <2>1, <2>2, WorkSet, WorkKinds DEF TypeOK
<1>5. CASE subs[work[c].room][x] # NoId
  <2> DEFINE w == [work[c] EXCEPT !.frame = Built(c, x)]
  <2>1. work' = [work EXCEPT ![c] = w] /\ seq' = seq + 1
    BY <1>1, <1>5 DEF Look, Built, NextId
  <2>2. subs[work[c].room][x] \in Ids /\ NextId(seq) \in Nat
    BY <1>3, <1>5 DEF TypeOK, NextId
  <2>3. Built(c, x) \in Frame
    BY <1>3, <2>2 DEF Built, Frame
  <2>4. /\ w \in Walks /\ w.room = work[c].room /\ w.no = work[c].no
        /\ w.owed = work[c].owed /\ w.frame = Built(c, x) /\ w.todo = work[c].todo
    BY <1>1, <2>3 DEF Walks
  <2> HIDE DEF w
  <2>5. seq' \in Nat
    BY <2>1 DEF TypeOK
  <2> QED
    BY <1>1, <1>2, <2>1, <2>3, <2>4, <2>5, WorkSet, WorkKinds
<1> QED
  BY <1>4, <1>5

\* A walk writes its frame, and has passed the channel.
LEMMA WriteFrameFacts ==
  ASSUME TypeOK, NEW c \in Channels, WriteFrame(c)
  PROVE  /\ work[c] \in Walks /\ work[c].frame \in Frame
         /\ work' \in [Channels -> Work]
         /\ \A p \in Channels : p # c => work'[p] = work[p]
         /\ work'[c] \in Walks
         /\ work'[c].room = work[c].room /\ work'[c].no = work[c].no
         /\ work'[c].frame = NoFrame
         /\ work'[c].owed = work[c].owed \ {work[c].frame.to}
         /\ work'[c].todo = work[c].todo \ {work[c].frame.to}
         /\ got' = IF conn[work[c].frame.to] = "open"
                     THEN [got EXCEPT ![work[c].frame.to] = Append(@, work[c].frame)] ELSE got
         /\ got' \in [Channels -> Seq(Frame)]
         /\ UNCHANGED <<conn, groups, subs, seq, frames>>
<1>1. work[c] \in Walks /\ work \in [Channels -> Work]
  BY KindOf DEF TypeOK, WriteFrame
<1>2. work[c].frame \in Frame /\ work[c].frame.to \in Channels
  BY <1>1 DEF Walks, WriteFrame, Frame
<1> DEFINE f == work[c].frame
           w == [work[c] EXCEPT !.frame = NoFrame, !.todo = @ \ {f.to}, !.owed = @ \ {f.to}]
<1>3. work' = [work EXCEPT ![c] = w]
  BY <1>1 DEF WriteFrame
<1>4. /\ w \in Walks /\ w.room = work[c].room /\ w.no = work[c].no
      /\ w.frame = NoFrame /\ w.owed = work[c].owed \ {f.to} /\ w.todo = work[c].todo \ {f.to}
  BY <1>1 DEF Walks
<1>5. got' = IF conn[f.to] = "open" THEN [got EXCEPT ![f.to] = Append(@, f)] ELSE got
  BY DEF WriteFrame, Delivered
<1> HIDE DEF w
<1>6. got' \in [Channels -> Seq(Frame)]
  BY <1>2, <1>5 DEF TypeOK
<1>7. UNCHANGED <<conn, groups, subs, seq, frames>>
  BY DEF WriteFrame
<1> QED
  BY <1>1, <1>2, <1>3, <1>4, <1>5, <1>6, <1>7, WorkSet, WorkKinds

\* A walk passes over a channel that has left.
LEMMA SkipGoneFacts ==
  ASSUME TypeOK, NEW c \in Channels, NEW x \in Channels, SkipGone(c, x)
  PROVE  /\ work[c] \in Walks /\ work[c].frame = NoFrame
         /\ x \notin groups[work[c].room]
         /\ work' \in [Channels -> Work]
         /\ \A p \in Channels : p # c => work'[p] = work[p]
         /\ work'[c] \in Walks
         /\ work'[c].room = work[c].room /\ work'[c].no = work[c].no
         /\ work'[c].frame = work[c].frame /\ work'[c].owed = work[c].owed
         /\ work'[c].todo = work[c].todo \ {x}
         /\ UNCHANGED <<conn, groups, subs, seq, got, frames>>
<1>1. work[c] \in Walks /\ work \in [Channels -> Work]
  BY KindOf DEF TypeOK, SkipGone
<1> DEFINE w == [work[c] EXCEPT !.todo = @ \ {x}]
<1>2. work' = [work EXCEPT ![c] = w]
  BY <1>1 DEF SkipGone
<1>3. /\ w \in Walks /\ w.room = work[c].room /\ w.no = work[c].no
      /\ w.owed = work[c].owed /\ w.frame = work[c].frame /\ w.todo = work[c].todo \ {x}
  BY <1>1 DEF Walks
<1> HIDE DEF w
<1>4. /\ work' \in [Channels -> Work] /\ work'[c] = w
      /\ \A p \in Channels : p # c => work'[p] = work[p]
  BY <1>1, <1>2, <1>3, WorkSet, WorkKinds
<1> QED
  BY <1>1, <1>3, <1>4 DEF SkipGone

\* What a step does that drops c's subscription to r.
Dropped(c, r) ==
  /\ r \in Rooms /\ work[c] \in Leaves /\ work[c].room = NoRoom
  /\ subs' = [subs EXCEPT ![r][c] = NoId]
  /\ subs' \in [Rooms -> [Channels -> Ids \cup {NoId}]]
  /\ work' \in [Channels -> Work]
  /\ work'[c] \in Leaves
  /\ work'[c].rooms = work[c].rooms /\ work'[c].room = r
  /\ \A p \in Channels \ {c} : ~IsWalk(work[p]) => work'[p] = work[p]
  /\ \A p \in Channels : IsWalk(work[p]) =>
       /\ work'[p] \in Walks
       /\ work'[p].room = work[p].room
       /\ work'[p].no = work[p].no
       /\ work'[p].todo = work[p].todo
       /\ work'[p].frame = work[p].frame
       /\ work[p].room = r => work'[p].owed = work[p].owed \ {c}
       /\ work[p].room # r => work'[p].owed = work[p].owed
  /\ UNCHANGED <<conn, groups, seq, got, frames>>

\* One room of those a channel leaves: its subscription goes.
LEMMA DropFacts ==
  ASSUME TypeOK, NEW c \in Channels, DropSubscription(c)
  PROVE  \E r \in work[c].rooms : Dropped(c, r)
<1>1. PICK r \in work[c].rooms :
        /\ subs' = [subs EXCEPT ![r][c] = NoId]
        /\ work' = Unsettle(c, {r}, [work EXCEPT ![c].room = r])
  BY DEF DropSubscription
<1>2. work[c] \in Leaves /\ work \in [Channels -> Work] /\ work[c].room = NoRoom
  BY KindOf DEF TypeOK, DropSubscription
<1>3. r \in Rooms
  BY <1>2 DEF Leaves
<1> DEFINE w == [work EXCEPT ![c].room = r]
           l == [work[c] EXCEPT !.room = r]
<1>4. w = [work EXCEPT ![c] = l]
  BY <1>2
<1>5. l \in Leaves /\ l.rooms = work[c].rooms /\ l.room = r
  BY <1>2, <1>3 DEF Leaves
<1> HIDE DEF l
<1>6. l \in Work /\ ~IsWalk(l) /\ ~IsWalk(work[c])
  BY <1>2, <1>5, WorkKinds DEF IsWalk
<1>7. /\ w \in [Channels -> Work] /\ w[c] = l
      /\ \A p \in Channels : p # c => w[p] = work[p]
  BY <1>2, <1>4, <1>6
<1>8. work' = Unsettle(c, {r}, w)
  BY <1>1
<1> HIDE DEF w
<1>9. work' \in [Channels -> Work]
  BY <1>7, <1>8, UnsettleFacts
<1>10. \A p \in Channels : ~IsWalk(w[p]) => work'[p] = w[p]
  BY <1>7, <1>8, UnsettleFacts
<1>11. ASSUME NEW p \in Channels, IsWalk(work[p])
       PROVE  /\ work'[p] \in Walks
              /\ work'[p].room = work[p].room
              /\ work'[p].no = work[p].no
              /\ work'[p].todo = work[p].todo
              /\ work'[p].frame = work[p].frame
              /\ work[p].room = r => work'[p].owed = work[p].owed \ {c}
              /\ work[p].room # r => work'[p].owed = work[p].owed
  <2>1. w[p] = work[p]
    BY <1>6, <1>7, <1>11
  <2>2. /\ work'[p] \in Walks
        /\ work'[p].room = w[p].room
        /\ work'[p].no = w[p].no
        /\ work'[p].todo = w[p].todo
        /\ work'[p].frame = w[p].frame
        /\ w[p].room \in {r} => work'[p].owed = w[p].owed \ {c}
        /\ w[p].room \notin {r} => work'[p].owed = w[p].owed
    BY <1>7, <1>8, <1>11, <2>1, UnsettleFacts
  <2> QED
    BY <2>1, <2>2
<1>12. subs' \in [Rooms -> [Channels -> Ids \cup {NoId}]]
  BY <1>1, <1>3 DEF TypeOK
<1>13. UNCHANGED <<conn, groups, seq, got, frames>>
  BY DEF DropSubscription
<1>14. /\ work'[c] \in Leaves /\ work'[c].rooms = work[c].rooms /\ work'[c].room = r
       /\ \A p \in Channels \ {c} : ~IsWalk(work[p]) => work'[p] = work[p]
  BY <1>5, <1>6, <1>7, <1>10
<1>15. Dropped(c, r)
  BY <1>1, <1>2, <1>3, <1>9, <1>11, <1>12, <1>13, <1>14 DEF Dropped
<1> QED
  BY <1>15

\* ... then the channel leaves its group.
LEMMA LeaveGroupFacts ==
  ASSUME TypeOK, NEW c \in Channels, LeaveGroup(c)
  PROVE  /\ work[c] \in Leaves /\ work[c].room \in Rooms
         /\ groups' = [groups EXCEPT ![work[c].room] = @ \ {c}]
         /\ groups' \in [Rooms -> SUBSET Channels]
         /\ work' \in [Channels -> Work]
         /\ \A p \in Channels : p # c => work'[p] = work[p]
         /\ work'[c] \in Leaves
         /\ work'[c].rooms = work[c].rooms \ {work[c].room}
         /\ work'[c].room = NoRoom
         /\ UNCHANGED <<conn, subs, seq, got, frames>>
<1>1. work[c] \in Leaves /\ work \in [Channels -> Work]
  BY KindOf DEF TypeOK, LeaveGroup
<1>2. work[c].room \in Rooms
  BY <1>1 DEF Leaves, LeaveGroup
<1> DEFINE l == [work[c] EXCEPT !.rooms = @ \ {work[c].room}, !.room = NoRoom]
<1>3. work' = [work EXCEPT ![c] = l]
  BY <1>1 DEF LeaveGroup
<1>4. l \in Leaves /\ l.rooms = work[c].rooms \ {work[c].room} /\ l.room = NoRoom
  BY <1>1 DEF Leaves
<1> HIDE DEF l
<1>5. /\ work' \in [Channels -> Work] /\ work'[c] = l
      /\ \A p \in Channels : p # c => work'[p] = work[p]
  BY <1>1, <1>3, <1>4, WorkSet, WorkKinds
<1>6. groups' = [groups EXCEPT ![work[c].room] = @ \ {c}]
  BY DEF LeaveGroup
<1>7. groups' \in [Rooms -> SUBSET Channels]
  BY <1>2, <1>6 DEF TypeOK
<1> QED
  BY <1>1, <1>2, <1>4, <1>5, <1>6, <1>7 DEF LeaveGroup

\* The subscription is put, and the walk begins that tells the room.
LEMMA PutFacts ==
  ASSUME TypeOK, NEW c \in Channels, PutSubscription(c)
  PROVE  /\ work[c] \in Put /\ work[c].room \in Rooms /\ work[c].id \in Ids
         /\ subs' = [subs EXCEPT ![work[c].room][c] = work[c].id]
         /\ subs' \in [Rooms -> [Channels -> Ids \cup {NoId}]]
         /\ work' \in [Channels -> Work]
         /\ \A p \in Channels : p # c => work'[p] = work[p]
         /\ work'[c] \in Walks
         /\ work'[c].room = work[c].room /\ work'[c].no = frames
         /\ work'[c].frame = NoFrame
         /\ work'[c].owed = {x \in groups[work[c].room] : subs'[work[c].room][x] # NoId}
         /\ work'[c].owed \subseteq work'[c].todo
         /\ UNCHANGED <<conn, groups, seq, got, frames>>
<1>1. work[c] \in Put /\ work \in [Channels -> Work]
  BY KindOf DEF TypeOK, PutSubscription
<1>2. work[c].room \in Rooms /\ work[c].id \in Ids
  BY <1>1 DEF Put
<1>3. subs' = [subs EXCEPT ![work[c].room][c] = work[c].id]
  BY DEF PutSubscription
<1>4. subs' \in [Rooms -> [Channels -> Ids \cup {NoId}]]
  BY <1>2, <1>3 DEF TypeOK
<1> DEFINE w == Walk(c, work[c].room, subs', frames)
<1>5. work' = [work EXCEPT ![c] = w]
  BY <1>1 DEF PutSubscription
<1>6. /\ w \in Walks /\ w.room = work[c].room /\ w.no = frames /\ w.frame = NoFrame
      /\ w.owed = {x \in groups[work[c].room] : subs'[work[c].room][x] # NoId}
      /\ w.owed \subseteq w.todo
  <2>1. frames \in Nat /\ groups \in [Rooms -> SUBSET Channels]
    BY DEF TypeOK
  <2> HIDE DEF w
  <2>2. w = Walk(c, work[c].room, subs', frames)
    BY DEF w
  <2> QED
    BY <1>2, <1>4, <2>1, <2>2, WalkFacts
<1> HIDE DEF w
<1>7. /\ work' \in [Channels -> Work] /\ work'[c] = w
      /\ \A p \in Channels : p # c => work'[p] = work[p]
  BY <1>1, <1>5, <1>6, WorkSet, WorkKinds
<1> QED
  BY <1>1, <1>2, <1>3, <1>4, <1>6, <1>7 DEF PutSubscription

\* A message begins its walk.
LEMMA ReadSendFacts ==
  ASSUME TypeOK, NEW c \in Channels, NEW dest \in Rooms \cup {NoDest}, ReadSend(c, dest)
  PROVE  \E r \in Rooms :
           /\ Reads(c)
           /\ frames' = frames + 1
           /\ work' \in [Channels -> Work]
           /\ \A p \in Channels : p # c => work'[p] = work[p]
           /\ work'[c] \in Walks
           /\ work'[c].room = r /\ work'[c].no = frames + 1
           /\ work'[c].frame = NoFrame
           /\ work'[c].owed = {x \in groups[r] : subs[r][x] # NoId}
           /\ work'[c].owed \subseteq work'[c].todo
           /\ UNCHANGED <<conn, groups, subs, seq, got>>
<1> DEFINE r == Route("SEND", dest)
           w == Walk(c, r, subs, frames + 1)
<1>1. r \in Rooms
  BY DEF Route
<1>2. work' = [work EXCEPT ![c] = w] /\ frames' = frames + 1
  BY DEF ReadSend
<1>3. frames + 1 \in Nat /\ work \in [Channels -> Work]
  BY DEF TypeOK
<1> HIDE DEF r
<1>4. /\ w \in Walks /\ w.room = r /\ w.no = frames + 1 /\ w.frame = NoFrame
      /\ w.owed = {x \in groups[r] : subs[r][x] # NoId}
      /\ w.owed \subseteq w.todo
  BY <1>1, <1>3, WalkFacts DEF TypeOK
<1> HIDE DEF w
<1>5. /\ work' \in [Channels -> Work] /\ work'[c] = w
      /\ \A p \in Channels : p # c => work'[p] = work[p]
  BY <1>2, <1>3, <1>4, WorkSet, WorkKinds
<1> QED
  BY <1>1, <1>2, <1>4, <1>5 DEF ReadSend

\* A loop that is between two frames begins to leave rooms.
LEMMA LeaveBegins ==
  ASSUME TypeOK, NEW c \in Channels, NEW R \in SUBSET Rooms, NEW b \in BOOLEAN,
         work[c] = Idle, work' = [work EXCEPT ![c] = Leave(R, b)]
  PROVE  /\ work' \in [Channels -> Work]
         /\ \A p \in Channels : p # c => work'[p] = work[p]
         /\ work'[c] \in Leaves /\ work'[c].op = "leave"
         /\ work'[c].rooms = R /\ work'[c].room = NoRoom
<1>1. Leave(R, b) \in Leaves /\ Leave(R, b).rooms = R /\ Leave(R, b).room = NoRoom
  BY LeaveFacts
<1>2. work \in [Channels -> Work]
  BY DEF TypeOK
<1> QED
  BY <1>1, <1>2, WorkSet, WorkKinds

\* A channel has left its rooms: the loop goes on, or the channel closes.
LEMMA EndLeaveFacts ==
  ASSUME TypeOK, NEW c \in Channels, EndLeave(c)
  PROVE  /\ work[c] \in Leaves /\ work[c].rooms = {}
         /\ work' \in [Channels -> Work] /\ work'[c] = Idle
         /\ \A p \in Channels \ {c} : ~IsWalk(work[p]) => work'[p] = work[p]
         /\ \A p \in Channels : IsWalk(work[p]) =>
              /\ work'[p] \in Walks
              /\ work'[p].room = work[p].room
              /\ work'[p].no = work[p].no
              /\ work'[p].todo = work[p].todo
              /\ work'[p].frame = work[p].frame
         /\ \/ /\ conn' = [conn EXCEPT ![c] = IF @ = "open" THEN "closed" ELSE @]
               /\ groups' = [r \in Rooms |-> groups[r] \ {c}]
               /\ \A p \in Channels : IsWalk(work[p]) => work'[p].owed = work[p].owed \ {c}
            \/ /\ UNCHANGED <<conn, groups>>
               /\ \A p \in Channels : IsWalk(work[p]) => work'[p].owed = work[p].owed
         /\ UNCHANGED <<subs, seq, got, frames>>
<1> DEFINE w == [work EXCEPT ![c] = Idle]
<1>1. work[c] \in Leaves /\ work \in [Channels -> Work] /\ work[c].rooms = {}
  BY KindOf DEF TypeOK, EndLeave
<1>2. /\ w \in [Channels -> Work] /\ w[c] = Idle
      /\ \A p \in Channels : p # c => w[p] = work[p]
  BY <1>1, WorkKinds
<1>3. ~IsWalk(work[c]) /\ ~IsWalk(Idle)
  BY <1>1, WorkKinds DEF IsWalk
<1>4. \/ Close(c, w)
      \/ work' = w /\ UNCHANGED <<conn, groups, subs, seq, got, frames>>
  BY DEF EndLeave
<1> HIDE DEF w
<1>5. \A p \in Channels : IsWalk(work[p]) => p # c /\ w[p] = work[p] /\ work[p] \in Walks
  BY <1>1, <1>2, <1>3, KindOf
<1>6. CASE Close(c, w)
  <2>1. /\ conn' = [conn EXCEPT ![c] = IF @ = "open" THEN "closed" ELSE @]
        /\ groups' = [r \in Rooms |-> groups[r] \ {c}]
        /\ work' \in [Channels -> Work]
        /\ \A p \in Channels : ~IsWalk(w[p]) => work'[p] = w[p]
        /\ \A p \in Channels : IsWalk(w[p]) =>
             /\ work'[p] \in Walks
             /\ work'[p].room = w[p].room
             /\ work'[p].no = w[p].no
             /\ work'[p].todo = w[p].todo
             /\ work'[p].frame = w[p].frame
             /\ work'[p].owed = w[p].owed \ {c}
        /\ UNCHANGED <<subs, seq, got, frames>>
    BY <1>2, <1>6, CloseFacts
  <2> QED
    BY <1>1, <1>2, <1>3, <1>5, <2>1
<1>7. CASE work' = w /\ UNCHANGED <<conn, groups, subs, seq, got, frames>>
  BY <1>1, <1>2, <1>5, <1>7
<1> QED
  BY <1>4, <1>6, <1>7

\* The peer goes away.
LEMMA PeerGoneFacts ==
  ASSUME TypeOK, NEW c \in Channels, PeerGone(c)
  PROVE  /\ conn[c] = "open" /\ work[c] = Idle /\ work'[c] = Idle
         /\ conn' = [conn EXCEPT ![c] = "closed"]
         /\ groups' = [r \in Rooms |-> groups[r] \ {c}]
         /\ work' \in [Channels -> Work]
         /\ \A p \in Channels : ~IsWalk(work[p]) => work'[p] = work[p]
         /\ \A p \in Channels : IsWalk(work[p]) =>
              /\ work'[p] \in Walks
              /\ work'[p].room = work[p].room
              /\ work'[p].no = work[p].no
              /\ work'[p].todo = work[p].todo
              /\ work'[p].frame = work[p].frame
              /\ work'[p].owed = work[p].owed \ {c}
         /\ UNCHANGED <<subs, seq, got, frames>>
<1>1. work \in [Channels -> Work] /\ conn[c] = "open" /\ work[c] = Idle /\ Close(c, work)
  BY DEF TypeOK, PeerGone
<1>2. ~IsWalk(work[c])
  BY <1>1, WorkKinds DEF IsWalk
<1>3. /\ conn' = [conn EXCEPT ![c] = IF @ = "open" THEN "closed" ELSE @]
      /\ groups' = [r \in Rooms |-> groups[r] \ {c}]
      /\ work' \in [Channels -> Work]
      /\ \A p \in Channels : ~IsWalk(work[p]) => work'[p] = work[p]
      /\ \A p \in Channels : IsWalk(work[p]) =>
           /\ work'[p] \in Walks
           /\ work'[p].room = work[p].room
           /\ work'[p].no = work[p].no
           /\ work'[p].todo = work[p].todo
           /\ work'[p].frame = work[p].frame
           /\ work'[p].owed = work[p].owed \ {c}
      /\ UNCHANGED <<subs, seq, got, frames>>
  BY <1>1, CloseFacts
<1> QED
  BY <1>1, <1>2, <1>3

\* Every step of a loop keeps the state well typed.
LEMMA TypeStep == TypeOK /\ [Next]_vars => TypeOK'
<1> SUFFICES ASSUME TypeOK, [Next]_vars PROVE TypeOK'
  OBVIOUS
<1>1. /\ conn \in [Channels -> {"idle", "open", "closed", "inactive"}]
      /\ groups \in [Rooms -> SUBSET Channels]
      /\ seq \in Nat /\ frames \in Nat /\ frames + 1 \in Nat
      /\ work \in [Channels -> Work]
  BY DEF TypeOK
<1>2. ASSUME NEW c \in Channels, Open(c) PROVE TypeOK'
  BY <1>2 DEF TypeOK, Open
<1>3. ASSUME NEW c \in Channels, PeerGone(c) PROVE TypeOK'
  BY <1>1, <1>3, PeerGoneFacts DEF TypeOK
<1>4. ASSUME NEW c \in Channels, Inactive(c) PROVE TypeOK'
  <2>1. Traces(c) \in SUBSET Rooms
    BY DEF Traces
  <2>2. work' \in [Channels -> Work]
    BY <1>4, <2>1, LeaveBegins DEF Inactive
  <2> QED
    BY <1>4, <2>2 DEF TypeOK, Inactive
<1>5. ASSUME NEW c \in Channels, ReadDisconnect(c) PROVE TypeOK'
  <2>1. Traces(c) \in SUBSET Rooms
    BY DEF Traces
  <2>2. work' \in [Channels -> Work]
    BY <1>5, <2>1, LeaveBegins DEF ReadDisconnect, Reads
  <2> QED
    BY <1>5, <2>2 DEF TypeOK, ReadDisconnect
<1>6. ASSUME NEW c \in Channels, NEW i \in ClientIds, ReadUnsubscribe(c, i) PROVE TypeOK'
  <2> DEFINE R == {r \in Rooms : subs[r][c] = i}
  <2>1. R \in SUBSET Rooms /\ work[c] = Idle /\ work' = [work EXCEPT ![c] = Leave(R, FALSE)]
    BY <1>6 DEF ReadUnsubscribe, Reads
  <2> HIDE DEF R
  <2>2. work' \in [Channels -> Work]
    BY <2>1, LeaveBegins
  <2> QED
    BY <1>6, <2>2 DEF TypeOK, ReadUnsubscribe
<1>7. ASSUME NEW c \in Channels, PutSubscription(c) PROVE TypeOK'
  BY <1>7, PutFacts DEF TypeOK
<1>8. ASSUME NEW c \in Channels, WriteFrame(c) PROVE TypeOK'
  BY <1>8, WriteFrameFacts DEF TypeOK
<1>9. ASSUME NEW c \in Channels, EndWalk(c) PROVE TypeOK'
  BY <1>9, WorkKinds DEF TypeOK, EndWalk
<1>10. ASSUME NEW c \in Channels, DropSubscription(c) PROVE TypeOK'
  BY <1>10, DropFacts DEF TypeOK, Dropped
<1>11. ASSUME NEW c \in Channels, LeaveGroup(c) PROVE TypeOK'
  BY <1>11, LeaveGroupFacts DEF TypeOK
<1>12. ASSUME NEW c \in Channels, EndLeave(c) PROVE TypeOK'
  <2>1. /\ work' \in [Channels -> Work] /\ UNCHANGED <<subs, seq, got, frames>>
        /\ \/ /\ conn' = [conn EXCEPT ![c] = IF @ = "open" THEN "closed" ELSE @]
              /\ groups' = [r \in Rooms |-> groups[r] \ {c}]
           \/ UNCHANGED <<conn, groups>>
    BY <1>12, EndLeaveFacts
  <2> QED
    BY <2>1 DEF TypeOK
<1>13. ASSUME NEW c \in Channels, NEW x \in Channels, Look(c, x) PROVE TypeOK'
  BY <1>13, LookFacts DEF TypeOK
<1>14. ASSUME NEW c \in Channels, NEW x \in Channels, SkipGone(c, x) PROVE TypeOK'
  BY <1>14, SkipGoneFacts DEF TypeOK
<1>15. ASSUME NEW c \in Channels, NEW dest \in Rooms \cup {NoDest}, ReadSend(c, dest)
       PROVE  TypeOK'
  BY <1>1, <1>15, ReadSendFacts DEF TypeOK
<1>16. ASSUME NEW c \in Channels, NEW dest \in Rooms \cup {NoDest},
              NEW i \in ClientIds \cup {NoId}, ReadSubscribe(c, dest, i)
       PROVE  TypeOK'
  BY <1>1, <1>16, ReadSubscribeFacts DEF TypeOK
<1>17. CASE UNCHANGED vars
  BY <1>17 DEF TypeOK, vars
<1> QED
  BY <1>2, <1>3, <1>4, <1>5, <1>6, <1>7, <1>8, <1>9, <1>10, <1>11, <1>12, <1>13, <1>14,
     <1>15, <1>16, <1>17 DEF Next

----------------------------------------------------------------------------
(* The group of a room and its subscriptions *)

\* What the loop of c knows of room r: the two agree while c is open, but for the
\* one room that it is about to change in both.
MapsFit(c, r) ==
  /\ conn[c] # "open" => c \notin groups[r]
  /\ conn[c] = "idle" => work[c] = Idle /\ subs[r][c] = NoId
  /\ conn[c] = "inactive" =>
       \/ work[c] = Idle /\ subs[r][c] = NoId
       \/ work[c].op = "leave" /\ (subs[r][c] # NoId => r \in work[c].rooms)
  /\ work[c].op = "leave" /\ work[c].room = r => subs[r][c] = NoId /\ r \in work[c].rooms
  /\ conn[c] = "open" /\ work[c].op = "put" /\ work[c].room = r => c \in groups[r]
  /\ conn[c] = "open" /\ (work[c].op \in {"put", "leave"} => work[c].room # r)
       => (c \in groups[r] <=> subs[r][c] # NoId)

MapInv == \A c \in Channels, r \in Rooms : MapsFit(c, r)

\* A channel that a step does not concern.
LEMMA OtherFits ==
  ASSUME TypeOK, NEW d \in Channels, NEW r \in Rooms, MapsFit(d, r),
         conn'[d] = conn[d], d \in groups'[r] <=> d \in groups[r],
         subs'[r][d] = subs[r][d],
         ~IsWalk(work[d]) => work'[d] = work[d],
         IsWalk(work[d]) => work'[d] \in Walks
  PROVE  MapsFit(d, r)'
<1>1. CASE ~IsWalk(work[d])
  BY <1>1 DEF MapsFit
<1>2. CASE IsWalk(work[d])
  <2>1. work[d].op = "walk" /\ work'[d].op = "walk" /\ work[d] # Idle
    BY <1>2, WorkKinds DEF IsWalk
  <2> QED
    BY <2>1 DEF MapsFit
<1> QED
  BY <1>1, <1>2

\* Nobody is in a room or subscribed at first.
LEMMA MapInit == Init => MapInv
BY DEF Init, MapInv, MapsFit, Idle

\* Every step keeps the two together.
LEMMA MapStep == TypeOK /\ MapInv /\ [Next]_vars => MapInv'
<1> SUFFICES ASSUME TypeOK, MapInv, [Next]_vars PROVE MapInv'
  OBVIOUS
<1> USE DEF MapInv
<1>1. /\ conn \in [Channels -> {"idle", "open", "closed", "inactive"}]
      /\ groups \in [Rooms -> SUBSET Channels]
      /\ subs \in [Rooms -> [Channels -> Ids \cup {NoId}]]
      /\ work \in [Channels -> Work]
  BY DEF TypeOK
<1>2. \A d \in Channels : IsWalk(work[d]) => work[d] \in Walks
  BY <1>1, KindOf
<1>3. ASSUME NEW c \in Channels, Open(c) PROVE MapInv'
  <2>1. ASSUME NEW d \in Channels, NEW r \in Rooms PROVE MapsFit(d, r)'
    <3>1. CASE d = c
      BY <1>1, <1>3, <3>1, WorkKinds DEF Open, MapsFit
    <3>2. CASE d # c
      BY <1>1, <1>2, <1>3, <3>2, OtherFits DEF Open
    <3> QED
      BY <3>1, <3>2
  <2> QED
    BY <2>1
<1>4. ASSUME NEW c \in Channels, PeerGone(c) PROVE MapInv'
  <2>1. ASSUME NEW d \in Channels, NEW r \in Rooms PROVE MapsFit(d, r)'
    <3>1. CASE d = c
      BY <1>1, <1>4, <3>1, PeerGoneFacts, WorkKinds DEF MapsFit
    <3>2. CASE d # c
      BY <1>1, <1>4, <3>2, PeerGoneFacts, OtherFits
    <3> QED
      BY <3>1, <3>2
  <2> QED
    BY <2>1
<1>5. ASSUME NEW c \in Channels, Inactive(c) PROVE MapInv'
  <2>1. Traces(c) \in SUBSET Rooms
    BY DEF Traces
  <2>2. /\ \A p \in Channels : p # c => work'[p] = work[p]
        /\ work'[c].op = "leave" /\ work'[c].rooms = Traces(c) /\ work'[c].room = NoRoom
    BY <1>5, <2>1, LeaveBegins DEF Inactive
  <2>3. ASSUME NEW d \in Channels, NEW r \in Rooms PROVE MapsFit(d, r)'
    <3>1. CASE d = c
      BY <1>1, <1>5, <2>2, <3>1 DEF MapsFit, Inactive, Traces
    <3>2. CASE d # c
      BY <1>1, <1>2, <1>5, <2>2, <3>2, OtherFits DEF Inactive
    <3> QED
      BY <3>1, <3>2
  <2> QED
    BY <2>3
<1>6. ASSUME NEW c \in Channels, NEW R \in SUBSET Rooms, NEW b \in BOOLEAN, Reads(c),
             work' = [work EXCEPT ![c] = Leave(R, b)],
             UNCHANGED <<conn, groups, subs, seq, got, frames>>
      PROVE  MapInv'
  <2>1. conn[c] \in {"open", "closed"} /\ work[c] = Idle
    BY <1>6 DEF Reads
  <2>2. /\ \A p \in Channels : p # c => work'[p] = work[p]
        /\ work'[c].op = "leave" /\ work'[c].rooms = R /\ work'[c].room = NoRoom
    BY <1>6, <2>1, LeaveBegins
  <2>3. ASSUME NEW d \in Channels, NEW r \in Rooms PROVE MapsFit(d, r)'
    <3>1. CASE d = c
      BY <1>1, <1>6, <2>1, <2>2, <3>1, WorkKinds DEF MapsFit
    <3>2. CASE d # c
      BY <1>1, <1>2, <1>6, <2>2, <3>2, OtherFits
    <3> QED
      BY <3>1, <3>2
  <2> QED
    BY <2>3
<1>7. ASSUME NEW c \in Channels, ReadDisconnect(c) PROVE MapInv'
  <2>1. Traces(c) \in SUBSET Rooms
    BY DEF Traces
  <2> QED
    BY <1>6, <1>7, <2>1 DEF ReadDisconnect
<1>8. ASSUME NEW c \in Channels, NEW i \in ClientIds, ReadUnsubscribe(c, i) PROVE MapInv'
  <2> DEFINE R == {r \in Rooms : subs[r][c] = i}
  <2>1. R \in SUBSET Rooms /\ Reads(c) /\ work' = [work EXCEPT ![c] = Leave(R, FALSE)]
    BY <1>8 DEF ReadUnsubscribe
  <2>2. UNCHANGED <<conn, groups, subs, seq, got, frames>>
    BY <1>8 DEF ReadUnsubscribe
  <2> HIDE DEF R
  <2> QED
    BY <1>6, <2>1, <2>2
<1>9. ASSUME NEW c \in Channels, PutSubscription(c) PROVE MapInv'
  <2>1. work[c].op = "put" /\ work'[c].op = "walk" /\ work[c] # Idle
    BY <1>9, PutFacts, WorkKinds
  <2>2. /\ work[c].room \in Rooms /\ work[c].id \in Ids
        /\ subs' = [subs EXCEPT ![work[c].room][c] = work[c].id]
        /\ \A p \in Channels : p # c => work'[p] = work[p]
        /\ conn' = conn /\ groups' = groups
    BY <1>9, PutFacts
  <2>3. work[c].id # NoId
    BY <2>2 DEF Ids
  <2>4. ASSUME NEW d \in Channels, NEW r \in Rooms PROVE MapsFit(d, r)'
    <3>1. subs'[r][d] = IF r = work[c].room /\ d = c THEN work[c].id ELSE subs[r][d]
      BY <1>1, <2>2
    <3>2. CASE d = c
      <4>1. MapsFit(c, r)
        OBVIOUS
      <4> QED
        BY <2>1, <2>2, <2>3, <3>1, <3>2, <4>1 DEF MapsFit
    <3>3. CASE d # c
      BY <1>2, <2>2, <3>1, <3>3, OtherFits
    <3> QED
      BY <3>2, <3>3
  <2> QED
    BY <2>4
<1>10. ASSUME NEW c \in Channels, work[c] \in Walks, work'[c] \in Walks \cup {Idle},
              \A p \in Channels : p # c => work'[p] = work[p],
              UNCHANGED <<conn, groups, subs>>
       PROVE  MapInv'
  <2>1. work[c].op = "walk" /\ work'[c].op \in {"walk", "idle"} /\ work[c] # Idle
    BY <1>10, WorkKinds
  <2>2. ASSUME NEW d \in Channels, NEW r \in Rooms PROVE MapsFit(d, r)'
    <3>1. CASE d = c
      BY <1>10, <2>1, <3>1 DEF MapsFit
    <3>2. CASE d # c
      BY <1>2, <1>10, <3>2, OtherFits
    <3> QED
      BY <3>1, <3>2
  <2> QED
    BY <2>2
<1>11. ASSUME NEW c \in Channels, WriteFrame(c) PROVE MapInv'
  BY <1>10, <1>11, WriteFrameFacts
<1>12. ASSUME NEW c \in Channels, EndWalk(c) PROVE MapInv'
  <2>1. /\ work[c] \in Walks /\ work'[c] = Idle
        /\ \A p \in Channels : p # c => work'[p] = work[p]
        /\ UNCHANGED <<conn, groups, subs>>
    BY <1>1, <1>2, <1>12 DEF EndWalk
  <2> QED
    BY <1>10, <2>1
<1>13. ASSUME NEW c \in Channels, NEW x \in Channels, Look(c, x) PROVE MapInv'
  BY <1>10, <1>13, LookFacts
<1>14. ASSUME NEW c \in Channels, NEW x \in Channels, SkipGone(c, x) PROVE MapInv'
  BY <1>10, <1>14, SkipGoneFacts
<1>15. ASSUME NEW c \in Channels, DropSubscription(c) PROVE MapInv'
  <2> PICK q \in work[c].rooms : Dropped(c, q)
    BY <1>15, DropFacts
  <2>1. /\ q \in Rooms /\ work[c] \in Leaves /\ work[c].room = NoRoom
        /\ subs' = [subs EXCEPT ![q][c] = NoId]
        /\ work'[c] \in Leaves
        /\ work'[c].rooms = work[c].rooms /\ work'[c].room = q
        /\ \A p \in Channels \ {c} : ~IsWalk(work[p]) => work'[p] = work[p]
        /\ \A p \in Channels : IsWalk(work[p]) => work'[p] \in Walks
        /\ UNCHANGED <<conn, groups>>
    BY DEF Dropped
  <2>2. work[c].op = "leave" /\ work'[c].op = "leave" /\ work[c] # Idle
    BY <2>1, WorkKinds
  <2>3. ASSUME NEW d \in Channels, NEW r \in Rooms PROVE MapsFit(d, r)'
    <3>1. subs'[r][d] = IF r = q /\ d = c THEN NoId ELSE subs[r][d]
      BY <1>1, <2>1
    <3>2. CASE d = c
      BY <2>1, <2>2, <3>1, <3>2 DEF MapsFit
    <3>3. CASE d # c
      BY <2>1, <3>1, <3>3, OtherFits
    <3> QED
      BY <3>2, <3>3
  <2> QED
    BY <2>3
<1>16. ASSUME NEW c \in Channels, LeaveGroup(c) PROVE MapInv'
  <2>1. work[c].op = "leave" /\ work'[c].op = "leave" /\ work[c] # Idle
    BY <1>16, LeaveGroupFacts, WorkKinds
  <2>2. ASSUME NEW d \in Channels, NEW r \in Rooms PROVE MapsFit(d, r)'
    <3>1. d \in groups'[r] <=> d \in groups[r] /\ ~(r = work[c].room /\ d = c)
      BY <1>1, <1>16, LeaveGroupFacts
    <3>2. CASE d = c
      BY <1>16, <2>1, <3>1, <3>2, LeaveGroupFacts DEF MapsFit
    <3>3. CASE d # c
      BY <1>2, <1>16, <3>1, <3>3, LeaveGroupFacts, OtherFits
    <3> QED
      BY <3>2, <3>3
  <2> QED
    BY <2>2
<1>17. ASSUME NEW c \in Channels, EndLeave(c) PROVE MapInv'
  <2>1. work[c].op = "leave" /\ work'[c] = Idle /\ work'[c].op = "idle" /\ work[c] # Idle
    BY <1>17, EndLeaveFacts, WorkKinds
  <2>2. /\ work[c].rooms = {} /\ UNCHANGED subs
        /\ \A p \in Channels \ {c} : ~IsWalk(work[p]) => work'[p] = work[p]
        /\ \A p \in Channels : IsWalk(work[p]) => work'[p] \in Walks
        /\ \/ /\ conn' = [conn EXCEPT ![c] = IF @ = "open" THEN "closed" ELSE @]
              /\ groups' = [r \in Rooms |-> groups[r] \ {c}]
           \/ UNCHANGED <<conn, groups>>
    BY <1>17, EndLeaveFacts
  <2>3. ASSUME NEW d \in Channels, NEW r \in Rooms PROVE MapsFit(d, r)'
    <3>1. MapsFit(c, r) /\ MapsFit(d, r)
      OBVIOUS
    <3>2. CASE UNCHANGED <<conn, groups>>
      <4>1. CASE d = c
        BY <2>1, <2>2, <3>1, <3>2, <4>1 DEF MapsFit
      <4>2. CASE d # c
        BY <2>2, <3>1, <3>2, <4>2, OtherFits
      <4> QED
        BY <4>1, <4>2
    <3>3. CASE /\ conn' = [conn EXCEPT ![c] = IF @ = "open" THEN "closed" ELSE @]
               /\ groups' = [q \in Rooms |-> groups[q] \ {c}]
      <4>1. CASE d = c
        <5>1. c \notin groups'[r]
          BY <3>3
        <5>2. conn'[c] = IF conn[c] = "open" THEN "closed" ELSE conn[c]
          BY <1>1, <3>3
        <5> QED
          BY <2>1, <2>2, <3>1, <4>1, <5>1, <5>2 DEF MapsFit
      <4>2. CASE d # c
        <5>1. conn'[d] = conn[d] /\ (d \in groups'[r] <=> d \in groups[r])
          BY <1>1, <3>3, <4>2
        <5> QED
          BY <2>2, <3>1, <4>2, <5>1, OtherFits
      <4> QED
        BY <4>1, <4>2
    <3> QED
      BY <2>2, <3>2, <3>3
  <2> QED
    BY <2>3
<1>18. ASSUME NEW c \in Channels, NEW dest \in Rooms \cup {NoDest}, ReadSend(c, dest)
       PROVE  MapInv'
  <2>1. /\ conn[c] \in {"open", "closed"} /\ work[c] = Idle /\ work[c].op = "idle"
        /\ \A p \in Channels : p # c => work'[p] = work[p]
        /\ work'[c].op = "walk"
        /\ UNCHANGED <<conn, groups, subs>>
    BY <1>18, ReadSendFacts, WorkKinds DEF Reads
  <2>2. ASSUME NEW d \in Channels, NEW r \in Rooms PROVE MapsFit(d, r)'
    <3>1. CASE d = c
      BY <2>1, <3>1 DEF MapsFit
    <3>2. CASE d # c
      BY <1>2, <2>1, <3>2, OtherFits
    <3> QED
      BY <3>1, <3>2
  <2> QED
    BY <2>2
<1>19. ASSUME NEW c \in Channels, NEW dest \in Rooms \cup {NoDest},
              NEW i \in ClientIds \cup {NoId}, ReadSubscribe(c, dest, i)
       PROVE  MapInv'
  <2>1. PICK q \in Rooms :
           /\ Reads(c)
           /\ \A s \in Rooms : groups[s] \subseteq groups'[s] /\ groups'[s] \subseteq groups[s] \cup {c}
           /\ \A s \in Rooms : s # q \/ conn[c] # "open" => groups'[s] = groups[s]
           /\ conn[c] = "open" => c \in groups'[q]
           /\ UNCHANGED <<conn, subs>>
           /\ work'[c] \in Put /\ work'[c].room = q
           /\ \A p \in Channels \ {c} : ~IsWalk(work[p]) => work'[p] = work[p]
           /\ \A p \in Channels : IsWalk(work[p]) => work'[p] \in Walks
    BY <1>19, ReadSubscribeFacts
  <2>2. conn[c] \in {"open", "closed"} /\ work[c] = Idle /\ work[c].op = "idle" /\ work'[c].op = "put"
    BY <2>1, WorkKinds DEF Reads
  <2>3. ASSUME NEW d \in Channels, NEW r \in Rooms PROVE MapsFit(d, r)'
    <3>1. CASE d = c
      BY <2>1, <2>2, <3>1 DEF MapsFit
    <3>2. CASE d # c
      BY <2>1, <3>2, OtherFits
    <3> QED
      BY <3>1, <3>2
  <2> QED
    BY <2>3
<1>20. CASE UNCHANGED vars
  BY <1>20 DEF MapsFit, vars
<1> QED
  BY <1>3, <1>4, <1>5, <1>7, <1>8, <1>9, <1>11, <1>12, <1>13, <1>14, <1>15, <1>16, <1>17,
     <1>18, <1>19, <1>20 DEF Next

----------------------------------------------------------------------------
(* What a walk owes *)

\* A channel that a walk owes its message is in the group, is subscribed, and is
\* still to be visited.
Due(c) ==
  /\ work[c].owed \subseteq work[c].todo
  /\ \A x \in work[c].owed : x \in groups[work[c].room] /\ subs[work[c].room][x] # NoId

OwedInv == \A c \in Channels : IsWalk(work[c]) => Due(c)

\* A walk that still owes no more than before, and visits as much.
LEMMA StillDue ==
  ASSUME NEW c \in Channels, Due(c),
         work'[c].room = work[c].room, work'[c].owed \subseteq work[c].owed,
         work'[c].owed \subseteq work'[c].todo,
         \A x \in work'[c].owed : /\ x \in groups'[work[c].room]
                                 /\ subs'[work[c].room][x] # NoId
  PROVE  Due(c)'
BY DEF Due

\* Nobody walks at first.
LEMMA OwedInit == Init => OwedInv
BY WorkKinds DEF Init, OwedInv, IsWalk

\* No step leaves a walk owing what it will not visit.
LEMMA OwedStep == TypeOK /\ MapInv /\ OwedInv /\ [Next]_vars => OwedInv'
<1> SUFFICES ASSUME TypeOK, MapInv, OwedInv, [Next]_vars PROVE OwedInv'
  OBVIOUS
<1>1. /\ groups \in [Rooms -> SUBSET Channels]
      /\ subs \in [Rooms -> [Channels -> Ids \cup {NoId}]]
      /\ work \in [Channels -> Work]
  BY DEF TypeOK
<1>2. \A d \in Channels : IsWalk(work[d]) =>
        /\ work[d] \in Walks /\ Due(d) /\ work[d].room \in Rooms
        /\ work[d].owed \subseteq Channels
  BY <1>1, KindOf DEF OwedInv, Walks
\* only c's work changes, and becomes no walk
<1>3. ASSUME NEW c \in Channels, \A p \in Channels : p # c => work'[p] = work[p],
             ~IsWalk(work'[c]), UNCHANGED <<groups, subs>>
      PROVE  OwedInv'
  BY <1>2, <1>3 DEF OwedInv, Due
<1>4. ASSUME NEW c \in Channels, Open(c) PROVE OwedInv'
  BY <1>4 DEF OwedInv, Due, Open
<1>5. ASSUME NEW c \in Channels, groups' = [r \in Rooms |-> groups[r] \ {c}], subs' = subs,
             \A p \in Channels : IsWalk(work'[p]) =>
                /\ IsWalk(work[p])
                /\ work'[p].room = work[p].room /\ work'[p].todo = work[p].todo
                /\ work'[p].owed = work[p].owed \ {c}
      PROVE  OwedInv'
  <2> SUFFICES ASSUME NEW p \in Channels, IsWalk(work'[p]) PROVE Due(p)'
    BY DEF OwedInv
  <2>1. /\ Due(p) /\ work[p].room \in Rooms
        /\ work'[p].room = work[p].room /\ work'[p].todo = work[p].todo
        /\ work'[p].owed = work[p].owed \ {c}
    BY <1>2, <1>5
  <2>2. \A x \in work'[p].owed : x \in groups'[work[p].room] /\ subs'[work[p].room][x] # NoId
    BY <1>1, <1>5, <2>1 DEF Due
  <2>3. work'[p].owed \subseteq work'[p].todo
    BY <2>1 DEF Due
  <2> QED
    BY <2>1, <2>2, <2>3, StillDue
<1>6. ASSUME NEW c \in Channels, PeerGone(c) PROVE OwedInv'
  <2>1. \A p \in Channels : IsWalk(work'[p]) => IsWalk(work[p])
    BY <1>6, PeerGoneFacts
  <2> QED
    BY <1>5, <1>6, <2>1, PeerGoneFacts
<1>7. ASSUME NEW c \in Channels, NEW R \in SUBSET Rooms, NEW b \in BOOLEAN, work[c] = Idle,
             work' = [work EXCEPT ![c] = Leave(R, b)], UNCHANGED <<groups, subs>>
      PROVE  OwedInv'
  <2>1. /\ \A p \in Channels : p # c => work'[p] = work[p]
        /\ work'[c].op = "leave"
    BY <1>7, LeaveBegins
  <2> QED
    BY <1>3, <1>7, <2>1 DEF IsWalk
<1>8. ASSUME NEW c \in Channels, Inactive(c) PROVE OwedInv'
  <2>1. Traces(c) \in SUBSET Rooms
    BY DEF Traces
  <2> QED
    BY <1>7, <1>8, <2>1 DEF Inactive
<1>9. ASSUME NEW c \in Channels, ReadDisconnect(c) PROVE OwedInv'
  <2>1. Traces(c) \in SUBSET Rooms
    BY DEF Traces
  <2> QED
    BY <1>7, <1>9, <2>1 DEF ReadDisconnect, Reads
<1>10. ASSUME NEW c \in Channels, NEW i \in ClientIds, ReadUnsubscribe(c, i) PROVE OwedInv'
  <2> DEFINE R == {r \in Rooms : subs[r][c] = i}
  <2>1. R \in SUBSET Rooms /\ work[c] = Idle /\ work' = [work EXCEPT ![c] = Leave(R, FALSE)]
    BY <1>10 DEF ReadUnsubscribe, Reads
  <2>2. UNCHANGED <<groups, subs>>
    BY <1>10 DEF ReadUnsubscribe
  <2> HIDE DEF R
  <2> QED
    BY <1>7, <2>1, <2>2
<1>11. ASSUME NEW c \in Channels, PutSubscription(c) PROVE OwedInv'
  <2>1. /\ work[c].room \in Rooms /\ work[c].id \in Ids /\ groups' = groups
        /\ subs' = [subs EXCEPT ![work[c].room][c] = work[c].id]
        /\ \A p \in Channels : p # c => work'[p] = work[p]
        /\ work'[c].room = work[c].room
        /\ work'[c].owed = {x \in groups[work[c].room] : subs'[work[c].room][x] # NoId}
        /\ work'[c].owed \subseteq work'[c].todo
    BY <1>11, PutFacts
  <2>2. \A r \in Rooms, x \in Channels : subs[r][x] # NoId => subs'[r][x] # NoId
    BY <1>1, <2>1 DEF Ids
  <2> SUFFICES ASSUME NEW p \in Channels, IsWalk(work'[p]) PROVE Due(p)'
    BY DEF OwedInv
  <2>3. CASE p = c
    BY <2>1, <2>3 DEF Due
  <2>4. CASE p # c
    BY <1>2, <2>1, <2>2, <2>4 DEF Due
  <2> QED
    BY <2>3, <2>4
\* c's walk goes on
<1>12. ASSUME NEW c \in Channels, IsWalk(work[c]),
              \A p \in Channels : p # c => work'[p] = work[p],
              work'[c].room = work[c].room, work'[c].owed \subseteq work[c].owed,
              work'[c].owed \subseteq work'[c].todo, UNCHANGED <<groups, subs>>
       PROVE  OwedInv'
  <2> SUFFICES ASSUME NEW p \in Channels, IsWalk(work'[p]) PROVE Due(p)'
    BY DEF OwedInv
  <2>1. CASE p = c
    BY <1>2, <1>12, <2>1 DEF Due
  <2>2. CASE p # c
    BY <1>2, <1>12, <2>2 DEF Due
  <2> QED
    BY <2>1, <2>2
<1>13. ASSUME NEW c \in Channels, WriteFrame(c) PROVE OwedInv'
  <2>1. IsWalk(work[c])
    BY <1>13 DEF WriteFrame
  <2>2. work[c].owed \subseteq work[c].todo
    BY <1>2, <2>1 DEF Due
  <2>3. /\ work'[c].owed \subseteq work[c].owed /\ work'[c].owed \subseteq work'[c].todo
    BY <1>13, <2>2, WriteFrameFacts
  <2> QED
    BY <1>12, <1>13, <2>1, <2>3, WriteFrameFacts
<1>14. ASSUME NEW c \in Channels, EndWalk(c) PROVE OwedInv'
  <2>1. /\ work'[c] = Idle /\ \A p \in Channels : p # c => work'[p] = work[p]
        /\ UNCHANGED <<groups, subs>>
    BY <1>1, <1>14 DEF EndWalk
  <2> QED
    BY <1>3, <2>1, WorkKinds DEF IsWalk
<1>15. ASSUME NEW c \in Channels, NEW x \in Channels, Look(c, x) PROVE OwedInv'
  <2>1. IsWalk(work[c])
    BY <1>15 DEF Look
  <2>2. Due(c)
    BY <1>2, <2>1
  <2>3. work'[c].owed = work[c].owed /\ work'[c].owed \subseteq work'[c].todo
    BY <1>15, <2>2, LookFacts DEF Due
  <2> QED
    BY <1>12, <1>15, <2>1, <2>3, LookFacts
<1>16. ASSUME NEW c \in Channels, NEW x \in Channels, SkipGone(c, x) PROVE OwedInv'
  <2>1. IsWalk(work[c])
    BY <1>16 DEF SkipGone
  <2>2. Due(c)
    BY <1>2, <2>1
  <2>3. work'[c].owed = work[c].owed /\ work'[c].owed \subseteq work'[c].todo
    BY <1>16, <2>2, SkipGoneFacts DEF Due
  <2> QED
    BY <1>12, <1>16, <2>1, <2>3, SkipGoneFacts
<1>17. ASSUME NEW c \in Channels, DropSubscription(c) PROVE OwedInv'
  <2> PICK q \in work[c].rooms : Dropped(c, q)
    BY <1>17, DropFacts
  <2>1. /\ q \in Rooms /\ groups' = groups
        /\ subs' = [subs EXCEPT ![q][c] = NoId]
        /\ work'[c] \in Leaves
        /\ \A p \in Channels \ {c} : ~IsWalk(work[p]) => work'[p] = work[p]
        /\ \A p \in Channels : IsWalk(work[p]) =>
             /\ work'[p].room = work[p].room
             /\ work'[p].todo = work[p].todo
             /\ work[p].room = q => work'[p].owed = work[p].owed \ {c}
             /\ work[p].room # q => work'[p].owed = work[p].owed
    BY DEF Dropped
  <2>2. \A r \in Rooms, x \in Channels : ~(r = q /\ x = c) => subs'[r][x] = subs[r][x]
    BY <1>1, <2>1
  <2> SUFFICES ASSUME NEW p \in Channels, IsWalk(work'[p]) PROVE Due(p)'
    BY DEF OwedInv
  <2>3. IsWalk(work[p])
    BY <2>1, WorkKinds DEF IsWalk
  <2>4. Due(p) /\ work[p].room \in Rooms /\ work[p].owed \subseteq Channels
    BY <1>2, <2>3
  <2>5. /\ work'[p].owed \subseteq work[p].owed /\ work'[p].owed \subseteq work'[p].todo
        /\ work'[p].room = work[p].room
        /\ work[p].room = q => c \notin work'[p].owed
    BY <2>1, <2>3, <2>4 DEF Due
  <2>6. \A x \in work'[p].owed : x \in groups'[work[p].room] /\ subs'[work[p].room][x] # NoId
    BY <2>1, <2>2, <2>4, <2>5 DEF Due
  <2> QED
    BY <2>4, <2>5, <2>6, StillDue
<1>18. ASSUME NEW c \in Channels, LeaveGroup(c) PROVE OwedInv'
  <2>1. /\ work[c] \in Leaves /\ work[c].room \in Rooms
        /\ groups' = [groups EXCEPT ![work[c].room] = @ \ {c}] /\ subs' = subs
        /\ \A p \in Channels : p # c => work'[p] = work[p]
        /\ work'[c] \in Leaves
    BY <1>18, LeaveGroupFacts
  <2>2. subs[work[c].room][c] = NoId
    BY <2>1, WorkKinds DEF MapInv, MapsFit
  <2>3. \A r \in Rooms : \A x \in groups[r] : (r = work[c].room /\ x = c) \/ x \in groups'[r]
    BY <1>1, <2>1
  <2> SUFFICES ASSUME NEW p \in Channels, IsWalk(work'[p]) PROVE Due(p)'
    BY DEF OwedInv
  <2>4. p # c
    BY <2>1, WorkKinds DEF IsWalk
  <2>5. Due(p) /\ work[p].room \in Rooms /\ work'[p] = work[p]
    BY <1>2, <2>1, <2>4
  <2>6. \A x \in work'[p].owed : x \in groups'[work[p].room] /\ subs'[work[p].room][x] # NoId
    BY <2>1, <2>2, <2>3, <2>5 DEF Due
  <2> QED
    BY <2>5, <2>6 DEF Due
<1>19. ASSUME NEW c \in Channels, EndLeave(c) PROVE OwedInv'
  <2>1. \A p \in Channels : IsWalk(work'[p]) => IsWalk(work[p])
    BY <1>19, EndLeaveFacts, WorkKinds DEF IsWalk
  <2>2. \/ groups' = [r \in Rooms |-> groups[r] \ {c}]
           /\ \A p \in Channels : IsWalk(work[p]) => work'[p].owed = work[p].owed \ {c}
        \/ groups' = groups
           /\ \A p \in Channels : IsWalk(work[p]) => work'[p].owed = work[p].owed
    BY <1>19, EndLeaveFacts
  <2>3. /\ \A p \in Channels : IsWalk(work[p]) =>
             work'[p].room = work[p].room /\ work'[p].todo = work[p].todo
        /\ subs' = subs
    BY <1>19, EndLeaveFacts
  <2>4. CASE /\ groups' = [r \in Rooms |-> groups[r] \ {c}]
             /\ \A p \in Channels : IsWalk(work[p]) => work'[p].owed = work[p].owed \ {c}
    BY <1>5, <2>1, <2>3, <2>4
  <2>5. CASE /\ groups' = groups
             /\ \A p \in Channels : IsWalk(work[p]) => work'[p].owed = work[p].owed
    BY <1>2, <2>1, <2>3, <2>5 DEF OwedInv, Due
  <2> QED
    BY <2>2, <2>4, <2>5
<1>20. ASSUME NEW c \in Channels, NEW dest \in Rooms \cup {NoDest}, ReadSend(c, dest)
       PROVE  OwedInv'
  <2>1. PICK r \in Rooms :
           /\ \A p \in Channels : p # c => work'[p] = work[p]
           /\ work'[c].room = r
           /\ work'[c].owed = {x \in groups[r] : subs[r][x] # NoId}
           /\ work'[c].owed \subseteq work'[c].todo
           /\ UNCHANGED <<groups, subs>>
    BY <1>20, ReadSendFacts
  <2> SUFFICES ASSUME NEW p \in Channels, IsWalk(work'[p]) PROVE Due(p)'
    BY DEF OwedInv
  <2>2. CASE p = c
    BY <2>1, <2>2 DEF Due
  <2>3. CASE p # c
    BY <1>2, <2>1, <2>3 DEF Due
  <2> QED
    BY <2>2, <2>3
<1>21. ASSUME NEW c \in Channels, NEW dest \in Rooms \cup {NoDest},
              NEW i \in ClientIds \cup {NoId}, ReadSubscribe(c, dest, i)
       PROVE  OwedInv'
  <2>1. /\ \A s \in Rooms : groups[s] \subseteq groups'[s]
        /\ subs' = subs /\ work'[c] \in Put
        /\ \A p \in Channels \ {c} : ~IsWalk(work[p]) => work'[p] = work[p]
        /\ \A p \in Channels : IsWalk(work[p]) =>
             /\ work'[p].room = work[p].room
             /\ work'[p].owed = work[p].owed
             /\ work[p].todo \subseteq work'[p].todo
    BY <1>21, ReadSubscribeFacts
  <2> SUFFICES ASSUME NEW p \in Channels, IsWalk(work'[p]) PROVE Due(p)'
    BY DEF OwedInv
  <2>2. IsWalk(work[p])
    BY <2>1, WorkKinds DEF IsWalk
  <2> QED
    BY <1>2, <2>1, <2>2 DEF Due
<1>22. CASE UNCHANGED vars
  BY <1>22 DEF OwedInv, Due, vars
<1> QED
  BY <1>4, <1>6, <1>8, <1>9, <1>10, <1>11, <1>13, <1>14, <1>15, <1>16, <1>17, <1>18, <1>19,
     <1>20, <1>21, <1>22 DEF Next

----------------------------------------------------------------------------
(* The frames written *)

\* The walk of c has a frame under way.
Building(c) == IsWalk(work[c]) /\ work[c].frame # NoFrame

\* A walk is later than everything its publisher has written; its frame has an id
\* that no other frame has, above those its publisher has used.
Fresh(c) ==
  /\ work[c].no <= frames
  /\ \A x \in Channels : \A k \in DOMAIN got[x] :
       got[x][k].from = c => got[x][k].no <= work[c].no
  /\ work[c].frame # NoFrame =>
       /\ work[c].frame.from = c /\ work[c].frame.no = work[c].no
       /\ work[c].frame.id <= seq
       /\ \A x \in Channels : \A k \in DOMAIN got[x] :
            /\ got[x][k].id # work[c].frame.id
            /\ got[x][k].from = c => got[x][k].id < work[c].frame.id
       /\ \A d \in Channels : Building(d) /\ work[d].frame.id = work[c].frame.id => c = d

\* MessageIdsUnique, channel by channel.
DistinctIds ==
  \A x, y \in Channels : \A j \in DOMAIN got[x] : \A k \in DOMAIN got[y] :
    got[x][j].id = got[y][k].id => x = y /\ j = k

Bounded ==
  \A x \in Channels : \A k \in DOMAIN got[x] : got[x][k].id <= seq /\ got[x][k].no <= frames

FrameInv ==
  /\ Bounded /\ DistinctIds /\ PublisherOrder
  /\ \A c \in Channels : IsWalk(work[c]) => Fresh(c)

\* Ids that differ channel by channel differ over all frames sent.
LEMMA UniqueByChannel == DistinctIds => MessageIdsUnique
<1> SUFFICES ASSUME DistinctIds, NEW p \in Sent, NEW q \in Sent,
                    got[p[1]][p[2]].id = got[q[1]][q[2]].id
             PROVE  p = q
  BY DEF MessageIdsUnique
<1>1. PICK x \in Channels : p \in {x} \X DOMAIN got[x]
  BY DEF Sent
<1>2. PICK y \in Channels : q \in {y} \X DOMAIN got[y]
  BY DEF Sent
<1>3. /\ p = <<p[1], p[2]>> /\ p[1] = x /\ p[2] \in DOMAIN got[x]
      /\ q = <<q[1], q[2]>> /\ q[1] = y /\ q[2] \in DOMAIN got[y]
  BY <1>1, <1>2
<1>4. x = y /\ p[2] = q[2]
  BY <1>3 DEF DistinctIds
<1> QED
  BY <1>3, <1>4

\* What was written is a frame.
LEMMA GotFrames ==
  ASSUME TypeOK, NEW x \in Channels, NEW k \in DOMAIN got[x]
  PROVE  /\ got[x][k] \in Frame /\ got[x][k].id \in Nat /\ got[x][k].no \in Nat
         /\ DOMAIN got[x] = 1..Len(got[x]) /\ Len(got[x]) \in Nat /\ k \in Nat
<1>1. got[x] \in Seq(Frame)
  BY DEF TypeOK
<1>2. got[x][k] \in Frame /\ DOMAIN got[x] = 1..Len(got[x]) /\ Len(got[x]) \in Nat /\ k \in Nat
  BY <1>1
<1> QED
  BY <1>2 DEF Frame

\* No frame has been written at first.
LEMMA FrameInit == Init => FrameInv
BY WorkKinds DEF Init, FrameInv, Bounded, DistinctIds, PublisherOrder, IsWalk

\* A step that writes nothing and builds nothing.
LEMMA FramesKept ==
  ASSUME TypeOK, FrameInv, got' = got, seq' \in Nat, seq <= seq', frames' \in Nat,
         frames <= frames',
         \A c \in Channels : IsWalk(work'[c]) =>
           \/ IsWalk(work[c]) /\ work'[c].frame = work[c].frame /\ work'[c].no = work[c].no
           \/ /\ work'[c].frame = NoFrame
              /\ work'[c].no \in Nat /\ frames <= work'[c].no /\ work'[c].no <= frames'
  PROVE  FrameInv'
<1>1. seq \in Nat /\ frames \in Nat
  BY DEF TypeOK
<1>2. \A x \in Channels : \A k \in DOMAIN got[x] : got[x][k].id \in Nat /\ got[x][k].no \in Nat
  BY GotFrames
<1>3. Bounded'
  BY <1>1, <1>2 DEF FrameInv, Bounded
<1>4. DistinctIds' /\ PublisherOrder'
  BY DEF FrameInv, DistinctIds, PublisherOrder
<1>5. ASSUME NEW c \in Channels, IsWalk(work'[c]) PROVE Fresh(c)'
  <2>1. CASE IsWalk(work[c]) /\ work'[c].frame = work[c].frame /\ work'[c].no = work[c].no
    <3>1. Fresh(c) /\ work[c] \in Walks
      BY <2>1, KindOf DEF FrameInv, TypeOK
    <3>2. work[c].no \in Nat /\ (work[c].frame # NoFrame => work[c].frame.id \in Nat)
      BY <3>1 DEF Walks, Frame
    <3>3. \A d \in Channels : Building(d)' => Building(d) /\ work'[d].frame = work[d].frame
      BY DEF Building
    <3> QED
      BY <1>1, <2>1, <3>1, <3>2, <3>3 DEF Fresh
  <2>2. CASE /\ work'[c].frame = NoFrame
             /\ work'[c].no \in Nat /\ frames <= work'[c].no /\ work'[c].no <= frames'
    <3>1. \A x \in Channels : \A k \in DOMAIN got[x] : got[x][k].no <= work'[c].no
      BY <1>1, <1>2, <2>2 DEF FrameInv, Bounded
    <3> QED
      BY <2>2, <3>1 DEF Fresh
  <2> QED
    BY <1>5, <2>1, <2>2
<1> QED
  BY <1>3, <1>4, <1>5 DEF FrameInv

\* A frame is built: its id is the highest.
LEMMA LookFrames ==
  ASSUME TypeOK, FrameInv, NEW c \in Channels, NEW x \in Channels, Look(c, x)
  PROVE  FrameInv'
<1>1. /\ work[c] \in Walks /\ work[c].frame = NoFrame /\ work'[c].no = work[c].no
      /\ \A p \in Channels : p # c => work'[p] = work[p]
      /\ work'[c] \in Walks /\ UNCHANGED <<got, frames>> /\ seq' \in Nat
  BY LookFacts
<1>2. seq \in Nat /\ frames \in Nat
  BY DEF TypeOK
<1>3. IsWalk(work[c])
  BY <1>1, WorkKinds DEF IsWalk
<1>4. CASE seq' = seq /\ work'[c].frame = NoFrame
  BY <1>1, <1>2, <1>3, <1>4, FramesKept
<1>5. CASE seq' = seq + 1 /\ Built(c, x) \in Frame /\ work'[c].frame = Built(c, x)
  <2>1. /\ work'[c].frame.from = c /\ work'[c].frame.no = work[c].no
        /\ work'[c].frame.id = seq + 1
    BY <1>5 DEF Built, NextId
  <2>2. \A y \in Channels : \A k \in DOMAIN got[y] :
          got[y][k].id \in Nat /\ got[y][k].no \in Nat /\ got[y][k].id <= seq
    BY GotFrames DEF FrameInv, Bounded
  <2>3. Bounded'
    BY <1>1, <1>2, <1>5, <2>2 DEF FrameInv, Bounded
  <2>4. DistinctIds' /\ PublisherOrder'
    BY <1>1 DEF FrameInv, DistinctIds, PublisherOrder
  <2>5. \A d \in Channels : IsWalk(work[d]) => Fresh(d) /\ work[d] \in Walks
    BY KindOf DEF FrameInv, TypeOK
  <2>6. \A d \in Channels : Building(d) => work[d].frame.id \in Nat /\ work[d].frame.id <= seq
    BY <2>5 DEF Building, Fresh, Walks, Frame
  <2>7. \A d \in Channels : d # c /\ Building(d)' => Building(d) /\ work'[d].frame = work[d].frame
    BY <1>1 DEF Building
  <2>8. ASSUME NEW d \in Channels, IsWalk(work'[d]) PROVE Fresh(d)'
    <3>1. CASE d = c
      <4>1. Fresh(c)
        BY <1>3, <2>5
      <4>2. \A e \in Channels : Building(e)' /\ work'[e].frame.id = work'[c].frame.id => c = e
        BY <1>2, <2>1, <2>6, <2>7
      <4>3. \A y \in Channels : \A k \in DOMAIN got'[y] : got'[y][k].id < work'[c].frame.id
        BY <1>1, <1>2, <2>1, <2>2
      <4>4. work'[c].frame.id <= seq'
        BY <1>2, <1>5, <2>1
      <4>5. \A y \in Channels : \A k \in DOMAIN got'[y] : got'[y][k].id # work'[c].frame.id
        BY <1>1, <1>2, <2>1, <2>2
      <4> QED
        BY <1>1, <2>1, <3>1, <4>1, <4>2, <4>3, <4>4, <4>5 DEF Fresh
    <3>2. CASE d # c
      <4>1. work'[d] = work[d] /\ Fresh(d)
        BY <1>1, <2>5, <2>8, <3>2
      <4>2. ASSUME work[d].frame # NoFrame
            PROVE  /\ work[d].frame.id <= seq'
                   /\ \A e \in Channels : Building(e)' /\ work'[e].frame.id = work[d].frame.id
                                          => d = e
        <5>1. Building(d)
          BY <2>8, <4>1, <4>2 DEF Building
        <5>2. work[d].frame.id \in Nat /\ work[d].frame.id <= seq
          BY <2>6, <5>1
        <5> QED
          BY <1>2, <1>5, <2>1, <2>7, <4>1, <4>2, <5>2 DEF Fresh
      <4> QED
        BY <1>1, <4>1, <4>2 DEF Fresh
    <3> QED
      BY <3>1, <3>2
  <2> QED
    BY <2>3, <2>4, <2>8 DEF FrameInv
<1> QED
  BY <1>4, <1>5, LookFacts

\* A frame is written: nothing its publisher wrote before comes after it.
LEMMA WriteFrames ==
  ASSUME TypeOK, FrameInv, NEW c \in Channels, WriteFrame(c)
  PROVE  FrameInv'
<1> DEFINE f == work[c].frame
<1>1. /\ work[c] \in Walks /\ f \in Frame /\ f # NoFrame
      /\ \A p \in Channels : p # c => work'[p] = work[p]
      /\ work'[c].no = work[c].no /\ work'[c].frame = NoFrame
      /\ got' = IF conn[f.to] = "open" THEN [got EXCEPT ![f.to] = Append(@, f)] ELSE got
      /\ UNCHANGED <<seq, frames>>
  BY WriteFrameFacts DEF WriteFrame
<1>2. IsWalk(work[c]) /\ Fresh(c)
  BY DEF WriteFrame, FrameInv
<1>3. f.to \in Channels /\ f.id \in Nat /\ f.no \in Nat /\ got[f.to] \in Seq(Frame)
  BY <1>1 DEF Frame, TypeOK
<1> HIDE DEF f
<1>4. /\ got \in [Channels -> Seq(Frame)] /\ seq \in Nat /\ frames \in Nat
  BY DEF TypeOK
<1>5. ASSUME NEW x \in Channels, NEW k \in DOMAIN got'[x]
      PROVE  \/ k \in DOMAIN got[x] /\ got'[x][k] = got[x][k]
             \/ x = f.to /\ k = Len(got[x]) + 1 /\ got'[x][k] = f
  <2>1. CASE got' = got
    BY <1>5, <2>1
  <2>2. CASE got' = [got EXCEPT ![f.to] = Append(@, f)]
    <3>1. CASE x = f.to
      <4>1. got'[x] = Append(got[x], f) /\ got[x] \in Seq(Frame)
        BY <1>3, <1>4, <2>2, <3>1
      <4> QED
        BY <1>1, <1>5, <3>1, <4>1
    <3>2. CASE x # f.to
      BY <1>4, <1>5, <2>2, <3>2
    <3> QED
      BY <3>1, <3>2
  <2> QED
    BY <1>1, <2>1, <2>2
<1>6. \A x \in Channels : \A k \in DOMAIN got[x] :
        /\ got[x][k].id \in Nat /\ got[x][k].no \in Nat /\ k \in Nat /\ k <= Len(got[x])
        /\ Len(got[x]) \in Nat
  BY GotFrames
<1>7. /\ f.from = c /\ f.no = work[c].no /\ f.id <= seq /\ work[c].no <= frames
      /\ \A x \in Channels : \A k \in DOMAIN got[x] :
           /\ got[x][k].id # f.id
           /\ got[x][k].from = c => got[x][k].id < f.id /\ got[x][k].no <= f.no
      /\ \A d \in Channels : Building(d) /\ work[d].frame.id = f.id => c = d
  BY <1>1, <1>2 DEF Fresh, f
<1>8. Bounded'
  BY <1>1, <1>5, <1>7 DEF FrameInv, Bounded
<1>9. DistinctIds'
  <2> SUFFICES ASSUME NEW x \in Channels, NEW y \in Channels, NEW j \in DOMAIN got'[x],
                      NEW k \in DOMAIN got'[y], got'[x][j].id = got'[y][k].id
               PROVE  x = y /\ j = k
    BY DEF DistinctIds
  <2>1. CASE j \in DOMAIN got[x] /\ got'[x][j] = got[x][j]
    <3>1. got'[y][k] # f
      BY <1>7, <2>1
    <3>2. k \in DOMAIN got[y] /\ got'[y][k] = got[y][k]
      BY <1>5, <3>1
    <3> QED
      BY <2>1, <3>2 DEF FrameInv, DistinctIds
  <2>2. CASE x = f.to /\ j = Len(got[x]) + 1 /\ got'[x][j] = f
    <3>1. ~(k \in DOMAIN got[y] /\ got'[y][k] = got[y][k])
      BY <1>7, <2>2
    <3>2. y = f.to /\ k = Len(got[y]) + 1
      BY <1>5, <3>1
    <3> QED
      BY <2>2, <3>2
  <2> QED
    BY <1>5, <2>1, <2>2
<1>10. PublisherOrder'
  <2> SUFFICES ASSUME NEW x \in Channels, NEW j \in DOMAIN got'[x], NEW k \in DOMAIN got'[x],
                      j < k, got'[x][j].from = got'[x][k].from
               PROVE  got'[x][j].no <= got'[x][k].no /\ got'[x][j].id < got'[x][k].id
    BY DEF PublisherOrder
  <2>1. CASE k \in DOMAIN got[x] /\ got'[x][k] = got[x][k]
    <3>1. ~(j = Len(got[x]) + 1)
      BY <1>6, <2>1
    <3>2. j \in DOMAIN got[x] /\ got'[x][j] = got[x][j]
      BY <1>5, <3>1
    <3> QED
      BY <2>1, <3>2 DEF FrameInv, PublisherOrder
  <2>2. CASE k = Len(got[x]) + 1 /\ got'[x][k] = f
    <3>1. ~(j = Len(got[x]) + 1)
      <4>1. got[x] \in Seq(Frame) /\ Len(got[x]) \in Nat
        BY <1>4
      <4> QED
        BY <2>2, <4>1
    <3>2. j \in DOMAIN got[x] /\ got'[x][j] = got[x][j]
      BY <1>5, <3>1
    <3> QED
      BY <1>7, <2>2, <3>2
  <2> QED
    BY <1>5, <2>1, <2>2
<1>11. ASSUME NEW d \in Channels, IsWalk(work'[d]) PROVE Fresh(d)'
  <2>1. CASE d = c
    <3>1. \A x \in Channels : \A k \in DOMAIN got'[x] :
            got'[x][k].from = c => got'[x][k].no <= work[c].no
      BY <1>5, <1>3, <1>7
    <3> QED
      BY <1>1, <1>7, <2>1, <3>1 DEF Fresh
  <2>2. CASE d # c
    <3>1. work'[d] = work[d] /\ Fresh(d)
      BY <1>1, <1>11, <2>2 DEF FrameInv
    <3>2. \A x \in Channels : \A k \in DOMAIN got'[x] : got'[x][k].from = d =>
            k \in DOMAIN got[x] /\ got'[x][k] = got[x][k]
      BY <1>5, <1>7, <2>2
    <3>3. ASSUME work[d].frame # NoFrame
          PROVE  \A x \in Channels : \A k \in DOMAIN got'[x] : got'[x][k].id # work[d].frame.id
      <4>1. Building(d)
        BY <1>11, <3>1, <3>3 DEF Building
      <4>2. f.id # work[d].frame.id
        BY <1>7, <2>2, <4>1
      <4> QED
        BY <1>5, <3>1, <3>3, <4>2 DEF Fresh
    <3>4. \A e \in Channels : Building(e)' => Building(e) /\ work'[e].frame = work[e].frame
      BY <1>1 DEF Building
    <3> QED
      BY <1>1, <3>1, <3>2, <3>3, <3>4 DEF Fresh
  <2> QED
    BY <2>1, <2>2
<1> QED
  BY <1>8, <1>9, <1>10, <1>11 DEF FrameInv

\* Every step keeps ids unique and the broadcasts of a publisher in order.
LEMMA FrameStep == TypeOK /\ FrameInv /\ [Next]_vars => FrameInv'
<1> SUFFICES ASSUME TypeOK, FrameInv, [Next]_vars PROVE FrameInv'
  OBVIOUS
<1>1. seq \in Nat /\ frames \in Nat /\ work \in [Channels -> Work]
  BY DEF TypeOK
\* the walks stay, and nothing else changes
<1>2. ASSUME \A p \in Channels : IsWalk(work'[p]) =>
               IsWalk(work[p]) /\ work'[p].frame = work[p].frame /\ work'[p].no = work[p].no,
             UNCHANGED <<seq, got, frames>>
      PROVE  FrameInv'
  BY <1>1, <1>2, FramesKept
<1>3. ASSUME NEW c \in Channels, Open(c) PROVE FrameInv'
  BY <1>2, <1>3 DEF Open
<1>4. ASSUME NEW c \in Channels, PeerGone(c) PROVE FrameInv'
  BY <1>2, <1>4, PeerGoneFacts
<1>5. ASSUME NEW c \in Channels, NEW R \in SUBSET Rooms, NEW b \in BOOLEAN, work[c] = Idle,
             work' = [work EXCEPT ![c] = Leave(R, b)], UNCHANGED <<seq, got, frames>>
      PROVE  FrameInv'
  <2>1. /\ \A p \in Channels : p # c => work'[p] = work[p]
        /\ ~IsWalk(work'[c])
    BY <1>5, LeaveBegins DEF IsWalk
  <2> QED
    BY <1>2, <1>5, <2>1
<1>6. ASSUME NEW c \in Channels, Inactive(c) PROVE FrameInv'
  <2>1. Traces(c) \in SUBSET Rooms
    BY DEF Traces
  <2> QED
    BY <1>5, <1>6, <2>1 DEF Inactive
<1>7. ASSUME NEW c \in Channels, ReadDisconnect(c) PROVE FrameInv'
  <2>1. Traces(c) \in SUBSET Rooms
    BY DEF Traces
  <2> QED
    BY <1>5, <1>7, <2>1 DEF ReadDisconnect, Reads
<1>8. ASSUME NEW c \in Channels, NEW i \in ClientIds, ReadUnsubscribe(c, i) PROVE FrameInv'
  <2> DEFINE R == {r \in Rooms : subs[r][c] = i}
  <2>1. R \in SUBSET Rooms /\ work[c] = Idle /\ work' = [work EXCEPT ![c] = Leave(R, FALSE)]
    BY <1>8 DEF ReadUnsubscribe, Reads
  <2>2. UNCHANGED <<seq, got, frames>>
    BY <1>8 DEF ReadUnsubscribe
  <2> HIDE DEF R
  <2> QED
    BY <1>5, <2>1, <2>2
<1>9. ASSUME NEW c \in Channels, PutSubscription(c) PROVE FrameInv'
  <2>1. /\ \A p \in Channels : p # c => work'[p] = work[p]
        /\ work'[c].no = frames /\ work'[c].frame = NoFrame /\ UNCHANGED <<seq, got, frames>>
    BY <1>9, PutFacts
  <2> QED
    BY <1>1, <2>1, FramesKept
<1>10. ASSUME NEW c \in Channels, WriteFrame(c) PROVE FrameInv'
  BY <1>10, WriteFrames
<1>11. ASSUME NEW c \in Channels, EndWalk(c) PROVE FrameInv'
  <2>1. /\ work'[c] = Idle /\ \A p \in Channels : p # c => work'[p] = work[p]
        /\ UNCHANGED <<seq, got, frames>>
    BY <1>1, <1>11 DEF EndWalk
  <2> QED
    BY <1>2, <2>1, WorkKinds DEF IsWalk
<1>12. ASSUME NEW c \in Channels, DropSubscription(c) PROVE FrameInv'
  <2> PICK q \in work[c].rooms : Dropped(c, q)
    BY <1>12, DropFacts
  <2>1. \A p \in Channels : IsWalk(work'[p]) => IsWalk(work[p])
    BY WorkKinds DEF Dropped, IsWalk
  <2> QED
    BY <1>2, <2>1 DEF Dropped
<1>13. ASSUME NEW c \in Channels, LeaveGroup(c) PROVE FrameInv'
  <2>1. /\ \A p \in Channels : p # c => work'[p] = work[p]
        /\ ~IsWalk(work'[c]) /\ UNCHANGED <<seq, got, frames>>
    BY <1>13, LeaveGroupFacts, WorkKinds DEF IsWalk
  <2> QED
    BY <1>2, <2>1
<1>14. ASSUME NEW c \in Channels, EndLeave(c) PROVE FrameInv'
  <2>1. \A p \in Channels : IsWalk(work'[p]) => IsWalk(work[p])
    BY <1>14, EndLeaveFacts, WorkKinds DEF IsWalk
  <2> QED
    BY <1>2, <1>14, <2>1, EndLeaveFacts
<1>15. ASSUME NEW c \in Channels, NEW x \in Channels, Look(c, x) PROVE FrameInv'
  BY <1>15, LookFrames
<1>16. ASSUME NEW c \in Channels, NEW x \in Channels, SkipGone(c, x) PROVE FrameInv'
  <2>1. IsWalk(work[c])
    BY <1>16 DEF SkipGone
  <2> QED
    BY <1>2, <1>16, <2>1, SkipGoneFacts
<1>17. ASSUME NEW c \in Channels, NEW dest \in Rooms \cup {NoDest}, ReadSend(c, dest)
       PROVE  FrameInv'
  <2>1. /\ \A p \in Channels : p # c => work'[p] = work[p]
        /\ work'[c].no = frames + 1 /\ work'[c].frame = NoFrame
        /\ frames' = frames + 1 /\ UNCHANGED <<seq, got>>
    BY <1>17, ReadSendFacts
  <2> QED
    BY <1>1, <2>1, FramesKept
<1>18. ASSUME NEW c \in Channels, NEW dest \in Rooms \cup {NoDest},
              NEW i \in ClientIds \cup {NoId}, ReadSubscribe(c, dest, i)
       PROVE  FrameInv'
  <2>1. /\ seq' \in Nat /\ seq <= seq' /\ frames' = frames + 1 /\ got' = got
        /\ work'[c] \in Put
        /\ \A p \in Channels \ {c} : ~IsWalk(work[p]) => work'[p] = work[p]
        /\ \A p \in Channels : IsWalk(work[p]) =>
             work'[p].frame = work[p].frame /\ work'[p].no = work[p].no
    BY <1>18, ReadSubscribeFacts
  <2>2. \A p \in Channels : IsWalk(work'[p]) => IsWalk(work[p])
    BY <2>1, WorkKinds DEF IsWalk
  <2> QED
    BY <1>1, <2>1, <2>2, FramesKept
<1>19. CASE UNCHANGED vars
  BY <1>2, <1>19 DEF vars
<1> QED
  BY <1>3, <1>4, <1>6, <1>7, <1>8, <1>9, <1>10, <1>11, <1>12, <1>13, <1>14, <1>15, <1>16,
     <1>17, <1>18, <1>19 DEF Next

----------------------------------------------------------------------------
(* The theorems *)

\* The inductive invariant.
Inv == TypeOK /\ MapInv /\ OwedInv /\ FrameInv

\* The parts are inductive together.
LEMMA InvariantHolds == Spec => []Inv
<1>1. Init => Inv
  BY TypeInit, MapInit, OwedInit, FrameInit DEF Inv
<1>2. Inv /\ [Next]_vars => Inv'
  BY TypeStep, MapStep, OwedStep, FrameStep DEF Inv
<1> QED
  BY <1>1, <1>2, PTL DEF Spec

\* The state of the STOMP room is well typed, for any channels, rooms and ids.
THEOREM TypeCorrect == Spec => []TypeOK
BY InvariantHolds, PTL DEF Inv

\* subscribe, unsubscribe and removeChannelFromAllRooms keep the group of a room
\* and its map of subscriptions together, though under no common lock.
THEOREM MapsStayTogether == Spec => []MapsAgree
<1>1. Inv => MapsAgree
  <2> SUFFICES ASSUME Inv, NEW c \in Channels, NEW r \in Rooms, conn[c] = "open", work[c] = Idle
               PROVE  c \in groups[r] <=> subs[r][c] # NoId
    BY DEF MapsAgree
  <2>1. MapsFit(c, r)
    BY DEF Inv, MapInv
  <2> QED
    BY <2>1, WorkKinds DEF MapsFit
<1> QED
  BY <1>1, InvariantHolds, PTL

\* After channelInactive nothing is left of a channel, whatever frames were read
\* after it closed.
THEOREM NothingLeft == Spec => []NoGhosts
<1>1. Inv => NoGhosts
  <2> SUFFICES ASSUME Inv, NEW c \in Channels, NEW r \in Rooms,
                      conn[c] = "inactive", work[c] = Idle
               PROVE  c \notin groups[r] /\ subs[r][c] = NoId
    BY DEF NoGhosts
  <2>1. MapsFit(c, r)
    BY DEF Inv, MapInv
  <2> QED
    BY <2>1, WorkKinds DEF MapsFit
<1> QED
  BY <1>1, InvariantHolds, PTL

\* messageIdSeq numbers the MESSAGE frames of all loops apart.
THEOREM IdsUnique == Spec => []MessageIdsUnique
<1>1. Inv => MessageIdsUnique
  BY UniqueByChannel DEF Inv, FrameInv
<1> QED
  BY <1>1, InvariantHolds, PTL

\* broadcastToRoom reaches whoever is subscribed from its beginning to its end.
THEOREM SubscribersAreServed == Spec => []SubscribersHear
<1>1. Inv => SubscribersHear
  BY DEF Inv, OwedInv, Due, Ended, SubscribersHear
<1> QED
  BY <1>1, InvariantHolds, PTL

\* No broadcast of a publisher overtakes an earlier one on its way to a channel.
THEOREM PublishersInOrder == Spec => []PublisherOrder
<1>1. Inv => PublisherOrder
  BY DEF Inv, FrameInv
<1> QED
  BY <1>1, InvariantHolds, PTL
=============================================================================
