--------------------------- MODULE ChatRoomProofs ---------------------------
(***************************************************************************)
(* Proofs about ChatRoom, for any channels, rooms and number of tasks.     *)
(***************************************************************************)
EXTENDS ChatRoom, TLAPS

USE ChatRoomAssumption

\* The task that Submitted appends.
NewTask(k, c, r, n, o) ==
  [kind |-> k, by |-> c, num |-> n, room |-> r,
   stage |-> "queued", todo |-> {}, owed |-> o]

\* What submitting a task does to the sequence of tasks.
LEMMA SubmittedFacts ==
  ASSUME TypeOK, NEW k \in {"pong", "joined", "left", "send"}, NEW c \in Channels,
         NEW r \in Rooms \cup {NoRoom}, NEW n \in Rooms, NEW o \in BOOLEAN,
         k \in {"joined", "left"} => r \in Rooms
  PROVE  /\ Submitted(k, c, r, n, o) \in Seq(Task)
         /\ DOMAIN Submitted(k, c, r, n, o) = DOMAIN tasks \cup {Len(tasks) + 1}
         /\ \A i \in DOMAIN tasks : Submitted(k, c, r, n, o)[i] = tasks[i]
         /\ Submitted(k, c, r, n, o)[Len(tasks) + 1] = NewTask(k, c, r, n, o)
<1> DEFINE t == NewTask(k, c, r, n, o)
<1>1. t \in Task
  BY DEF Task, NewTask
<1>2. tasks \in Seq(Task)
  BY DEF TypeOK
<1> QED
  BY <1>1, <1>2 DEF Submitted, NewTask

\* Unsettle keeps every task and changes nothing but `owed`.
LEMMA UnsettleFacts ==
  ASSUME TypeOK, NEW c \in Channels
  PROVE  /\ Unsettle(c) \in Seq(Task)
         /\ DOMAIN Unsettle(c) = DOMAIN tasks
         /\ \A i \in DOMAIN tasks :
              /\ Unsettle(c)[i].kind = tasks[i].kind
              /\ Unsettle(c)[i].by = tasks[i].by
              /\ Unsettle(c)[i].room = tasks[i].room
              /\ Unsettle(c)[i].stage = tasks[i].stage
              /\ Unsettle(c)[i].todo = tasks[i].todo
              /\ Unsettle(c)[i].owed => tasks[i].owed /\ tasks[i].by # c
<1>1. tasks \in Seq(Task)
  BY DEF TypeOK
<1>2. \A i \in DOMAIN tasks : tasks[i] \in Task
  BY <1>1
<1> DEFINE u(i) == [tasks[i] EXCEPT !.owed = @ /\ tasks[i].by # c]
<1>3. \A i \in DOMAIN tasks : u(i) \in Task
  BY <1>2 DEF Task
<1>4. Unsettle(c) \in Seq(Task) /\ DOMAIN Unsettle(c) = DOMAIN tasks
  BY <1>1, <1>3 DEF Unsettle
<1>5. \A i \in DOMAIN tasks : Unsettle(c)[i] = u(i)
  BY DEF Unsettle
<1> QED
  BY <1>2, <1>4, <1>5 DEF Task

\* Replacing one task leaves the others alone.
LEMMA ReplaceFacts ==
  ASSUME NEW s \in Seq(Task), NEW i \in DOMAIN s, NEW t \in Task
  PROVE  /\ [s EXCEPT ![i] = t] \in Seq(Task)
         /\ DOMAIN [s EXCEPT ![i] = t] = DOMAIN s
         /\ [s EXCEPT ![i] = t][i] = t
         /\ \A j \in DOMAIN s \ {i} : [s EXCEPT ![i] = t][j] = s[j]
OBVIOUS

\* A task that starts is a task still, and has a room unless it is an answer.
LEMMA StartedFacts ==
  ASSUME TypeOK, NEW i \in DOMAIN tasks
  PROVE  /\ Started(tasks[i]) \in Task
         /\ Started(tasks[i]).room = Target(tasks[i])
         /\ Started(tasks[i]).kind = tasks[i].kind
         /\ tasks[i].kind # "pong" => Target(tasks[i]) \in Rooms
<1>1. tasks[i] \in Task
  BY DEF TypeOK
<1>2. /\ Target(tasks[i]) \in Rooms \cup {NoRoom}
      /\ tasks[i].kind # "pong" => Target(tasks[i]) \in Rooms
  BY <1>1 DEF TypeOK, Task, Target
<1>3. tasks[i].kind # "pong" => members[Target(tasks[i])] \in SUBSET Channels
  BY <1>2 DEF TypeOK
<1> QED
  BY <1>1, <1>2, <1>3 DEF Task, Started

\* A task whose walk has passed a channel is a task still.
LEMMA VisitedFacts ==
  ASSUME TypeOK, NEW i \in DOMAIN tasks, NEW c \in Channels
  PROVE  /\ Visited(tasks[i], c) \in Task
         /\ [tasks[i] EXCEPT !.todo = @ \ {c}] \in Task
         /\ Visited(tasks[i], c).room = tasks[i].room
         /\ Visited(tasks[i], c).kind = tasks[i].kind
         /\ Visited(tasks[i], c).stage = tasks[i].stage
<1>1. tasks[i] \in Task
  BY DEF TypeOK
<1> QED
  BY <1>1 DEF Task, Visited

\* A walk may pick up a newcomer to its room; nothing else of it changes.
LEMMA MayVisitFacts ==
  ASSUME NEW ts \in Seq(Task), NEW r \in Rooms, NEW c \in Channels, MayVisit(ts, r, c)
  PROVE  /\ tasks' \in Seq(Task)
         /\ DOMAIN tasks' = DOMAIN ts
         /\ \A i \in DOMAIN ts :
              \/ tasks'[i] = ts[i]
              \/ /\ ts[i].room = r /\ ts[i].stage = "casting" /\ ts[i].todo # {}
                 /\ tasks'[i] = [ts[i] EXCEPT !.todo = @ \cup {c}]
<1>1. PICK S \in SUBSET {i \in DOMAIN ts : ts[i].stage = "casting" /\ ts[i].todo # {}
                                             /\ ts[i].room = r /\ i \notin got[c]} :
        tasks' = [i \in DOMAIN ts |->
                    IF i \in S THEN [ts[i] EXCEPT !.todo = @ \cup {c}] ELSE ts[i]]
  BY DEF MayVisit
<1> DEFINE v(i) == [ts[i] EXCEPT !.todo = @ \cup {c}]
<1>2. \A i \in DOMAIN ts : ts[i] \in Task
  OBVIOUS
<1>3. \A i \in DOMAIN ts : v(i) \in Task
  BY <1>2 DEF Task
<1>4. tasks' = [i \in DOMAIN ts |-> IF i \in S THEN v(i) ELSE ts[i]]
  BY <1>1
<1> HIDE DEF v
<1>5. tasks' \in Seq(Task) /\ DOMAIN tasks' = DOMAIN ts
  BY <1>2, <1>3, <1>4
<1>6. \A i \in DOMAIN ts : (tasks'[i] = v(i) /\ i \in S) \/ tasks'[i] = ts[i]
  BY <1>4
<1> QED
  BY <1>5, <1>6 DEF v

----------------------------------------------------------------------------
(* Type correctness *)

\* A fresh server is well typed.
LEMMA TypeInit == Init => TypeOK
BY DEF Init, TypeOK, NoOp, Ops

\* Every frame, task and connection event keeps the state well typed.
LEMMA TypeStep == TypeOK /\ [Next]_vars => TypeOK'
<1> SUFFICES ASSUME TypeOK, [Next]_vars PROVE TypeOK'
  OBVIOUS
<1> DEFINE Rest == /\ conn' \in [Channels -> {"idle", "open", "closing", "closed"}]
                   /\ caller' \in [Channels -> BOOLEAN]
                   /\ unchecked' \subseteq Channels
                   /\ roomAttr' \in [Channels -> Rooms \cup {NoRoom}]
                   /\ pendingOp' \in [Channels -> Ops]
                   /\ members' \in [Rooms -> SUBSET Channels]
                   /\ got' \in [Channels -> SUBSET Nat]
           Tasks == /\ tasks' \in Seq(Task)
                    /\ \A i \in DOMAIN tasks' :
                         /\ tasks'[i].kind \in {"joined", "left"} => tasks'[i].room \in Rooms
                         /\ tasks'[i].kind = "send" /\ tasks'[i].stage = "casting"
                              => tasks'[i].room \in Rooms
<1> SUFFICES Rest /\ Tasks
  BY DEF TypeOK
<1>a. ASSUME tasks' = tasks PROVE Tasks
  BY <1>a DEF TypeOK
<1>b. ASSUME NEW c \in Channels, tasks' = Unsettle(c) PROVE Tasks
  BY <1>b, UnsettleFacts DEF TypeOK
<1>c. ASSUME NEW k \in {"pong", "joined", "left", "send"}, NEW c \in Channels,
             NEW r \in Rooms \cup {NoRoom}, NEW n \in Rooms, NEW o \in BOOLEAN,
             k \in {"joined", "left"} => r \in Rooms, tasks' = Submitted(k, c, r, n, o)
      PROVE  Tasks
  <2>1. /\ tasks' \in Seq(Task)
        /\ DOMAIN tasks' = DOMAIN tasks \cup {Len(tasks) + 1}
        /\ \A i \in DOMAIN tasks : tasks'[i] = tasks[i]
        /\ tasks'[Len(tasks) + 1] = NewTask(k, c, r, n, o)
    <3>1. tasks \in Seq(Task) /\ NewTask(k, c, r, n, o) \in Task
      BY DEF TypeOK, Task, NewTask
    <3>2. tasks' = Append(tasks, NewTask(k, c, r, n, o))
      BY <1>c DEF Submitted, NewTask
    <3> QED
      BY <3>1, <3>2
  <2> QED
    BY <1>c, <2>1 DEF TypeOK, NewTask
<1>d. ASSUME NEW c \in Channels, Close(c) PROVE Rest /\ Tasks
  BY <1>d, <1>b DEF Close, TypeOK
<1>1. ASSUME NEW c \in Channels, HandlerAdded(c) PROVE Rest /\ Tasks
  BY <1>1, <1>a DEF HandlerAdded, TypeOK
<1>2. ASSUME NEW c \in Channels, Authenticate(c) PROVE Rest /\ Tasks
  BY <1>2, <1>a DEF Authenticate, TypeOK
<1>3. ASSUME NEW c \in Channels, CheckCaller(c) PROVE Rest /\ Tasks
  BY <1>3, <1>a DEF CheckCaller, TypeOK
<1>4. ASSUME NEW c \in Channels,
             FinishClose(c) \/ Disconnect(c) \/ ReadUnauthorized(c) \/ ReadDisconnect(c)
      PROVE  Rest /\ Tasks
  BY <1>4, <1>d DEF FinishClose, Disconnect, ReadUnauthorized, ReadDisconnect
<1>5. ASSUME NEW c \in Channels, Connect(c) PROVE Rest /\ Tasks
  BY <1>5, <1>c DEF Connect, TypeOK
<1>6. ASSUME NEW c \in Channels, NEW op \in {"add", "remove"}, NEW r \in Rooms,
             SetRoomAttr(c, op, r)
      PROVE  Rest /\ Tasks
  BY <1>6, <1>a, <1>b DEF SetRoomAttr, NewAttr, Ops, TypeOK
<1>7. ASSUME NEW c \in Channels, ChangeGroup(c) PROVE Rest /\ Tasks
  <2> DEFINE r == pendingOp[c].room
  <2>1. r \in Rooms /\ pendingOp[c].op \in {"add", "remove"}
    BY <1>7 DEF ChangeGroup, Ops, NoOp, TypeOK
  <2>2. CASE pendingOp[c].op = "remove"
    <3>1. tasks' = Submitted("left", c, r, DefaultRoom, FALSE)
      BY <1>7, <2>2 DEF ChangeGroup
    <3>2. Tasks
      BY <1>c, <2>1, <3>1
    <3>3. Rest
      BY <1>7, <2>1, <2>2 DEF ChangeGroup, Ops, NoOp, TypeOK
    <3> QED
      BY <3>2, <3>3
  <2>3. CASE pendingOp[c].op = "add"
    <3> DEFINE s == Submitted("joined", c, r, DefaultRoom, TRUE)
    <3>1. /\ s \in Seq(Task)
          /\ DOMAIN s = DOMAIN tasks \cup {Len(tasks) + 1}
          /\ \A i \in DOMAIN tasks : s[i] = tasks[i]
          /\ s[Len(tasks) + 1] = NewTask("joined", c, r, DefaultRoom, TRUE)
      BY <2>1, SubmittedFacts
    <3>2. MayVisit(s, r, c)
      BY <1>7, <2>3 DEF ChangeGroup
    <3> HIDE DEF s, r
    <3>3. /\ tasks' \in Seq(Task)
          /\ DOMAIN tasks' = DOMAIN s
          /\ \A i \in DOMAIN s : tasks'[i].kind = s[i].kind /\ tasks'[i].room = s[i].room
                                   /\ tasks'[i].stage = s[i].stage
      <4>1. /\ tasks' \in Seq(Task)
            /\ DOMAIN tasks' = DOMAIN s
            /\ \A i \in DOMAIN s :
                 \/ tasks'[i] = s[i]
                 \/ tasks'[i] = [s[i] EXCEPT !.todo = @ \cup {c}]
        BY <2>1, <3>1, <3>2, MayVisitFacts
      <4>2. s \in Seq(Task)
        BY <3>1
      <4>3. \A i \in DOMAIN s : s[i] \in Task
        BY <4>2
      <4> QED
        BY <4>1, <4>3 DEF Task
    <3>4. Tasks
      BY <2>1, <3>1, <3>3 DEF TypeOK, NewTask
    <3>5. Rest
      BY <1>7, <2>1, <2>3 DEF ChangeGroup, Ops, NoOp, TypeOK, r
    <3> QED
      BY <3>4, <3>5
  <2> QED
    BY <2>1, <2>2, <2>3
<1>8. ASSUME NEW c \in Channels, NEW num \in NamedRooms, Send(c, num) PROVE Rest /\ Tasks
  BY <1>8, <1>c DEF Send, TypeOK
<1>9. ASSUME NEW i \in DOMAIN tasks, StartTask(i) PROVE Rest /\ Tasks
  <2>1. tasks' = [tasks EXCEPT ![i] = Started(tasks[i])]
    BY <1>9 DEF StartTask
  <2>2. Tasks
    BY <2>1, StartedFacts, ReplaceFacts DEF TypeOK
  <2> QED
    BY <1>9, <2>2 DEF StartTask, TypeOK
<1>10. ASSUME NEW i \in DOMAIN tasks, NEW c \in Channels, WriteTo(i, c) PROVE Rest /\ Tasks
  <2>1. tasks' = [tasks EXCEPT ![i] = Visited(tasks[i], c)]
    BY <1>10 DEF WriteTo
  <2>2. tasks \in Seq(Task) /\ Visited(tasks[i], c) \in Task
    BY VisitedFacts DEF TypeOK
  <2>3. Visited(tasks[i], c).room = tasks[i].room
         /\ Visited(tasks[i], c).kind = tasks[i].kind
         /\ Visited(tasks[i], c).stage = tasks[i].stage
    BY VisitedFacts
  <2>4. /\ tasks' \in Seq(Task)
        /\ DOMAIN tasks' = DOMAIN tasks
        /\ tasks'[i] = Visited(tasks[i], c)
        /\ \A j \in DOMAIN tasks \ {i} : tasks'[j] = tasks[j]
    BY <2>1, <2>2, ReplaceFacts
  <2>5. Tasks
    BY <2>3, <2>4 DEF TypeOK
  <2> QED
    BY <1>10, <2>5 DEF WriteTo, TypeOK
<1>11. ASSUME NEW i \in DOMAIN tasks, NEW c \in Channels, SkipGone(i, c) PROVE Rest /\ Tasks
  <2>1. tasks' = [tasks EXCEPT ![i] = [tasks[i] EXCEPT !.todo = @ \ {c}]]
    BY <1>11 DEF SkipGone
  <2> DEFINE t == [tasks[i] EXCEPT !.todo = @ \ {c}]
  <2>2. tasks \in Seq(Task) /\ t \in Task
    BY VisitedFacts DEF TypeOK
  <2>3. t.room = tasks[i].room /\ t.kind = tasks[i].kind /\ t.stage = tasks[i].stage
    BY <2>2 DEF Task
  <2> HIDE DEF t
  <2>4. /\ tasks' \in Seq(Task)
        /\ DOMAIN tasks' = DOMAIN tasks
        /\ tasks'[i] = t
        /\ \A j \in DOMAIN tasks \ {i} : tasks'[j] = tasks[j]
    BY <2>1, <2>2, ReplaceFacts DEF t
  <2>5. Tasks
    BY <2>3, <2>4 DEF TypeOK
  <2> QED
    BY <1>11, <2>5 DEF SkipGone, TypeOK
<1>12. CASE UNCHANGED vars
  BY <1>12, <1>a DEF vars, TypeOK
<1> HIDE DEF Rest, Tasks
<1> QED
  BY <1>1, <1>2, <1>3, <1>4, <1>5, <1>6, <1>7, <1>8, <1>9, <1>10, <1>11, <1>12 DEF Next

\* The state of the handler is well typed in every reachable state.
THEOREM TypeCorrect == Spec => []TypeOK
BY TypeInit, TypeStep, PTL DEF Spec

----------------------------------------------------------------------------
(* Rooms hold live callers, and the room attribute names a joined room *)

\* The part of the invariant that does not speak of tasks.
RoomInv == MembersAreLive /\ CurrentRoomJoined /\ IdleIsFresh /\ PendingIsLive

\* Every step keeps rooms and room attributes in agreement: the four parts of
\* RoomInv need one another, and nothing of the tasks.
LEMMA RoomStep == TypeOK /\ RoomInv /\ [Next]_vars => RoomInv'
<1> SUFFICES ASSUME TypeOK, RoomInv, [Next]_vars PROVE RoomInv'
  OBVIOUS
<1> USE DEF RoomInv, MembersAreLive, CurrentRoomJoined, IdleIsFresh, PendingIsLive, Up
<1>1. ASSUME NEW c \in Channels, HandlerAdded(c) PROVE RoomInv'
  BY <1>1 DEF HandlerAdded, TypeOK
<1>2. ASSUME NEW c \in Channels, Authenticate(c) PROVE RoomInv'
  BY <1>2 DEF Authenticate, TypeOK
<1>3. ASSUME NEW c \in Channels, CheckCaller(c) PROVE RoomInv'
  BY <1>3 DEF CheckCaller, TypeOK
<1>4. ASSUME NEW c \in Channels, pendingOp[c] = NoOp, Close(c) PROVE RoomInv'
  BY <1>4 DEF Close, TypeOK
<1>5. ASSUME NEW c \in Channels,
             FinishClose(c) \/ Disconnect(c) \/ ReadUnauthorized(c) \/ ReadDisconnect(c)
      PROVE  RoomInv'
  BY <1>4, <1>5 DEF FinishClose, Disconnect, ReadUnauthorized, ReadDisconnect, Reads, TypeOK
<1>6. ASSUME NEW c \in Channels, NEW op \in {"add", "remove"}, NEW r \in Rooms,
             SetRoomAttr(c, op, r)
      PROVE  RoomInv'
  BY <1>6 DEF SetRoomAttr, Reads, NewAttr, NoOp, TypeOK
<1>7. ASSUME NEW c \in Channels, ChangeGroup(c) PROVE RoomInv'
  <2>1. /\ pendingOp[c] # NoOp /\ pendingOp' = [pendingOp EXCEPT ![c] = NoOp]
        /\ UNCHANGED <<conn, caller, roomAttr>>
    BY <1>7 DEF ChangeGroup
  <2>2. pendingOp[c].room \in Rooms /\ pendingOp[c].op \in {"add", "remove"}
    BY <2>1 DEF Ops, TypeOK
  <2>3. CASE pendingOp[c].op = "add"
    <3>1. members' = [members EXCEPT ![pendingOp[c].room] = @ \cup {c}]
      BY <1>7, <2>3 DEF ChangeGroup
    <3> QED
      BY <2>1, <2>2, <2>3, <3>1 DEF NewAttr, TypeOK
  <2>4. CASE pendingOp[c].op = "remove"
    <3>1. members' = [members EXCEPT ![pendingOp[c].room] = @ \ {c}]
      BY <1>7, <2>4 DEF ChangeGroup
    <3> QED
      BY <2>1, <2>2, <2>4, <3>1 DEF NewAttr, TypeOK
  <2> QED
    BY <2>2, <2>3, <2>4
<1>8. ASSUME UNCHANGED <<conn, caller, roomAttr, pendingOp, members>> PROVE RoomInv'
  BY <1>8
<1>9. ASSUME NEW c \in Channels, Connect(c) \/ \E num \in NamedRooms : Send(c, num)
      PROVE  RoomInv'
  BY <1>8, <1>9 DEF Connect, Send
<1>10. ASSUME NEW i \in DOMAIN tasks,
              StartTask(i) \/ \E c \in Channels : WriteTo(i, c) \/ SkipGone(i, c)
       PROVE  RoomInv'
  BY <1>8, <1>10 DEF StartTask, WriteTo, SkipGone
<1>11. CASE UNCHANGED vars
  BY <1>8, <1>11 DEF vars
<1> HIDE DEF RoomInv
<1> QED
  BY <1>1, <1>2, <1>3, <1>5, <1>6, <1>7, <1>9, <1>10, <1>11 DEF Next

----------------------------------------------------------------------------
(* Tasks come from callers and visit callers, and owe only what they deliver *)

\* The part of the invariant that speaks of tasks and what they write.
TaskInv == TasksOfCallers /\ OnlyCallersHear /\ OwedIsDue

\* Every step keeps the part on tasks, which leans on the part on rooms.
LEMMA TaskStep == TypeOK /\ RoomInv /\ TaskInv /\ [Next]_vars => TaskInv'
<1> SUFFICES ASSUME TypeOK, RoomInv, TaskInv, [Next]_vars PROVE TaskInv'
  OBVIOUS
<1> USE DEF TaskInv, TasksOfCallers, OnlyCallersHear, OwedIsDue
<1>0. \A i \in DOMAIN tasks : tasks[i] \in Task /\ tasks[i].by \in Channels
  <2>1. \A i \in DOMAIN tasks : tasks[i] \in Task
    BY DEF TypeOK
  <2> QED
    BY <2>1 DEF Task
<1>1. ASSUME NEW c \in Channels, HandlerAdded(c) \/ Authenticate(c) \/ CheckCaller(c)
      PROVE  TaskInv'
  BY <1>0, <1>1 DEF HandlerAdded, Authenticate, CheckCaller, Up, TypeOK, Task
<1>2. ASSUME NEW c \in Channels, Close(c) PROVE TaskInv'
  <2>1. /\ DOMAIN tasks' = DOMAIN tasks
        /\ \A i \in DOMAIN tasks :
              /\ tasks'[i].kind = tasks[i].kind
              /\ tasks'[i].by = tasks[i].by
              /\ tasks'[i].room = tasks[i].room
              /\ tasks'[i].stage = tasks[i].stage
              /\ tasks'[i].todo = tasks[i].todo
              /\ tasks'[i].owed => tasks[i].owed /\ tasks[i].by # c
    BY <1>2, UnsettleFacts DEF Close
  <2>2. TasksOfCallers' /\ OnlyCallersHear'
    BY <1>2, <2>1 DEF Close
  <2>3. ASSUME NEW i \in DOMAIN tasks, tasks[i].owed, tasks[i].by # c
        PROVE  /\ conn'[tasks[i].by] = conn[tasks[i].by]
               /\ roomAttr'[tasks[i].by] = roomAttr[tasks[i].by]
               /\ tasks[i].by \in members'[roomAttr[tasks[i].by]]
    <3>1. roomAttr[tasks[i].by] \in Rooms
      BY <1>0, <2>3 DEF TypeOK
    <3> QED
      BY <1>0, <1>2, <2>3, <3>1 DEF Close, TypeOK
  <2>4. OwedIsDue'
    BY <2>1, <2>3 DEF Up
  <2> QED
    BY <2>2, <2>4
<1>3. ASSUME NEW c \in Channels,
             FinishClose(c) \/ Disconnect(c) \/ ReadUnauthorized(c) \/ ReadDisconnect(c)
      PROVE  TaskInv'
  BY <1>2, <1>3 DEF FinishClose, Disconnect, ReadUnauthorized, ReadDisconnect
<1>4. ASSUME NEW c \in Channels, NEW op \in {"add", "remove"}, NEW r \in Rooms,
             SetRoomAttr(c, op, r)
      PROVE  TaskInv'
  <2>1. CASE NewAttr(op, r) = roomAttr[c]
    <3>1. roomAttr' = roomAttr
      BY <1>4, <2>1 DEF SetRoomAttr, TypeOK
    <3> QED
      BY <1>4, <2>1, <3>1 DEF SetRoomAttr, Up
  <2>2. CASE NewAttr(op, r) # roomAttr[c]
    <3>1. /\ DOMAIN tasks' = DOMAIN tasks
          /\ \A i \in DOMAIN tasks :
              /\ tasks'[i].kind = tasks[i].kind
              /\ tasks'[i].by = tasks[i].by
              /\ tasks'[i].room = tasks[i].room
              /\ tasks'[i].stage = tasks[i].stage
              /\ tasks'[i].todo = tasks[i].todo
              /\ tasks'[i].owed => tasks[i].owed /\ tasks[i].by # c
      BY <1>4, <2>2, UnsettleFacts DEF SetRoomAttr
    <3>2. TasksOfCallers' /\ OnlyCallersHear'
      BY <1>4, <3>1 DEF SetRoomAttr
    <3>3. \A d \in Channels \ {c} : roomAttr'[d] = roomAttr[d]
      BY <1>4 DEF SetRoomAttr, TypeOK
    <3>4. UNCHANGED <<conn, members>>
      BY <1>4 DEF SetRoomAttr
    <3>5. OwedIsDue'
      BY <1>0, <3>1, <3>3, <3>4 DEF Up
    <3> QED
      BY <3>2, <3>5
  <2> QED
    BY <2>1, <2>2
<1>5. ASSUME NEW t \in Task, tasks' = Append(tasks, t), caller[t.by], t.todo = {},
             t.stage = "queued", UNCHANGED <<conn, caller, roomAttr, members, got>>,
             t.owed => /\ t.kind = "send" /\ Up(t.by) /\ roomAttr[t.by] # NoRoom
                       /\ t.by \in members[roomAttr[t.by]]
      PROVE  TaskInv'
  <2>1. tasks \in Seq(Task)
    BY DEF TypeOK
  <2>2. /\ DOMAIN tasks' = DOMAIN tasks \cup {Len(tasks) + 1}
        /\ \A i \in DOMAIN tasks : tasks'[i] = tasks[i]
        /\ tasks'[Len(tasks) + 1] = t
    BY <1>5, <2>1
  <2>3. TasksOfCallers' /\ OnlyCallersHear'
    BY <1>5, <2>2
  <2>4. OwedIsDue'
    BY <1>5, <2>2 DEF Up
  <2> QED
    BY <2>3, <2>4
<1>6. ASSUME NEW c \in Channels, Connect(c) PROVE TaskInv'
  <2> DEFINE t == NewTask("pong", c, NoRoom, DefaultRoom, FALSE)
  <2>1. tasks' = Append(tasks, t)
    BY <1>6 DEF Connect, Submitted, NewTask
  <2>2. t \in Task /\ t.by = c /\ t.todo = {} /\ t.stage = "queued" /\ ~t.owed
    BY DEF Task, NewTask
  <2>3. caller[c] /\ UNCHANGED <<conn, caller, roomAttr, members, got>>
    BY <1>6 DEF Connect, Reads
  <2> HIDE DEF t
  <2> QED
    BY <1>5, <2>1, <2>2, <2>3
<1>7. ASSUME NEW c \in Channels, NEW num \in NamedRooms, Send(c, num) PROVE TaskInv'
  <2> DEFINE t == NewTask("send", c, NoRoom, num, roomAttr[c] # NoRoom)
  <2>1. tasks' = Append(tasks, t)
    BY <1>7 DEF Send, Submitted, NewTask
  <2>2. /\ t \in Task /\ t.by = c /\ t.todo = {} /\ t.stage = "queued" /\ t.kind = "send"
        /\ t.owed => roomAttr[c] # NoRoom
    BY DEF Task, NewTask
  <2>3. roomAttr[c] # NoRoom => Up(c) /\ c \in members[roomAttr[c]]
    BY <1>7 DEF Send, Reads, RoomInv, CurrentRoomJoined
  <2>4. caller[c] /\ UNCHANGED <<conn, caller, roomAttr, members, got>>
    BY <1>7 DEF Send, Reads
  <2> HIDE DEF t
  <2> QED
    BY <1>5, <2>1, <2>2, <2>3, <2>4
<1>8. ASSUME NEW c \in Channels, ChangeGroup(c), pendingOp[c].op = "remove" PROVE TaskInv'
  <2> DEFINE r == pendingOp[c].room
             t == NewTask("left", c, r, DefaultRoom, FALSE)
  <2>1. tasks' = Append(tasks, t) /\ members' = [members EXCEPT ![r] = @ \ {c}]
    BY <1>8 DEF ChangeGroup, Submitted, NewTask
  <2>2. r \in Rooms /\ caller[c] /\ Up(c) /\ roomAttr[c] = NoRoom
    BY <1>8 DEF ChangeGroup, TypeOK, Ops, NoOp, RoomInv, PendingIsLive, NewAttr
  <2>3. t \in Task /\ t.by = c /\ t.todo = {} /\ t.stage = "queued" /\ ~t.owed
    BY <2>2 DEF Task, NewTask
  <2>4. UNCHANGED <<conn, caller, roomAttr, got>>
    BY <1>8 DEF ChangeGroup
  <2>5. tasks \in Seq(Task)
    BY DEF TypeOK
  <2> HIDE DEF t, r
  <2>6. /\ DOMAIN tasks' = DOMAIN tasks \cup {Len(tasks) + 1}
        /\ \A i \in DOMAIN tasks : tasks'[i] = tasks[i]
        /\ tasks'[Len(tasks) + 1] = t
    BY <2>1, <2>3, <2>5
  <2>7. TasksOfCallers' /\ OnlyCallersHear'
    BY <2>2, <2>3, <2>4, <2>6
  <2>8. \A i \in DOMAIN tasks : tasks[i].owed => tasks[i].by # c
    BY <2>2
  <2>9. \A q \in Rooms, d \in Channels \ {c} : d \in members[q] => d \in members'[q]
    BY <2>1, <2>2 DEF TypeOK
  <2>10. \A d \in Channels : roomAttr[d] # NoRoom => roomAttr[d] \in Rooms
    BY DEF TypeOK
  <2>11. OwedIsDue'
    BY <1>0, <2>3, <2>4, <2>6, <2>8, <2>9, <2>10 DEF Up
  <2> QED
    BY <2>7, <2>11
<1>9. ASSUME NEW c \in Channels, ChangeGroup(c), pendingOp[c].op = "add" PROVE TaskInv'
  <2> DEFINE r == pendingOp[c].room
             t == NewTask("joined", c, r, DefaultRoom, TRUE)
             s == Append(tasks, t)
  <2>1. MayVisit(s, r, c) /\ members' = [members EXCEPT ![r] = @ \cup {c}]
    BY <1>9 DEF ChangeGroup, Submitted, NewTask
  <2>2. r \in Rooms /\ caller[c] /\ Up(c) /\ roomAttr[c] = r
    BY <1>9 DEF ChangeGroup, TypeOK, Ops, NoOp, RoomInv, PendingIsLive, NewAttr
  <2>3. t \in Task /\ t.by = c /\ t.todo = {} /\ t.stage = "queued" /\ t.kind = "joined"
          /\ t.room = r
    BY <2>2 DEF Task, NewTask
  <2>4. UNCHANGED <<conn, caller, roomAttr, got>>
    BY <1>9 DEF ChangeGroup
  <2>5. tasks \in Seq(Task)
    BY DEF TypeOK
  <2> HIDE DEF t, r
  <2>6. /\ s \in Seq(Task)
        /\ DOMAIN s = DOMAIN tasks \cup {Len(tasks) + 1}
        /\ \A i \in DOMAIN tasks : s[i] = tasks[i]
        /\ s[Len(tasks) + 1] = t
    BY <2>3, <2>5
  <2> HIDE DEF s
  <2>7. \A i \in DOMAIN s : s[i] \in Task
    BY <2>6
  <2>8. /\ DOMAIN tasks' = DOMAIN s
        /\ \A i \in DOMAIN s :
              \/ tasks'[i] = s[i]
              \/ tasks'[i] = [s[i] EXCEPT !.todo = @ \cup {c}]
    BY <2>1, <2>2, <2>6, MayVisitFacts
  <2>9. \A i \in DOMAIN s :
          /\ tasks'[i].by = s[i].by /\ tasks'[i].kind = s[i].kind
          /\ tasks'[i].room = s[i].room /\ tasks'[i].stage = s[i].stage
          /\ tasks'[i].owed = s[i].owed
          /\ tasks'[i].todo \in {s[i].todo, s[i].todo \cup {c}}
    BY <2>7, <2>8 DEF Task
  <2>10. TasksOfCallers' /\ OnlyCallersHear'
    BY <2>2, <2>3, <2>4, <2>6, <2>8, <2>9
  <2>11. c \in members'[r] /\ \A q \in Rooms : members[q] \subseteq members'[q]
    BY <2>1, <2>2 DEF TypeOK
  <2>12. \A d \in Channels : roomAttr[d] # NoRoom => roomAttr[d] \in Rooms
    BY DEF TypeOK
  <2>13. ASSUME NEW i \in DOMAIN tasks', tasks'[i].owed
         PROVE  /\ tasks'[i].kind \in {"joined", "send"}
                /\ conn'[tasks'[i].by] \in {"open", "closing"}
                /\ roomAttr'[tasks'[i].by] # NoRoom
                /\ tasks'[i].by \in members'[roomAttr'[tasks'[i].by]]
                /\ tasks'[i].kind = "joined" \/ tasks'[i].stage = "casting"
                     => tasks'[i].room = roomAttr'[tasks'[i].by]
                /\ tasks'[i].stage = "casting" => tasks'[i].by \in tasks'[i].todo
    <3>1. CASE i \in DOMAIN tasks
      <4> DEFINE b == tasks[i].by
      <4>1. /\ tasks'[i].by = b /\ tasks'[i].kind = tasks[i].kind
            /\ tasks'[i].room = tasks[i].room /\ tasks'[i].stage = tasks[i].stage
            /\ tasks[i].owed /\ tasks[i].todo \subseteq tasks'[i].todo
        BY <2>6, <2>9, <2>13, <3>1
      <4>2. /\ tasks[i].kind \in {"joined", "send"}
            /\ conn[b] \in {"open", "closing"}
            /\ roomAttr[b] # NoRoom /\ b \in members[roomAttr[b]]
            /\ tasks[i].kind = "joined" \/ tasks[i].stage = "casting"
                 => tasks[i].room = roomAttr[b]
            /\ tasks[i].stage = "casting" => b \in tasks[i].todo
        BY <3>1, <4>1 DEF Up
      <4>3. b \in Channels /\ roomAttr[b] \in Rooms
        BY <1>0, <2>12, <3>1, <4>2
      <4> HIDE DEF b
      <4> QED
        BY <2>4, <2>11, <4>1, <4>2, <4>3
    <3>2. CASE i = Len(tasks) + 1
      <4>1. tasks'[i].by = c /\ tasks'[i].kind = "joined" /\ tasks'[i].room = r
              /\ tasks'[i].stage = "queued"
        BY <2>3, <2>6, <2>8, <2>9, <3>2
      <4>2. r # NoRoom
        BY <2>2
      <4> QED
        BY <2>2, <2>4, <2>11, <4>1, <4>2 DEF Up
    <3> QED
      BY <2>6, <2>8, <3>1, <3>2
  <2>14. OwedIsDue'
    BY <2>13 DEF Up
  <2> QED
    BY <2>10, <2>14
<1>10. ASSUME NEW i \in DOMAIN tasks, StartTask(i) PROVE TaskInv'
  <2>1. tasks' = [tasks EXCEPT ![i] = Started(tasks[i])]
    BY <1>10 DEF StartTask
  <2>2. UNCHANGED <<conn, caller, roomAttr, members, got>> /\ tasks[i].stage = "queued"
    BY <1>10 DEF StartTask
  <2>3. /\ DOMAIN tasks' = DOMAIN tasks
        /\ tasks'[i] = Started(tasks[i])
        /\ \A j \in DOMAIN tasks \ {i} : tasks'[j] = tasks[j]
    BY <2>1
  <2>4. /\ Started(tasks[i]).by = tasks[i].by /\ Started(tasks[i]).kind = tasks[i].kind
        /\ Started(tasks[i]).room = Target(tasks[i])
        /\ Started(tasks[i]).owed = tasks[i].owed
        /\ Started(tasks[i]).todo = IF tasks[i].kind = "pong" THEN {tasks[i].by}
                                    ELSE members[Target(tasks[i])]
    BY <1>0 DEF Started, Task
  <2>5. \A r \in Rooms : \A c \in members[r] : caller[c]
    BY DEF RoomInv, MembersAreLive
  <2>6. tasks[i].kind # "pong" => Target(tasks[i]) \in Rooms
    BY StartedFacts
  <2>7. TasksOfCallers' /\ OnlyCallersHear'
    BY <2>2, <2>3, <2>4, <2>5, <2>6
  <2>8. tasks[i].owed => Target(tasks[i]) = roomAttr[tasks[i].by]
    BY DEF Target
  <2>9. OwedIsDue'
    BY <2>2, <2>3, <2>4, <2>8 DEF Up
  <2> QED
    BY <2>7, <2>9
<1>11. ASSUME NEW i \in DOMAIN tasks, NEW c \in Channels, WriteTo(i, c) PROVE TaskInv'
  <2>1. tasks' = [tasks EXCEPT ![i] = Visited(tasks[i], c)]
    BY <1>11 DEF WriteTo
  <2>2. UNCHANGED <<conn, caller, roomAttr, members>> /\ c \in tasks[i].todo
    BY <1>11 DEF WriteTo
  <2>3. /\ DOMAIN tasks' = DOMAIN tasks
        /\ tasks'[i] = Visited(tasks[i], c)
        /\ \A j \in DOMAIN tasks \ {i} : tasks'[j] = tasks[j]
    BY <2>1
  <2>4. /\ Visited(tasks[i], c).by = tasks[i].by /\ Visited(tasks[i], c).kind = tasks[i].kind
        /\ Visited(tasks[i], c).room = tasks[i].room
        /\ Visited(tasks[i], c).stage = tasks[i].stage
        /\ Visited(tasks[i], c).owed => tasks[i].owed /\ c # tasks[i].by
        /\ Visited(tasks[i], c).todo = tasks[i].todo \ {c}
    <3>1. tasks[i] \in Task
      BY <1>0
    <3> HIDE DEF TaskInv, TasksOfCallers, OnlyCallersHear, OwedIsDue
    <3> QED
      BY <3>1 DEF Visited, Task
  <2>5. TasksOfCallers'
    BY <2>2, <2>3, <2>4
  <2>6. \A d \in Channels : d # c => got'[d] = got[d]
    BY <1>11 DEF WriteTo, TypeOK
  <2>7. OnlyCallersHear'
    BY <2>2, <2>6
  <2>8. OwedIsDue'
    BY <2>2, <2>3, <2>4 DEF Up
  <2> QED
    BY <2>5, <2>7, <2>8
<1>12. ASSUME NEW i \in DOMAIN tasks, NEW c \in Channels, SkipGone(i, c) PROVE TaskInv'
  <2> DEFINE t == [tasks[i] EXCEPT !.todo = @ \ {c}]
  <2>1. tasks' = [tasks EXCEPT ![i] = t]
    BY <1>12 DEF SkipGone
  <2>2. UNCHANGED <<conn, caller, roomAttr, members, got>>
    BY <1>12 DEF SkipGone
  <2>3. c \in tasks[i].todo /\ c \notin members[tasks[i].room]
    BY <1>12 DEF SkipGone
  <2>4. /\ t.by = tasks[i].by /\ t.kind = tasks[i].kind /\ t.room = tasks[i].room
        /\ t.stage = tasks[i].stage /\ t.owed = tasks[i].owed /\ t.todo = tasks[i].todo \ {c}
    BY <1>0 DEF Task
  <2> HIDE DEF t
  <2>5. /\ DOMAIN tasks' = DOMAIN tasks
        /\ tasks'[i] = t
        /\ \A j \in DOMAIN tasks \ {i} : tasks'[j] = tasks[j]
    BY <2>1
  <2>6. TasksOfCallers' /\ OnlyCallersHear'
    BY <2>2, <2>4, <2>5
  <2>7. OwedIsDue'
    BY <2>2, <2>3, <2>4, <2>5 DEF Up
  <2> QED
    BY <2>6, <2>7
<1>13. CASE UNCHANGED vars
  BY <1>13 DEF vars, Up
<1> HIDE DEF TaskInv
<1>14. ASSUME NEW c \in Channels, ChangeGroup(c)
       PROVE  pendingOp[c].op \in {"add", "remove"}
  BY <1>14 DEF ChangeGroup, TypeOK, Ops, NoOp
<1> QED
  BY <1>1, <1>3, <1>4, <1>6, <1>7, <1>8, <1>9, <1>10, <1>11, <1>12, <1>13, <1>14 DEF Next

----------------------------------------------------------------------------
(* The theorems *)

\* The invariant holds initially and every step preserves it.
LEMMA InvInit == Init => Inv
<1> SUFFICES ASSUME Init PROVE Inv
  OBVIOUS
<1>1. TypeOK
  BY TypeInit
<1>2. DOMAIN tasks = {}
  BY DEF Init
<1>3. TasksOfCallers /\ OwedIsDue
  BY <1>2 DEF TasksOfCallers, OwedIsDue
<1>4. MembersAreLive /\ OnlyCallersHear /\ CurrentRoomJoined /\ IdleIsFresh /\ PendingIsLive
  BY DEF Init, MembersAreLive, OnlyCallersHear, CurrentRoomJoined, IdleIsFresh, PendingIsLive, Up
<1> QED
  BY <1>1, <1>3, <1>4 DEF Inv

\* Every step preserves the whole invariant.
LEMMA InvStep == Inv /\ [Next]_vars => Inv'
BY TypeStep, RoomStep, TaskStep DEF Inv, RoomInv, TaskInv

\* The invariant holds in every reachable state.
LEMMA InvAlways == Spec => []Inv
BY InvInit, InvStep, PTL DEF Spec

\* A room never holds a closed channel nor one whose caller is unknown.
THEOREM RoomsHoldLiveCallers == Spec => []MembersAreLive
<1>1. Inv => MembersAreLive
  BY DEF Inv
<1> QED
  BY InvAlways, <1>1, PTL

\* Nothing is written by a task to a channel whose caller is unknown.
THEOREM NobodyElseHears == Spec => []OnlyCallersHear
<1>1. Inv => OnlyCallersHear
  BY DEF Inv
<1> QED
  BY InvAlways, <1>1, PTL

\* Between two frames a channel belongs to the room its attribute names.
THEOREM AttributeNamesJoinedRoom == Spec => []CurrentRoomJoined
<1>1. Inv => CurrentRoomJoined
  BY DEF Inv
<1> QED
  BY InvAlways, <1>1, PTL

\* Who stays in its room hears its own message and its own arrival: a finished
\* task owes nothing, for what is owed is still among the channels to visit.
THEOREM StayersHearThemselves == Spec => []StayerHearsItself
<1>1. Inv => StayerHearsItself
  BY DEF Inv, OwedIsDue, StayerHearsItself, Finished
<1> QED
  BY InvAlways, <1>1, PTL
=============================================================================
