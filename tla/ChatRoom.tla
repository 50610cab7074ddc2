------------------------------ MODULE ChatRoom ------------------------------
(***************************************************************************)
(* The control plane of ChatRoomWebSocketHandler, the handler bound to     *)
(* /ws/chatroom1 (through ChatRoomWebSocketHandler_Custom).                *)
(*                                                                         *)
(* Two kinds of threads touch its state.  A channel's event loop reads the *)
(* frames of that channel one at a time.  The business executor runs every *)
(* submitted task on a virtual thread of its own, so tasks run in no       *)
(* particular order and interleave with each other and with the loops.     *)
(* Writing to a ChannelGroup walks a concurrent map: the channels present  *)
(* when the walk starts are visited once, one that leaves meanwhile may be *)
(* skipped, one that joins meanwhile may be visited.                       *)
(***************************************************************************)
EXTENDS Naturals, Sequences, FiniteSets

CONSTANTS Channels,     \* the WebSocket connections
          Rooms,        \* the room ids clients name
          DefaultRoom,  \* getDefaultRoomId()
          NamedRooms,   \* the rooms a SEND frame may name in its "num" field
          NoRoom,       \* ROOM_ID_KEY not set
          MaxTasks      \* bound: tasks submitted to the business executor

ASSUME ChatRoomAssumption ==
  /\ DefaultRoom \in Rooms
  /\ NamedRooms \subseteq Rooms
  /\ NoRoom \notin Rooms
  /\ MaxTasks \in Nat

VARIABLES
  conn,      \* state of the connection
  caller,    \* whether USER_ID_KEY holds a caller
  unchecked, \* channels whose handlerAdded task has not run yet
  roomAttr,  \* ROOM_ID_KEY of each channel
  pendingOp, \* what the event loop still has to do of a processSubscribe call
  members,   \* rooms: the ChannelGroup of each room
  tasks,     \* tasks given to the business executor, in the order of submission
  got        \* the tasks whose message was written to each channel

vars == <<conn, caller, unchecked, roomAttr, pendingOp, members, tasks, got>>

----------------------------------------------------------------------------
(* Types *)

NoOp == [op |-> "none", room |-> NoRoom]
Ops  == [op : {"add", "remove"}, room : Rooms] \cup {NoOp}

\* A task: what it broadcasts, for which channel and to which room; `num` is the
\* room the frame named, `todo` the channels the walk has still to visit.  The
\* code has no `owed`: it remembers that the sender was in a room when the task
\* was submitted, has neither changed room nor gone since, and still waits to
\* hear the message.
Task == [kind : {"pong", "joined", "left", "send"}, by : Channels,
         num : Rooms, room : Rooms \cup {NoRoom},
         stage : {"queued", "casting"}, todo : SUBSET Channels, owed : BOOLEAN]

TypeOK ==
  /\ conn \in [Channels -> {"idle", "open", "closing", "closed"}]
  /\ caller \in [Channels -> BOOLEAN]
  /\ unchecked \subseteq Channels
  /\ roomAttr \in [Channels -> Rooms \cup {NoRoom}]
  /\ pendingOp \in [Channels -> Ops]
  /\ members \in [Rooms -> SUBSET Channels]
  /\ tasks \in Seq(Task)
  /\ \A i \in DOMAIN tasks :
       /\ tasks[i].kind \in {"joined", "left"} => tasks[i].room \in Rooms
       /\ tasks[i].kind = "send" /\ tasks[i].stage = "casting" => tasks[i].room \in Rooms
  /\ got \in [Channels -> SUBSET Nat]

Up(c) == conn[c] \in {"open", "closing"}

\* Mutant: a frame is read without looking at USER_ID_KEY.
ReadsAnyone(c) == Up(c) /\ pendingOp[c] = NoOp

\* The loop of c can read another frame, from a caller it knows.
Reads(c) == Up(c) /\ caller[c] /\ pendingOp[c] = NoOp

----------------------------------------------------------------------------
Init ==
  /\ conn = [c \in Channels |-> "idle"]
  /\ caller = [c \in Channels |-> FALSE]
  /\ unchecked = {}
  /\ roomAttr = [c \in Channels |-> NoRoom]
  /\ pendingOp = [c \in Channels |-> NoOp]
  /\ members = [r \in Rooms |-> {}]
  /\ tasks = << >>
  /\ got = [c \in Channels |-> {}]

\* bizExecutor.execute(task)
Submitted(kind, c, room, num, owed) ==
  Append(tasks, [kind |-> kind, by |-> c, num |-> num, room |-> room,
                 stage |-> "queued", todo |-> {}, owed |-> owed])

\* Bound: every task that may still be submitted has its place.
MayRead ==
  Len(tasks) + Cardinality({c \in Channels : pendingOp[c] # NoOp}) < MaxTasks

\* The tasks after c has changed room or gone: it is owed nothing more.
Unsettle(c) ==
  [i \in DOMAIN tasks |-> [tasks[i] EXCEPT !.owed = @ /\ tasks[i].by # c]]

\* Mutant: rooms are plain sets that keep closed channels.
CloseKeepsGroups(c) ==
  /\ conn' = [conn EXCEPT ![c] = "closed"]
  /\ tasks' = Unsettle(c)
  /\ UNCHANGED <<caller, unchecked, roomAttr, pendingOp, members, got>>

\* ctx.close(): Netty takes a closed channel out of every ChannelGroup.
Close(c) ==
  /\ conn' = [conn EXCEPT ![c] = "closed"]
  /\ members' = [r \in Rooms |-> members[r] \ {c}]
  /\ tasks' = Unsettle(c)
  /\ UNCHANGED <<caller, unchecked, roomAttr, pendingOp, got>>

----------------------------------------------------------------------------
(* Connections *)

\* Mutant: nothing looks at the caller of a silent channel.
HandlerAddedNoCheck(c) ==
  /\ conn[c] = "idle"
  /\ conn' = [conn EXCEPT ![c] = "open"]
  /\ UNCHANGED <<caller, unchecked, roomAttr, pendingOp, members, tasks, got>>

\* The upgrade puts the handler in the pipeline; handlerAdded submits a task
\* that looks at the caller.
HandlerAdded(c) ==
  /\ conn[c] = "idle"
  /\ conn' = [conn EXCEPT ![c] = "open"]
  /\ unchecked' = unchecked \cup {c}
  /\ UNCHANGED <<caller, roomAttr, pendingOp, members, tasks, got>>

\* The framework's OTT handler finds the token's owner: "the auth process is
\* asynchronous and may not have completed yet".
Authenticate(c) ==
  /\ Up(c) /\ ~caller[c]
  /\ caller' = [caller EXCEPT ![c] = TRUE]
  /\ UNCHANGED <<conn, unchecked, roomAttr, pendingOp, members, tasks, got>>

\* The task of handlerAdded: without a caller it answers 401 and asks the
\* event loop to close the channel.
CheckCaller(c) ==
  /\ c \in unchecked
  /\ unchecked' = unchecked \ {c}
  /\ conn' = IF ~caller[c] /\ conn[c] = "open"
               THEN [conn EXCEPT ![c] = "closing"] ELSE conn
  /\ UNCHANGED <<caller, roomAttr, pendingOp, members, tasks, got>>

\* The event loop carries out a close another thread asked for.
FinishClose(c) ==
  /\ conn[c] = "closing" /\ pendingOp[c] = NoOp
  /\ Close(c)

\* The peer goes away, or an exception in the pipeline closes the channel.
Disconnect(c) ==
  /\ Up(c) /\ pendingOp[c] = NoOp
  /\ Close(c)

\* Any frame from a channel with no caller: 401 and close.
ReadUnauthorized(c) ==
  /\ Up(c) /\ ~caller[c]
  /\ Close(c)

----------------------------------------------------------------------------
(* Frames *)

\* CONNECT: a task answers CONNECTED.
Connect(c) ==
  /\ Reads(c) /\ MayRead
  /\ tasks' = Submitted("pong", c, NoRoom, DefaultRoom, FALSE)
  /\ UNCHANGED <<conn, caller, unchecked, roomAttr, pendingOp, members, got>>

\* DISCONNECT: the handler closes the channel.
ReadDisconnect(c) ==
  /\ Reads(c)
  /\ Close(c)

\* Mutant: UNSUBSCRIBE leaves the attribute alone.
NewAttrKept(op, r) == r

\* UNSUBSCRIBE clears the attribute whatever room it names.
NewAttr(op, r) == IF op = "add" THEN r ELSE NoRoom

\* SUBSCRIBE and UNSUBSCRIBE, first half: the room attribute, which tasks read.
SetRoomAttr(c, op, r) ==
  /\ Reads(c) /\ MayRead
  /\ roomAttr' = [roomAttr EXCEPT ![c] = NewAttr(op, r)]
  /\ tasks' = IF NewAttr(op, r) = roomAttr[c] THEN tasks ELSE Unsettle(c)
  /\ pendingOp' = [pendingOp EXCEPT ![c] = [op |-> op, room |-> r]]
  /\ UNCHANGED <<conn, caller, unchecked, members, got>>

\* Walks over r's group that have not ended may or may not visit a newcomer c.
MayVisit(ts, r, c) ==
  \E S \in SUBSET {i \in DOMAIN ts : ts[i].stage = "casting" /\ ts[i].todo # {}
                                       /\ ts[i].room = r /\ i \notin got[c]} :
    tasks' = [i \in DOMAIN ts |->
                IF i \in S THEN [ts[i] EXCEPT !.todo = @ \cup {c}] ELSE ts[i]]

\* Second half: the group itself, and the task that tells it.  The task holds
\* on to the group, not to the attribute.
ChangeGroup(c) ==
  /\ pendingOp[c] # NoOp
  /\ LET r == pendingOp[c].room
     IN  IF pendingOp[c].op = "add"
           THEN /\ members' = [members EXCEPT ![r] = @ \cup {c}]
                /\ MayVisit(Submitted("joined", c, r, DefaultRoom, TRUE), r, c)
           ELSE /\ members' = [members EXCEPT ![r] = @ \ {c}]
                /\ tasks' = Submitted("left", c, r, DefaultRoom, FALSE)
  /\ pendingOp' = [pendingOp EXCEPT ![c] = NoOp]
  /\ UNCHANGED <<conn, caller, unchecked, roomAttr, got>>

\* SEND: a task will read the room attribute and broadcast the text.
Send(c, num) ==
  /\ Reads(c) /\ MayRead
  /\ tasks' = Submitted("send", c, NoRoom, num, roomAttr[c] # NoRoom)
  /\ UNCHANGED <<conn, caller, unchecked, roomAttr, pendingOp, members, got>>

----------------------------------------------------------------------------
(* Tasks of the business executor *)

\* Mutant: a SEND always goes to the default room.
TargetDefault(t) == IF t.kind = "send" THEN DefaultRoom ELSE t.room

\* Where a task sends its message: a SEND takes the room its sender is in now.
Target(t) ==
  IF t.kind # "send" THEN t.room
  ELSE IF roomAttr[t.by] = NoRoom THEN DefaultRoom ELSE roomAttr[t.by]

\* Mutant: a SEND whose sender has no room is dropped.
StartedNoDefault(t) ==
  LET r == IF t.kind = "send" THEN roomAttr[t.by] ELSE t.room
  IN  [t EXCEPT !.stage = "casting", !.room = r,
                !.todo = IF r = NoRoom THEN {} ELSE members[r]]

\* The task picks its room and the walk over the group begins; the answer to
\* CONNECT goes to its own channel.
Started(t) ==
  [t EXCEPT !.stage = "casting", !.room = Target(t),
            !.todo = IF t.kind = "pong" THEN {t.by} ELSE members[Target(t)]]

StartTask(i) ==
  /\ tasks[i].stage = "queued"
  /\ tasks' = [tasks EXCEPT ![i] = Started(@)]
  /\ UNCHANGED <<conn, caller, unchecked, roomAttr, pendingOp, members, got>>

\* Mutant: the walk ends at its first channel.
VisitedLast(t, c) == [t EXCEPT !.todo = {}, !.owed = @ /\ c # t.by]

\* The walk has passed channel c.
Visited(t, c) == [t EXCEPT !.todo = @ \ {c}, !.owed = @ /\ c # t.by]

\* The walk visits channel c; a closed channel takes nothing.
WriteTo(i, c) ==
  /\ c \in tasks[i].todo
  /\ tasks' = [tasks EXCEPT ![i] = Visited(@, c)]
  /\ got' = IF Up(c) THEN [got EXCEPT ![c] = @ \cup {i}] ELSE got
  /\ UNCHANGED <<conn, caller, unchecked, roomAttr, pendingOp, members>>

\* The walk misses a channel that left the group since it began.
SkipGone(i, c) ==
  /\ c \in tasks[i].todo
  /\ tasks[i].kind # "pong" /\ c \notin members[tasks[i].room]
  /\ tasks' = [tasks EXCEPT ![i].todo = @ \ {c}]
  /\ UNCHANGED <<conn, caller, unchecked, roomAttr, pendingOp, members, got>>

Next ==
  \/ \E c \in Channels :
       \/ HandlerAdded(c) \/ Authenticate(c) \/ CheckCaller(c) \/ FinishClose(c)
       \/ Disconnect(c) \/ ReadUnauthorized(c) \/ Connect(c) \/ ReadDisconnect(c)
       \/ \E op \in {"add", "remove"}, r \in Rooms : SetRoomAttr(c, op, r)
       \/ ChangeGroup(c)
       \/ \E num \in NamedRooms : Send(c, num)
  \/ \E i \in DOMAIN tasks :
       \/ StartTask(i)
       \/ \E c \in Channels : WriteTo(i, c) \/ SkipGone(i, c)

\* The executor runs every task and a task walks its group to the end; an
\* event loop finishes what it has begun.  Clients owe nothing.
Fairness ==
  /\ \A c \in Channels :
       WF_vars(CheckCaller(c)) /\ WF_vars(FinishClose(c)) /\ WF_vars(ChangeGroup(c))
  /\ \A i \in 1..MaxTasks :
       /\ WF_vars(i \in DOMAIN tasks /\ StartTask(i))
       /\ \A c \in Channels : WF_vars(i \in DOMAIN tasks /\ WriteTo(i, c))

Spec == Init /\ [][Next]_vars /\ Fairness

----------------------------------------------------------------------------
(* What the handler keeps true *)

\* A task that has written its message to everybody it had to.
Finished(i) == tasks[i].stage = "casting" /\ tasks[i].todo = {}

\* A room holds only live channels with a known caller, however closes, OTT
\* answers and half-done subscriptions interleave.
MembersAreLive ==
  \A r \in Rooms : \A c \in members[r] : Up(c) /\ caller[c]

\* No broadcast, answer or notice reaches a channel whose caller is unknown.
OnlyCallersHear ==
  \A c \in Channels : got[c] # {} => caller[c]

\* The room attribute, which decides where a SEND goes, names a room the
\* channel belongs to whenever its event loop is between two frames.
CurrentRoomJoined ==
  \A c \in Channels :
    Up(c) /\ pendingOp[c] = NoOp /\ roomAttr[c] # NoRoom => c \in members[roomAttr[c]]

\* Who sends or joins and stays in the room hears its own message or notice,
\* although the task reads the attribute and walks the group only later.
StayerHearsItself ==
  \A i \in DOMAIN tasks : Finished(i) => ~tasks[i].owed

\* A channel a broadcast has started for gets it, unless it leaves or closes.
MembersHear ==
  \A i \in 1..MaxTasks, c \in Channels :
    (i \in DOMAIN tasks /\ c \in tasks[i].todo)
      ~> (\/ i \in got[c] \/ ~Up(c)
          \/ i \in DOMAIN tasks /\ tasks[i].room # NoRoom
               /\ c \notin members[tasks[i].room])

\* A connection that never gets a caller does not stay open.
NoSquatter ==
  \A c \in Channels : Up(c) /\ ~caller[c] ~> caller[c] \/ ~Up(c)

----------------------------------------------------------------------------
(* Why: the inductive invariant behind the properties *)

\* A channel that is not connected yet has named no room.
IdleIsFresh == \A c \in Channels : conn[c] = "idle" => roomAttr[c] = NoRoom

\* A half-done subscription belongs to a live caller and has set the attribute.
PendingIsLive ==
  \A c \in Channels :
    pendingOp[c] # NoOp =>
      /\ Up(c) /\ caller[c]
      /\ roomAttr[c] = NewAttr(pendingOp[c].op, pendingOp[c].room)

\* Only callers submit tasks and only callers are visited by them.
TasksOfCallers ==
  \A i \in DOMAIN tasks : \A c \in tasks[i].todo \cup {tasks[i].by} : caller[c]

\* Whoever is owed a message sits in the room the message goes to, and a walk
\* that has begun has not passed it yet.
OwedIsDue ==
  \A i \in DOMAIN tasks :
    tasks[i].owed =>
      /\ tasks[i].kind \in {"joined", "send"}
      /\ Up(tasks[i].by)
      /\ roomAttr[tasks[i].by] # NoRoom
      /\ tasks[i].by \in members[roomAttr[tasks[i].by]]
      /\ tasks[i].kind = "joined" \/ tasks[i].stage = "casting"
           => tasks[i].room = roomAttr[tasks[i].by]
      /\ tasks[i].stage = "casting" => tasks[i].by \in tasks[i].todo

Inv ==
  /\ TypeOK /\ MembersAreLive /\ OnlyCallersHear /\ CurrentRoomJoined
  /\ IdleIsFresh /\ PendingIsLive /\ TasksOfCallers /\ OwedIsDue

----------------------------------------------------------------------------
(* What the handler tells its clients and does not do *)

\* The format the handler's error reply prescribes for a SEND gives "num" as the
\* "ID of chat group/room": a SEND goes to the room its frame names.
NamedRoomIsUsed ==
  \A i \in DOMAIN tasks :
    tasks[i].kind = "send" /\ tasks[i].stage = "casting" => tasks[i].room = tasks[i].num
=============================================================================
