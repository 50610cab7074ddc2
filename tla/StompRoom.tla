------------------------------ MODULE StompRoom ------------------------------
(***************************************************************************)
(* ChatRoomWebSocketHandler_STOMP, the STOMP handler bound to              *)
(* /ws/chatroom2.  A room is kept twice: a ChannelGroup, and a map from    *)
(* channels to the id of their subscription; neither is changed under a    *)
(* lock together with the other.                                           *)
(*                                                                         *)
(* Everything runs on event loops: the loop of a channel reads its frames  *)
(* one at a time, and a broadcast is carried out by the loop of its        *)
(* publisher, which walks the room channel by channel.  Loops interleave   *)
(* between any two accesses to the maps.  A walk visits the channels that  *)
(* were in the group when it began, except some that have left meanwhile,  *)
(* and perhaps some that have joined meanwhile.                            *)
(*                                                                         *)
(* When a channel closes, Netty takes it out of every group, but frames    *)
(* that were read already are still handled before channelInactive.        *)
(***************************************************************************)
EXTENDS Naturals, Sequences

CONSTANTS Channels,     \* the WebSocket connections
          Rooms,        \* the rooms a destination stands for
          DefaultRoom,  \* DEFAULT_ROOM
          Topic,        \* "/topic/messages"
          AppRooms,     \* the destinations that begin with "/app/"
          ClientIds,    \* subscription ids clients choose
          NoDest, NoRoom, NoId, NoFrame,  \* none
          MaxFrames     \* bound: SUBSCRIBE and SEND frames read

ASSUME StompRoomAssumption ==
  /\ {DefaultRoom, Topic} \cup AppRooms \subseteq Rooms
  /\ ClientIds \subseteq Nat
  /\ NoDest \notin Rooms /\ NoRoom \notin Rooms /\ NoId \notin Nat
  /\ MaxFrames \in Nat

VARIABLES
  conn,    \* state of the connection
  groups,  \* rooms: the ChannelGroup of each room
  subs,    \* roomSubscriptions: the subscription ids of each room
  seq,     \* messageIdSeq
  work,    \* what the event loop of each channel is in the middle of
  got,     \* the MESSAGE frames written to each channel
  frames   \* how many SUBSCRIBE and SEND frames were read

vars == <<conn, groups, subs, seq, work, got, frames>>

----------------------------------------------------------------------------
(* Types *)

\* An id is its number: a client that lets its library choose names its
\* subscriptions "sub-0", "sub-1" and so on, as the handler does.
Ids == Nat

\* A MESSAGE frame: the publisher and the number of its broadcast, the channel it
\* is for, its "subscription" and "message-id" headers.
Frame == [from : Channels, no : Nat, to : Channels, sub : Ids, id : Nat]

Idle == [op |-> "idle"]

\* Between the two halves of subscribe; in a walk, with the channels to visit and
\* the frame built for the one being visited; removing the channel from rooms,
\* with the room whose group is next, to close it afterwards or not.  The code
\* has no `owed`: the channels subscribed since the walk began that it has not
\* written to yet.
Work ==
  {Idle}
  \cup [op : {"put"}, room : Rooms, id : Ids]
  \cup [op : {"walk"}, room : Rooms, no : Nat, todo : SUBSET Channels,
        frame : Frame \cup {NoFrame}, owed : SUBSET Channels]
  \cup [op : {"leave"}, rooms : SUBSET Rooms, room : Rooms \cup {NoRoom}, close : BOOLEAN]

TypeOK ==
  /\ conn \in [Channels -> {"idle", "open", "closed", "inactive"}]
  /\ groups \in [Rooms -> SUBSET Channels]
  /\ subs \in [Rooms -> [Channels -> Ids \cup {NoId}]]
  /\ seq \in Nat
  /\ work \in [Channels -> Work]
  /\ got \in [Channels -> Seq(Frame)]
  /\ frames \in Nat

\* The loop of c can read another frame.
Reads(c) == conn[c] \in {"open", "closed"} /\ work[c] = Idle

Init ==
  /\ conn = [c \in Channels |-> "idle"]
  /\ groups = [r \in Rooms |-> {}]
  /\ subs = [r \in Rooms |-> [c \in Channels |-> NoId]]
  /\ seq = 0
  /\ work = [c \in Channels |-> Idle]
  /\ got = [c \in Channels |-> << >>]
  /\ frames = 0

\* Mutant: only SEND falls back to the default room.
RouteSendOnly(cmd, dest) ==
  IF cmd = "SEND" /\ dest = NoDest THEN DefaultRoom
  ELSE IF cmd = "SEND" /\ dest \in AppRooms THEN Topic ELSE dest

\* normalizeDestination
Route(cmd, dest) ==
  IF dest = NoDest THEN DefaultRoom
  ELSE IF cmd = "SEND" /\ dest \in AppRooms THEN Topic ELSE dest

\* Mutant: the counter is read, not advanced.
NextIdNotTaken(n) == n

\* messageIdSeq.incrementAndGet()
NextId(n) == n + 1

----------------------------------------------------------------------------
(* Walks *)

IsWalk(w) == w.op = "walk"
Ended(w)  == w.todo = {} /\ w.frame = NoFrame

\* The work after c has lost its subscription to the rooms R: nothing is owed to
\* it there any more.
Unsettle(c, R, w) ==
  [p \in Channels |-> IF IsWalk(w[p]) /\ w[p].room \in R
                        THEN [w[p] EXCEPT !.owed = @ \ {c}] ELSE w[p]]

\* Walks over r that have not ended may or may not visit a newcomer c.
MayVisit(r, c, w) ==
  \E P \in SUBSET {p \in Channels : IsWalk(work[p]) /\ work[p].room = r /\ ~Ended(work[p])} :
    work' = [p \in Channels |->
               IF p \in P THEN [w[p] EXCEPT !.todo = @ \cup {c}] ELSE w[p]]

\* Mutant: a publisher does not hear itself.
AudienceOthers(c, r, s) ==
  IF \E x \in Channels : s[r][x] # NoId THEN groups[r] \ {c} ELSE {}

\* The channels a walk over r begins with: none unless somebody is subscribed.
Audience(c, r, s) ==
  IF \E x \in Channels : s[r][x] # NoId THEN groups[r] ELSE {}

\* broadcastToRoom begins, when the subscriptions are s.
Walk(c, r, s, n) ==
  [op |-> "walk", room |-> r, no |-> n, todo |-> Audience(c, r, s), frame |-> NoFrame,
   owed |-> {x \in groups[r] : s[r][x] # NoId}]

----------------------------------------------------------------------------
(* Connections *)

\* The upgrade puts the handler in the pipeline.
Open(c) ==
  /\ conn[c] = "idle"
  /\ conn' = [conn EXCEPT ![c] = "open"]
  /\ UNCHANGED <<groups, subs, seq, work, got, frames>>

\* A channel closes, its own loop now doing w: Netty takes it out of every group.
Close(c, w) ==
  /\ conn' = [conn EXCEPT ![c] = IF @ = "open" THEN "closed" ELSE @]
  /\ groups' = [r \in Rooms |-> groups[r] \ {c}]
  /\ work' = Unsettle(c, Rooms, w)
  /\ UNCHANGED <<subs, seq, got, frames>>

\* The peer goes away.
PeerGone(c) ==
  /\ conn[c] = "open" /\ work[c] = Idle
  /\ Close(c, work)

\* Where removeChannelFromAllRooms finds c.
Traces(c) == {r \in Rooms : subs[r][c] # NoId \/ c \in groups[r]}

Leave(R, close) == [op |-> "leave", rooms |-> R, room |-> NoRoom, close |-> close]

\* Mutant: channelInactive is not overridden.
InactiveIgnored(c) ==
  /\ conn[c] = "closed" /\ work[c] = Idle
  /\ conn' = [conn EXCEPT ![c] = "inactive"]
  /\ UNCHANGED <<groups, subs, seq, work, got, frames>>

\* channelInactive: no frame will be read any more.
Inactive(c) ==
  /\ conn[c] = "closed" /\ work[c] = Idle
  /\ conn' = [conn EXCEPT ![c] = "inactive"]
  /\ work' = [work EXCEPT ![c] = Leave(Traces(c), FALSE)]
  /\ UNCHANGED <<groups, subs, seq, got, frames>>

----------------------------------------------------------------------------
(* SUBSCRIBE *)

\* The channel joins the group; a closed one is taken out again at once.  A
\* subscription without an id gets one from the counter of message ids.
ReadSubscribe(c, dest, i) ==
  LET r == Route("SUBSCRIBE", dest)
      w == [work EXCEPT ![c] = [op |-> "put", room |-> r,
                                id |-> IF i = NoId THEN NextId(seq) ELSE i]]
  IN  /\ Reads(c) /\ frames < MaxFrames
      /\ frames' = frames + 1
      /\ seq' = IF i = NoId THEN NextId(seq) ELSE seq
      /\ IF conn[c] = "open"
           THEN groups' = [groups EXCEPT ![r] = @ \cup {c}] /\ MayVisit(r, c, w)
           ELSE groups' = groups /\ work' = w
      /\ UNCHANGED <<conn, subs, got>>

\* The subscription id is put, over one that is there; then the walk that tells
\* the room begins.
PutSubscription(c) ==
  /\ work[c].op = "put"
  /\ subs' = [subs EXCEPT ![work[c].room][c] = work[c].id]
  /\ work' = [work EXCEPT ![c] = Walk(c, @.room, subs', frames)]
  /\ UNCHANGED <<conn, groups, seq, got, frames>>

----------------------------------------------------------------------------
(* SEND, and the walk of a broadcast *)

ReadSend(c, dest) ==
  /\ Reads(c) /\ frames < MaxFrames
  /\ frames' = frames + 1
  /\ work' = [work EXCEPT ![c] = Walk(c, Route("SEND", dest), subs, frames')]
  /\ UNCHANGED <<conn, groups, subs, seq, got>>

\* The walk of c visits x and builds its frame; without a subscription there is
\* nothing to build.
Look(c, x) ==
  LET w == work[c]
      s == subs[w.room][x]
  IN  /\ IsWalk(w) /\ w.frame = NoFrame /\ x \in w.todo
      /\ IF s = NoId
           THEN /\ work' = [work EXCEPT ![c].todo = @ \ {x}]
                /\ seq' = seq
           ELSE /\ seq' = NextId(seq)
                /\ work' = [work EXCEPT ![c].frame =
                     [from |-> c, no |-> w.no, to |-> x, sub |-> s, id |-> NextId(seq)]]
      /\ UNCHANGED <<conn, groups, subs, got, frames>>

\* Mutant: a frame overtakes those before it.
DeliveredFirst(q, f) == <<f>> \o q

\* What x has been written after frame f: loops hand frames over in order.
Delivered(q, f) == Append(q, f)

\* The frame is written, if its channel is still open.
WriteFrame(c) ==
  LET f == work[c].frame
  IN  /\ IsWalk(work[c]) /\ f # NoFrame
      /\ got' = IF conn[f.to] = "open"
                  THEN [got EXCEPT ![f.to] = Delivered(@, f)] ELSE got
      /\ work' = [work EXCEPT ![c].frame = NoFrame, ![c].todo = @ \ {f.to},
                              ![c].owed = @ \ {f.to}]
      /\ UNCHANGED <<conn, groups, subs, seq, frames>>

\* The walk misses a channel that has left the group.
SkipGone(c, x) ==
  /\ IsWalk(work[c]) /\ work[c].frame = NoFrame
  /\ x \in work[c].todo \ groups[work[c].room]
  /\ work' = [work EXCEPT ![c].todo = @ \ {x}]
  /\ UNCHANGED <<conn, groups, subs, seq, got, frames>>

EndWalk(c) ==
  /\ IsWalk(work[c]) /\ Ended(work[c])
  /\ work' = [work EXCEPT ![c] = Idle]
  /\ UNCHANGED <<conn, groups, subs, seq, got, frames>>

----------------------------------------------------------------------------
(* UNSUBSCRIBE and DISCONNECT *)

\* UNSUBSCRIBE leaves every room c has subscribed to under this id.
ReadUnsubscribe(c, i) ==
  LET R == {r \in Rooms : subs[r][c] = i}
  IN  /\ Reads(c) /\ R # {}
      /\ work' = [work EXCEPT ![c] = Leave(R, FALSE)]
      /\ UNCHANGED <<conn, groups, subs, seq, got, frames>>

\* DISCONNECT leaves every room, then closes.
ReadDisconnect(c) ==
  /\ Reads(c)
  /\ work' = [work EXCEPT ![c] = Leave(Traces(c), TRUE)]
  /\ UNCHANGED <<conn, groups, subs, seq, got, frames>>

\* One room after the other: first the subscription goes ...
DropSubscription(c) ==
  /\ work[c].op = "leave" /\ work[c].room = NoRoom
  /\ \E r \in work[c].rooms :
       /\ subs' = [subs EXCEPT ![r][c] = NoId]
       /\ work' = Unsettle(c, {r}, [work EXCEPT ![c].room = r])
  /\ UNCHANGED <<conn, groups, seq, got, frames>>

\* Mutant: the group keeps the channel.
LeaveGroupKept(c) ==
  /\ work[c].op = "leave" /\ work[c].room # NoRoom
  /\ work' = [work EXCEPT ![c].rooms = @ \ {work[c].room}, ![c].room = NoRoom]
  /\ UNCHANGED <<conn, groups, subs, seq, got, frames>>

\* ... then the channel leaves the group.
LeaveGroup(c) ==
  /\ work[c].op = "leave" /\ work[c].room # NoRoom
  /\ groups' = [groups EXCEPT ![work[c].room] = @ \ {c}]
  /\ work' = [work EXCEPT ![c].rooms = @ \ {work[c].room}, ![c].room = NoRoom]
  /\ UNCHANGED <<conn, subs, seq, got, frames>>

EndLeave(c) ==
  LET w == [work EXCEPT ![c] = Idle]
  IN  /\ work[c].op = "leave" /\ work[c].rooms = {}
      /\ IF work[c].close THEN Close(c, w)
         ELSE work' = w /\ UNCHANGED <<conn, groups, subs, seq, got, frames>>

----------------------------------------------------------------------------
Next ==
  \E c \in Channels :
    \/ Open(c) \/ PeerGone(c) \/ Inactive(c) \/ ReadDisconnect(c)
    \/ PutSubscription(c) \/ WriteFrame(c) \/ EndWalk(c)
    \/ DropSubscription(c) \/ LeaveGroup(c) \/ EndLeave(c)
    \/ \E x \in Channels : Look(c, x) \/ SkipGone(c, x)
    \/ \E dest \in Rooms \cup {NoDest} :
         \/ ReadSend(c, dest)
         \/ \E i \in ClientIds \cup {NoId} : ReadSubscribe(c, dest, i)
    \/ \E i \in ClientIds : ReadUnsubscribe(c, i)

Spec == Init /\ [][Next]_vars

----------------------------------------------------------------------------
(* What the handler keeps true *)

\* The two maps agree on every open channel whose loop is between two frames.
MapsAgree ==
  \A c \in Channels, r \in Rooms :
    conn[c] = "open" /\ work[c] = Idle => (c \in groups[r] <=> subs[r][c] # NoId)

\* A connection that is gone is nowhere: not in a group, not in a subscription map.
NoGhosts ==
  \A c \in Channels, r \in Rooms :
    conn[c] = "inactive" /\ work[c] = Idle => c \notin groups[r] /\ subs[r][c] = NoId

\* The MESSAGE frames written so far, as positions in `got`.
Sent == UNION {{x} \X DOMAIN got[x] : x \in Channels}

\* No two MESSAGE frames, to whatever channels, share a message-id.
MessageIdsUnique ==
  \A p, q \in Sent : got[p[1]][p[2]].id = got[q[1]][q[2]].id => p = q

\* A broadcast reaches everyone who was subscribed when it began and still is.
SubscribersHear ==
  \A c \in Channels : IsWalk(work[c]) /\ Ended(work[c]) => work[c].owed = {}

\* What one publisher broadcasts arrives in order, under growing message ids.
PublisherOrder ==
  \A x \in Channels : \A j, k \in DOMAIN got[x] :
    j < k /\ got[x][j].from = got[x][k].from
      => got[x][j].no <= got[x][k].no /\ got[x][j].id < got[x][k].id
=============================================================================
