------------------------------ MODULE StompPage ------------------------------
(***************************************************************************)
(* websocket_stomp.js: the chat page over STOMP, against the broker of     *)
(* ChatRoomWebSocketHandler_STOMP.  stomp.js keeps one client per          *)
(* WebSocket; the page keeps the newest, and its callbacks use that one,   *)
(* whichever client they were registered with.                             *)
(*                                                                         *)
(* The broker takes everything that is sent to /app/... for a chat message *)
(* of /topic/messages: the frames of an upload, too.  It answers a         *)
(* SUBSCRIBE by telling the topic who joined.                              *)
(***************************************************************************)
EXTENDS PageParameters

VARIABLES
  clients,      \* clients[c]: the state of the c-th client, "none" before it is made
  stompClient,  \* this.stompClient, 0 for null
  joined,       \* this.connected, which is also what the page displays
  topics,       \* topics[c]: the topics the broker has subscribed client c to
  wire,         \* wire[c]: texts on their way to client c, with their topic
  texts,        \* number of texts the broker has broadcast
  shown,        \* shown[n]: how often the n-th text was displayed
  file,         \* this.file: its size, NoFile before the first
  offset,       \* this.offset, in chunks
  readers,      \* FileReaders that have not loaded yet
  uploads,      \* number of START, chunk and COMPLETE messages sent
  impatient     \* history: was Connect clicked while a client was not closed yet?

stomp == <<clients, stompClient, joined, topics, wire, texts, shown, file, offset,
           readers, uploads, impatient>>
files == <<file, offset, readers, uploads>>

Clients == 1..MaxClients
Texts == 1..MaxTexts
Topics == {"messages", "announcements", "file-status"}
NoFile == -1

\* "opening": no WebSocket yet; "open": no CONNECTED frame yet; "closed" is
\* also what stomp.js makes of a client that was disconnected.
States == {"none", "opening", "open", "connected", "closed"}
Busy(c) == clients[c] \in {"opening", "open", "connected"}

StompTypeOK ==
  /\ clients \in [Clients -> States]
  /\ stompClient \in 0..MaxClients
  /\ topics \in [Clients -> SUBSET Topics]
  /\ wire \in [Clients -> SUBSET (Texts \X Topics)]
  /\ texts \in 0..MaxTexts
  /\ shown \in [Texts -> Nat]
  /\ file \in {NoFile} \cup 0..MaxChunks
  /\ offset \in 0..MaxPicks
  /\ readers \in 0..MaxPicks
  /\ uploads \in [{"start", "chunk", "complete"} -> 0..MaxPicks]
  /\ {joined, impatient} \subseteq BOOLEAN

StompInit ==
  /\ clients = [c \in Clients |-> "none"]
  /\ stompClient = 0
  /\ joined = FALSE
  /\ topics = [c \in Clients |-> {}]
  /\ wire = [c \in Clients |-> {}]
  /\ texts = 0
  /\ shown = [n \in Texts |-> 0]
  /\ file = NoFile
  /\ offset = 0
  /\ readers = 0
  /\ uploads = [k \in {"start", "chunk", "complete"} |-> 0]
  /\ impatient = FALSE

----------------------------------------------------------------------------
(* The broker *)

\* broadcastToRoom to the topics `to`, with the subscriptions `subs`.  Any text,
\* up to the bound, is one whose way the model follows.
Broadcast(to, subs) ==
  \/ UNCHANGED <<texts, wire>>
  \/ /\ texts < MaxTexts
     /\ texts' = texts + 1
     /\ \E topic \in to : wire' = [c \in Clients |->
          wire[c] \cup IF topic \in subs[c] THEN {<<texts + 1, topic>>} ELSE {}]

\* Somebody else says something, or joins.
Other(topic) ==
  /\ Broadcast({topic}, topics)
  /\ UNCHANGED <<clients, stompClient, joined, topics, shown, impatient>>
  /\ UNCHANGED files

----------------------------------------------------------------------------
(* The connection *)

\* apiConnect, with a one time token.
ConnectStomp(c) ==
  /\ ~joined
  /\ clients[c] = "none" /\ \A b \in 1..(c - 1) : clients[b] # "none"
  /\ clients' = [clients EXCEPT ![c] = "opening"]
  /\ stompClient' = c
  /\ impatient' = (impatient \/ \E b \in Clients : Busy(b))
  /\ UNCHANGED <<joined, topics, wire, texts, shown>>
  /\ UNCHANGED files

\* stomp.js, ws.onopen: CONNECT is sent.
ClientOpened(c) ==
  /\ clients[c] = "opening"
  /\ clients' = [clients EXCEPT ![c] = "open"]
  /\ UNCHANGED <<stompClient, joined, topics, wire, texts, shown, impatient>>
  /\ UNCHANGED files

\* onStompConnect of client c, which subscribes this.stompClient to the three
\* topics: on one that is opening the first subscribe throws, on a closed one
\* they are lost.  The broker keeps one subscription of a channel to a topic.
Subscribe ==
  IF clients[stompClient] \in {"open", "connected"}
  THEN /\ topics' = [topics EXCEPT ![stompClient] = Topics]
       /\ Broadcast(Topics, topics')
  ELSE UNCHANGED <<topics, texts, wire>>

\* stomp.js, a CONNECTED frame
Connected(c) ==
  /\ clients[c] = "open"
  /\ clients' = [clients EXCEPT ![c] = "connected"]
  /\ joined' = TRUE
  /\ Subscribe
  /\ UNCHANGED <<stompClient, shown, impatient>>
  /\ UNCHANGED files

\* Mutant: the client is taken for closed, its channel stays as it was.
ForgetPageOnly(c) ==
  /\ clients' = [clients EXCEPT ![c] = "closed"]
  /\ UNCHANGED <<topics, wire>>

\* The broker forgets a client that is gone, and its texts are lost.
Forget(c) ==
  /\ clients' = [clients EXCEPT ![c] = "closed"]
  /\ topics' = [topics EXCEPT ![c] = {}]
  /\ wire' = [wire EXCEPT ![c] = {}]

\* Mutant: the loss of a client whose CONNECTED frame came is not displayed.
DisplayedQuiet(c) == joined /\ clients[c] = "connected"

\* onConnectionStatusChanged(false)
Displayed(c) == FALSE

\* stomp.js, ws.onclose: onStompError with a text.
Lost(c) ==
  /\ Busy(c)
  /\ Forget(c)
  /\ joined' = Displayed(c)
  /\ UNCHANGED <<stompClient, texts, shown, impatient>>
  /\ UNCHANGED files

\* apiDisconnect; stomp.js takes its onclose handler back, closes the socket and
\* calls back at once.
DisconnectStomp ==
  /\ joined
  /\ stompClient # 0 /\ clients[stompClient] = "connected"
  /\ Forget(stompClient)
  /\ joined' = FALSE
  /\ UNCHANGED <<stompClient, texts, shown, impatient>>
  /\ UNCHANGED files

----------------------------------------------------------------------------
(* Messages *)

\* apiSendMessage: the broker broadcasts it, to the page itself, too.
SendText ==
  /\ joined
  /\ stompClient # 0 /\ clients[stompClient] = "connected"
  /\ Broadcast({"messages"}, topics)
  /\ UNCHANGED <<clients, stompClient, joined, topics, shown, impatient>>
  /\ UNCHANGED files

\* The handler of a subscription: "who: body" is no JSON text, so that it is
\* displayed as it is in two topics, and only logged in the third.
Receive(c, n, topic) ==
  /\ <<n, topic>> \in wire[c]
  /\ wire' = [wire EXCEPT ![c] = @ \ {<<n, topic>>}]
  /\ shown' = IF topic # "file-status" THEN [shown EXCEPT ![n] = @ + 1] ELSE shown
  /\ UNCHANGED <<clients, stompClient, joined, topics, texts, impatient>>
  /\ UNCHANGED files

----------------------------------------------------------------------------
(* Files *)

\* utilSendNextChunk, of a new file
Ends(size) == size = 0

\* apiSendFile: START, then the first slice is read, or COMPLETE is sent.
Pick(size) ==
  /\ joined
  /\ stompClient # 0 /\ clients[stompClient] = "connected"
  /\ uploads.start < MaxPicks
  /\ file' = size
  /\ offset' = 0
  /\ readers' = IF Ends(size) THEN readers ELSE readers + 1
  /\ uploads' = [uploads EXCEPT !.start = @ + 1,
                                !.complete = IF Ends(size) THEN @ + 1 ELSE @]
  /\ Broadcast({"messages"}, topics)
  /\ UNCHANGED <<clients, stompClient, joined, topics, shown, impatient>>

\* Mutant: the next slice is read without waiting for an acknowledgement.
ReadersAfterNext == IF offset + 1 < file THEN readers ELSE readers - 1

\* reader.onload reads no further slice.
ReadersAfter == readers - 1

\* reader.onload: the chunk is sent; on a client that is opening that throws, on
\* a closed one it is lost.
Loaded ==
  /\ readers > 0
  /\ readers' = ReadersAfter
  /\ LET up == clients[stompClient] \in {"open", "connected"}
     IN  /\ offset' = IF clients[stompClient] = "opening" THEN offset ELSE offset + 1
         /\ uploads' = [uploads EXCEPT !.chunk = IF up THEN @ + 1 ELSE @]
         /\ IF up THEN Broadcast({"messages"}, topics) ELSE UNCHANGED <<texts, wire>>
  /\ UNCHANGED <<clients, stompClient, joined, topics, shown, file, impatient>>

----------------------------------------------------------------------------

StompNext ==
  \/ \E topic \in Topics : Other(topic)
  \/ \E c \in Clients : ConnectStomp(c)
  \/ \E c \in Clients : ClientOpened(c)
  \/ \E c \in Clients : Connected(c)
  \/ \E c \in Clients : Lost(c)
  \/ DisconnectStomp
  \/ SendText
  \/ \E c \in Clients, n \in Texts, topic \in Topics : Receive(c, n, topic)
  \/ \E size \in 0..MaxChunks : Pick(size)
  \/ Loaded

StompSpec == StompInit /\ [][StompNext]_stomp

----------------------------------------------------------------------------
(* Properties *)

\* What the page displays of the connection is the state of its newest client,
\* which is subscribed then and alone, unless the user clicked Connect during a
\* connection attempt; and when nothing is connected, nothing is displayed as
\* connected in any case.
StompStatusIsTrue ==
  /\ (\A c \in Clients : clients[c] # "connected") => ~joined
  /\ ~impatient =>
       /\ joined <=> (stompClient # 0 /\ clients[stompClient] = "connected")
       /\ joined => topics[stompClient] = Topics
       /\ \A c \in Clients : Busy(c) => c = stompClient

\* No text is displayed twice, although every connection subscribes anew: the
\* page never holds two live subscriptions to one topic, unless the user clicked
\* Connect during a connection attempt.
SeenOnce == ~impatient => \A n \in Texts : shown[n] <= 1

\* An upload over STOMP never gets beyond its first chunk: the next slice waits
\* for an acknowledgement that the broker, which takes START and chunk for chat
\* messages, never sends; COMPLETE is sent for an empty file only.
UploadStalls ==
  uploads.chunk + readers + uploads.complete <= uploads.start
=============================================================================
