-------------------------- MODULE ConnectionProofs ---------------------------
(***************************************************************************)
(* Proofs about the connections of the two chat pages, ChatConnection and  *)
(* StompPage, for any number of sockets, clients, texts and files.         *)
(***************************************************************************)
EXTENDS ChatConnection, StompPage, TLAPS

----------------------------------------------------------------------------
(* ChatConnection *)

USE SocketsBound

\* The invariant, which is inductive as it stands.
ChatInv == ChatTypeOK /\ StatusIsTrue

\* What Sent makes of the frames, in a state where the sockets are `now`.
LEMMA SentFacts ==
  ASSUME ChatTypeOK, NEW kinds \in SUBSET FrameKinds, NEW now
  PROVE  /\ Sent(kinds, now) \in [Sockets -> SUBSET FrameKinds]
         /\ \A s \in Sockets : frames[s] \subseteq Sent(kinds, now)[s]
         /\ ws # 0 /\ now[ws] = "open" => kinds \subseteq Sent(kinds, now)[ws]
<1>1. ws # 0 => ws \in Sockets
  BY DEF ChatTypeOK, Sockets
<1>2. CASE ws # 0 /\ now[ws] = "open"
  <2>1. Sent(kinds, now) = [frames EXCEPT ![ws] = @ \cup kinds]
    BY <1>2 DEF Sent
  <2> QED
    BY <1>1, <1>2, <2>1 DEF ChatTypeOK
<1>3. CASE ~(ws # 0 /\ now[ws] = "open")
  BY <1>3 DEF ChatTypeOK, Sent
<1> QED
  BY <1>2, <1>3

\* The invariant holds initially.
LEMMA ChatInvInit == ChatInit => ChatInv
<1> SUFFICES ASSUME ChatInit PROVE ChatInv
  OBVIOUS
<1>1. ChatTypeOK
  <2>1. linked \in BOOLEAN /\ typed \in BOOLEAN /\ hurried \in BOOLEAN
    BY DEF ChatInit
  <2> QED
    BY <2>1 DEF ChatInit, ChatTypeOK
<1>2. StatusIsTrue
  BY DEF ChatInit, StatusIsTrue, IsOpen, Live
<1> QED
  BY <1>1, <1>2 DEF ChatInv

\* A new socket: nothing is displayed of it yet, and it is the only one, unless
\* the user was in a hurry.
LEMMA ConnectKeeps ==
  ASSUME ChatInv, NEW s \in Sockets, Connect(s)
  PROVE  ChatInv'
<1>1. /\ ~linked /\ sockets[s] = "none"
      /\ sockets' = [sockets EXCEPT ![s] = "connecting"] /\ ws' = s
      /\ hurried' = (hurried \/ \E r \in Sockets : Live(r))
      /\ UNCHANGED <<linked, frames, typed>>
  BY DEF Connect
<1>2. s \in 0..MaxSockets /\ s # 0
  BY DEF Sockets
<1>3. ChatTypeOK'
  <2>1. hurried' \in BOOLEAN /\ linked' \in BOOLEAN /\ typed' \in BOOLEAN
    BY <1>1 DEF ChatInv, ChatTypeOK
  <2> QED
    BY <1>1, <1>2, <2>1 DEF ChatInv, ChatTypeOK
<1>4. sockets'[s] = "connecting" /\ \A r \in Sockets \ {s} : sockets'[r] = sockets[r]
  BY <1>1 DEF ChatInv, ChatTypeOK
<1>5. StatusIsTrue'
  <2>1. ~linked' /\ ~IsOpen(ws)' /\ Live(s)' /\ ws' = s
    BY <1>1, <1>4 DEF IsOpen, Live
  <2>2. ~hurried' => \A r \in Sockets : Live(r)' => r = s
    BY <1>1, <1>4 DEF Live
  <2> QED
    BY <2>1, <2>2 DEF StatusIsTrue
<1> QED
  BY <1>3, <1>5 DEF ChatInv

\* A socket opens: what this.ws is gets announced and subscribed.
LEMMA OpenedKeeps ==
  ASSUME ChatInv, NEW s \in Sockets, Opened(s)
  PROVE  ChatInv'
<1>1. /\ sockets[s] = "connecting" /\ sockets' = [sockets EXCEPT ![s] = "open"]
      /\ linked' = TRUE /\ frames' = Sent({"CONNECT", "SUBSCRIBE"}, sockets')
      /\ UNCHANGED <<ws, typed, hurried>>
  BY DEF Opened
<1>2. sockets'[s] = "open" /\ \A r \in Sockets \ {s} : sockets'[r] = sockets[r]
  BY <1>1 DEF ChatInv, ChatTypeOK
<1>3. {"CONNECT", "SUBSCRIBE"} \in SUBSET FrameKinds
  BY DEF FrameKinds
<1>4. /\ frames' \in [Sockets -> SUBSET FrameKinds]
      /\ ws # 0 /\ sockets'[ws] = "open" => {"CONNECT", "SUBSCRIBE"} \subseteq frames'[ws]
  BY <1>1, <1>3, SentFacts DEF ChatInv
<1>5. ChatTypeOK'
  <2>1. hurried' \in BOOLEAN /\ linked' \in BOOLEAN /\ typed' \in BOOLEAN
    BY <1>1 DEF ChatInv, ChatTypeOK
  <2> QED
    BY <1>1, <1>4, <2>1 DEF ChatInv, ChatTypeOK
<1>6. StatusIsTrue'
  <2>1. \E r \in Sockets : IsOpen(r)'
    BY <1>2 DEF IsOpen, Sockets
  <2>2. IsOpen(ws)' => {"CONNECT", "SUBSCRIBE"} \subseteq frames'[ws']
    BY <1>1, <1>4 DEF IsOpen
  <2>3. Live(s)'
    BY <1>2 DEF Live
  <2>4. ASSUME ~hurried' PROVE linked' /\ IsOpen(ws)' /\ \A r \in Sockets : Live(r)' => r = ws'
    <3>1. ws = s /\ \A r \in Sockets : Live(r) => r = ws
      BY <1>1, <2>4 DEF ChatInv, StatusIsTrue, Live
    <3>2. \A r \in Sockets : Live(r)' => r = s \/ Live(r)
      BY <1>2 DEF Live
    <3>3. linked' /\ IsOpen(ws)'
      BY <1>1, <1>2, <3>1 DEF IsOpen, Sockets
    <3> QED
      BY <1>1, <3>1, <3>2, <3>3
  <2> QED
    BY <2>1, <2>2, <2>3, <2>4 DEF StatusIsTrue
<1> QED
  BY <1>5, <1>6 DEF ChatInv

\* A socket closes: the page takes it for the last one.
LEMMA ClosedKeeps ==
  ASSUME ChatInv, NEW s \in Sockets, Closed(s)
  PROVE  ChatInv'
<1>1. /\ Live(s) /\ sockets' = [sockets EXCEPT ![s] = "closed"]
      /\ linked' = FALSE /\ ws' = 0
      /\ UNCHANGED <<frames, typed, hurried>>
  BY DEF Closed, StatusAfter
<1>2. sockets'[s] = "closed" /\ \A r \in Sockets \ {s} : sockets'[r] = sockets[r]
  BY <1>1 DEF ChatInv, ChatTypeOK
<1>3. ChatTypeOK'
  <2>1. hurried' \in BOOLEAN /\ linked' \in BOOLEAN /\ typed' \in BOOLEAN
    BY <1>1 DEF ChatInv, ChatTypeOK
  <2> QED
    BY <1>1, <2>1 DEF ChatInv, ChatTypeOK
<1>4. StatusIsTrue'
  <2>1. ~linked' /\ ~IsOpen(ws)' /\ ws' = 0
    BY <1>1 DEF IsOpen
  <2>2. ~hurried' => \A r \in Sockets : ~Live(r)'
    BY <1>1, <1>2 DEF ChatInv, StatusIsTrue, Live
  <2> QED
    BY <2>1, <2>2 DEF StatusIsTrue
<1> QED
  BY <1>3, <1>4 DEF ChatInv

\* A step that only adds frames keeps the invariant.
LEMMA FramesGrow ==
  ASSUME ChatInv, frames' \in [Sockets -> SUBSET FrameKinds],
         \A s \in Sockets : frames[s] \subseteq frames'[s],
         typed' \in BOOLEAN, UNCHANGED <<sockets, ws, linked, hurried>>
  PROVE  ChatInv'
<1>1. ChatTypeOK'
  <2>1. hurried' \in BOOLEAN /\ linked' \in BOOLEAN
    BY DEF ChatInv, ChatTypeOK
  <2> QED
    BY <2>1 DEF ChatInv, ChatTypeOK
<1>2. IsOpen(ws) => ws \in Sockets
  BY DEF ChatInv, ChatTypeOK, IsOpen, Sockets
<1>3. StatusIsTrue'
  BY <1>2 DEF ChatInv, StatusIsTrue, IsOpen, Live
<1> QED
  BY <1>1, <1>3 DEF ChatInv

\* Every step keeps the invariant.
LEMMA ChatInvNext == ChatInv /\ [ChatNext]_connection => ChatInv'
<1> SUFFICES ASSUME ChatInv, [ChatNext]_connection PROVE ChatInv'
  OBVIOUS
<1>1. frames \in [Sockets -> SUBSET FrameKinds] /\ typed \in BOOLEAN
  BY DEF ChatInv, ChatTypeOK
<1>2. ASSUME NEW s \in Sockets, Connect(s) PROVE ChatInv'
  BY <1>2, ConnectKeeps
<1>3. ASSUME NEW s \in Sockets, Opened(s) PROVE ChatInv'
  BY <1>3, OpenedKeeps
<1>4. ASSUME NEW s \in Sockets, Closed(s) PROVE ChatInv'
  BY <1>4, ClosedKeeps
<1>5. CASE Disconnect
  <2>1. {"DISCONNECT"} \in SUBSET FrameKinds
    BY DEF FrameKinds
  <2> QED
    BY <1>1, <1>5, <2>1, SentFacts, FramesGrow DEF ChatInv, Disconnect
<1>6. CASE Type
  <2>1. typed' \in BOOLEAN
    BY <1>6 DEF Type
  <2> QED
    BY <1>1, <1>6, <2>1, FramesGrow DEF Type
<1>7. CASE SendMessage
  <2>1. {"SEND"} \in SUBSET FrameKinds
    BY DEF FrameKinds
  <2>2. typed' \in BOOLEAN
    BY <1>7 DEF SendMessage
  <2> QED
    BY <1>7, <2>1, <2>2, SentFacts, FramesGrow DEF ChatInv, SendMessage
<1>8. CASE UNCHANGED connection
  BY <1>1, <1>8, FramesGrow DEF connection
<1> QED
  BY <1>2, <1>3, <1>4, <1>5, <1>6, <1>7, <1>8 DEF ChatNext

\* Every variable of the connection has the type ChatConnection says.
THEOREM ChatTyped == ChatSpec => []ChatTypeOK
BY ChatInvInit, ChatInvNext, PTL DEF ChatSpec, ChatInv

\* The status line tells the truth about the connection.
THEOREM ChatStatusTrue == ChatSpec => []StatusIsTrue
BY ChatInvInit, ChatInvNext, PTL DEF ChatSpec, ChatInv

----------------------------------------------------------------------------
(* StompPage *)

USE StompBounds

UploadKinds == {"start", "chunk", "complete"}

\* The page holds a client as soon as it has made one.
Made == (\E c \in Clients : clients[c] # "none") => stompClient # 0

\* Readers and offset count what was picked: this bounds them.
Counted ==
  /\ uploads.start \in 0..MaxPicks
  /\ offset + readers <= uploads.start

\* Where texts can be: a text is broadcast to one topic, and after its number
\* was given; one that is on its way was not displayed.
Traced ==
  /\ \A n \in Texts : n > texts => shown[n] = 0
  /\ \A c \in Clients : ~Busy(c) => topics[c] = {} /\ wire[c] = {}
  /\ \A c \in Clients : \A m \in wire[c] : m[1] <= texts
  /\ ~impatient =>
       /\ \A c \in Clients : \A m \in wire[c] : shown[m[1]] = 0
       /\ \A c \in Clients : \A m, k \in wire[c] : m[1] = k[1] => m = k

\* The inductive invariant.
StompInv ==
  /\ StompTypeOK /\ StompStatusIsTrue /\ SeenOnce /\ UploadStalls
  /\ Made /\ Counted /\ Traced

\* The types in three parts: the connection, the texts, the files.
ConnectionTyped ==
  /\ clients \in [Clients -> States]
  /\ stompClient \in 0..MaxClients
  /\ topics \in [Clients -> SUBSET Topics]
  /\ joined \in BOOLEAN /\ impatient \in BOOLEAN

TextsTyped ==
  /\ wire \in [Clients -> SUBSET (Texts \X Topics)]
  /\ texts \in 0..MaxTexts
  /\ shown \in [Texts -> Nat]

FilesTyped ==
  /\ file \in {NoFile} \cup 0..MaxChunks
  /\ offset \in 0..MaxPicks
  /\ readers \in 0..MaxPicks
  /\ uploads \in [UploadKinds -> 0..MaxPicks]

\* The types of the STOMP page, part by part.
LEMMA StompTypedInParts == StompTypeOK <=> ConnectionTyped /\ TextsTyped /\ FilesTyped
BY DEF StompTypeOK, ConnectionTyped, TextsTyped, FilesTyped, UploadKinds

\* What is said of the connection, of the texts, and of the files.
ConnectionInv == ConnectionTyped /\ StompStatusIsTrue /\ Made
TextsInv == TextsTyped /\ SeenOnce /\ Traced
FilesInv == FilesTyped /\ UploadStalls /\ Counted

\* The invariant of the STOMP page, part by part.
LEMMA StompInParts == StompInv <=> ConnectionInv /\ TextsInv /\ FilesInv
BY StompTypedInParts DEF StompInv, ConnectionInv, TextsInv, FilesInv

\* The same, after a step.
LEMMA StompInPartsNext == StompInv' <=> ConnectionInv' /\ TextsInv' /\ FilesInv'
<1>1. StompTypeOK' <=> ConnectionTyped' /\ TextsTyped' /\ FilesTyped'
  BY DEF StompTypeOK, ConnectionTyped, TextsTyped, FilesTyped, UploadKinds
<1> QED
  BY <1>1 DEF StompInv, ConnectionInv, TextsInv, FilesInv

\* The invariant holds initially.
LEMMA StompInvInit == StompInit => StompInv
<1> SUFFICES ASSUME StompInit PROVE StompInv
  OBVIOUS
<1>1. ConnectionInv
  <2>1. ConnectionTyped
    <3>1. joined \in BOOLEAN /\ impatient \in BOOLEAN
      BY DEF StompInit
    <3> QED
      BY <3>1 DEF StompInit, ConnectionTyped, States
  <2> QED
    BY <2>1 DEF StompInit, ConnectionInv, StompStatusIsTrue, Made, Busy
<1>2. TextsInv
  BY DEF StompInit, TextsInv, TextsTyped, SeenOnce, Traced
<1>3. FilesInv
  BY DEF StompInit, FilesInv, FilesTyped, UploadStalls, Counted, UploadKinds
<1> QED
  BY <1>1, <1>2, <1>3, StompInParts

----------------------------------------------------------------------------
(* The files *)

\* Steps that leave the files alone keep their part of the invariant.
LEMMA FilesKept ==
  ASSUME FilesInv, UNCHANGED files
  PROVE  FilesInv'
BY DEF FilesInv, FilesTyped, UploadStalls, Counted, files

\* Picking a file starts an upload, and a reader if it has a chunk.
LEMMA PickFiles ==
  ASSUME FilesInv, NEW size \in 0..MaxChunks, Pick(size)
  PROVE  FilesInv'
<1>1. /\ uploads.start < MaxPicks /\ file' = size /\ offset' = 0
      /\ readers' = IF size = 0 THEN readers ELSE readers + 1
      /\ uploads' = [uploads EXCEPT !.start = @ + 1,
                                    !.complete = IF size = 0 THEN @ + 1 ELSE @]
  BY DEF Pick, Ends
<1>2. /\ uploads.start \in Nat /\ uploads.chunk \in Nat /\ uploads.complete \in Nat
      /\ readers \in Nat /\ offset \in Nat /\ MaxPicks \in Nat
  BY DEF FilesInv, FilesTyped, UploadKinds
<1>3. /\ uploads'.start = uploads.start + 1 /\ uploads'.chunk = uploads.chunk
      /\ uploads'.complete = IF size = 0 THEN uploads.complete + 1 ELSE uploads.complete
  BY <1>1 DEF FilesInv, FilesTyped, UploadKinds
<1>4. UploadStalls' /\ Counted'
  BY <1>1, <1>2, <1>3 DEF FilesInv, UploadStalls, Counted
<1>5. /\ uploads'.start \in 0..MaxPicks /\ uploads'.chunk \in 0..MaxPicks
      /\ uploads'.complete \in 0..MaxPicks /\ readers' \in 0..MaxPicks
  BY <1>1, <1>2, <1>3, <1>4 DEF UploadStalls, Counted
<1>6. uploads' \in [UploadKinds -> 0..MaxPicks]
  <2>1. \A k \in UploadKinds : uploads'[k] \in 0..MaxPicks
    BY <1>5 DEF UploadKinds
  <2>2. uploads' = [k \in UploadKinds |-> uploads'[k]]
    BY <1>1 DEF FilesInv, FilesTyped, UploadKinds
  <2> QED
    BY <2>1, <2>2
<1>7. file' \in {NoFile} \cup 0..MaxChunks /\ offset' \in 0..MaxPicks
  BY <1>1, <1>2
<1> QED
  BY <1>4, <1>5, <1>6, <1>7 DEF FilesInv, FilesTyped

\* A reader that ends moves the offset by one at most, and may send a chunk.
LEMMA LoadedFiles ==
  ASSUME FilesInv, Loaded
  PROVE  FilesInv'
<1>1. /\ readers > 0 /\ readers' = readers - 1 /\ file' = file
      /\ offset' \in {offset, offset + 1}
      /\ \/ uploads' = [uploads EXCEPT !.chunk = @ + 1]
         \/ uploads' = [uploads EXCEPT !.chunk = @]
  BY DEF Loaded, ReadersAfter
<1>2. /\ uploads.start \in Nat /\ uploads.chunk \in Nat /\ uploads.complete \in Nat
      /\ readers \in Nat /\ offset \in Nat /\ MaxPicks \in Nat
  BY DEF FilesInv, FilesTyped, UploadKinds
<1>3. /\ uploads'.start = uploads.start /\ uploads'.complete = uploads.complete
      /\ uploads'.chunk \in {uploads.chunk, uploads.chunk + 1}
  BY <1>1 DEF FilesInv, FilesTyped, UploadKinds
<1>4. UploadStalls' /\ Counted'
  BY <1>1, <1>2, <1>3 DEF FilesInv, UploadStalls, Counted
<1>5. /\ uploads'.start \in 0..MaxPicks /\ uploads'.chunk \in 0..MaxPicks
      /\ uploads'.complete \in 0..MaxPicks /\ readers' \in 0..MaxPicks
      /\ offset' \in 0..MaxPicks
  BY <1>1, <1>2, <1>3, <1>4 DEF UploadStalls, Counted
<1>6. uploads' \in [UploadKinds -> 0..MaxPicks]
  <2>1. \A k \in UploadKinds : uploads'[k] \in 0..MaxPicks
    BY <1>5 DEF UploadKinds
  <2>2. uploads' = [k \in UploadKinds |-> uploads'[k]]
    BY <1>1 DEF FilesInv, FilesTyped, UploadKinds
  <2> QED
    BY <2>1, <2>2
<1> QED
  BY <1>1, <1>4, <1>5, <1>6 DEF FilesInv, FilesTyped

----------------------------------------------------------------------------
(* The connection *)

\* Steps that leave the clients alone keep their part of the invariant.
LEMMA ConnectionKept ==
  ASSUME ConnectionInv, UNCHANGED <<clients, stompClient, joined, topics, impatient>>
  PROVE  ConnectionInv'
BY DEF ConnectionInv, ConnectionTyped, StompStatusIsTrue, Made, Busy

\* A new client: nothing is displayed of it yet, and it is the only one, unless
\* the user was in a hurry.
LEMMA ConnectConnection ==
  ASSUME ConnectionInv, NEW c \in Clients, ConnectStomp(c)
  PROVE  ConnectionInv'
<1>1. /\ ~joined /\ clients[c] = "none"
      /\ clients' = [clients EXCEPT ![c] = "opening"] /\ stompClient' = c
      /\ impatient' = (impatient \/ \E b \in Clients : Busy(b))
      /\ UNCHANGED <<joined, topics>>
  BY DEF ConnectStomp
<1>2. clients'[c] = "opening" /\ \A b \in Clients \ {c} : clients'[b] = clients[b]
  BY <1>1 DEF ConnectionInv, ConnectionTyped
<1>3. ConnectionTyped'
  <2>1. joined' \in BOOLEAN /\ impatient' \in BOOLEAN
    BY <1>1 DEF ConnectionInv, ConnectionTyped
  <2>2. c \in 0..MaxClients
    BY DEF Clients
  <2> QED
    BY <1>1, <2>1, <2>2 DEF ConnectionInv, ConnectionTyped, States
<1>4. StompStatusIsTrue'
  <2>1. ~impatient' => \A b \in Clients : Busy(b)' => b = c
    BY <1>1, <1>2 DEF Busy
  <2> QED
    BY <1>1, <1>2, <2>1 DEF StompStatusIsTrue
<1>5. Made'
  BY <1>1 DEF Made, Clients
<1> QED
  BY <1>3, <1>4, <1>5 DEF ConnectionInv

\* A client that opens was in use before.
LEMMA OpenedConnection ==
  ASSUME ConnectionInv, NEW c \in Clients, ClientOpened(c)
  PROVE  ConnectionInv'
<1>1. /\ clients[c] = "opening" /\ clients' = [clients EXCEPT ![c] = "open"]
      /\ UNCHANGED <<stompClient, joined, topics, impatient>>
  BY DEF ClientOpened
<1>2. clients'[c] = "open" /\ \A b \in Clients \ {c} : clients'[b] = clients[b]
  BY <1>1 DEF ConnectionInv, ConnectionTyped
<1>3. ConnectionTyped'
  <2>1. joined' \in BOOLEAN /\ impatient' \in BOOLEAN
    BY <1>1 DEF ConnectionInv, ConnectionTyped
  <2> QED
    BY <1>1, <2>1 DEF ConnectionInv, ConnectionTyped, States
<1>4. StompStatusIsTrue'
  <2>1. \A b \in Clients : Busy(b)' <=> Busy(b)
    BY <1>1, <1>2 DEF Busy
  <2>2. \A b \in Clients : clients'[b] = "connected" <=> clients[b] = "connected"
    BY <1>1, <1>2
  <2>3. stompClient # 0 => stompClient \in Clients
    BY DEF ConnectionInv, ConnectionTyped, Clients
  <2>4. UNCHANGED <<stompClient, joined, topics, impatient>>
    BY <1>1
  <2> QED
    BY <2>1, <2>2, <2>3, <2>4 DEF ConnectionInv, StompStatusIsTrue
<1>5. Made'
  BY <1>1, <1>2 DEF ConnectionInv, Made
<1> QED
  BY <1>3, <1>4, <1>5 DEF ConnectionInv

\* The CONNECTED frame: the newest client is subscribed, if it is the one.
LEMMA ConnectedConnection ==
  ASSUME ConnectionInv, NEW c \in Clients, Connected(c)
  PROVE  /\ ConnectionInv'
         /\ \/ topics' = topics
            \/ /\ stompClient \in Clients /\ Busy(stompClient)
               /\ topics' = [topics EXCEPT ![stompClient] = Topics]
<1>1. /\ clients[c] = "open" /\ clients' = [clients EXCEPT ![c] = "connected"]
      /\ joined' = TRUE
      /\ UNCHANGED <<stompClient, impatient>>
  BY DEF Connected
<1>2. clients'[c] = "connected" /\ \A b \in Clients \ {c} : clients'[b] = clients[b]
  BY <1>1 DEF ConnectionInv, ConnectionTyped
<1>3. stompClient # 0 => stompClient \in Clients
  BY DEF ConnectionInv, ConnectionTyped, Clients
<1>4. stompClient # 0
  BY <1>1 DEF ConnectionInv, Made
<1>5. \/ topics' = topics /\ clients[stompClient] \notin {"open", "connected"}
      \/ /\ topics' = [topics EXCEPT ![stompClient] = Topics]
         /\ Busy(stompClient)
  BY DEF Connected, Subscribe, Busy
<1>6. topics' \in [Clients -> SUBSET Topics]
  BY <1>3, <1>4, <1>5 DEF ConnectionInv, ConnectionTyped
<1>7. ConnectionTyped'
  <2>1. joined' \in BOOLEAN /\ impatient' \in BOOLEAN
    BY <1>1 DEF ConnectionInv, ConnectionTyped
  <2> QED
    BY <1>1, <1>6, <2>1 DEF ConnectionInv, ConnectionTyped, States
<1>8. StompStatusIsTrue'
  <2>1. ASSUME ~impatient
        PROVE  /\ stompClient = c /\ topics'[c] = Topics
               /\ \A b \in Clients : Busy(b)' => b = c
    <3>1. stompClient = c /\ \A b \in Clients : Busy(b) => b = c
      BY <1>1, <2>1 DEF ConnectionInv, StompStatusIsTrue, Busy
    <3>2. topics' = [topics EXCEPT ![c] = Topics]
      BY <1>1, <1>5, <3>1
    <3>3. \A b \in Clients : Busy(b)' => Busy(b) \/ b = c
      BY <1>2 DEF Busy
    <3> QED
      BY <3>1, <3>2, <3>3 DEF ConnectionInv, ConnectionTyped
  <2> QED
    BY <1>1, <1>2, <1>4, <2>1 DEF StompStatusIsTrue
<1>9. Made'
  BY <1>1, <1>4 DEF Made
<1> QED
  BY <1>3, <1>4, <1>5, <1>7, <1>8, <1>9 DEF ConnectionInv

\* A client is gone, whether the page closed it or lost it.
LEMMA ForgetConnection ==
  ASSUME ConnectionInv, NEW c \in Clients, Busy(c), Forget(c), joined' = FALSE,
         UNCHANGED <<stompClient, impatient>>
  PROVE  ConnectionInv'
<1>1. /\ clients' = [clients EXCEPT ![c] = "closed"]
      /\ topics' = [topics EXCEPT ![c] = {}]
  BY DEF Forget
<1>2. clients'[c] = "closed" /\ \A b \in Clients \ {c} : clients'[b] = clients[b]
  BY <1>1 DEF ConnectionInv, ConnectionTyped
<1>3. ConnectionTyped'
  <2>1. joined' \in BOOLEAN /\ impatient' \in BOOLEAN
    BY DEF ConnectionInv, ConnectionTyped
  <2> QED
    BY <1>1, <2>1 DEF ConnectionInv, ConnectionTyped, States
<1>4. StompStatusIsTrue'
  <2>1. ASSUME ~impatient PROVE c = stompClient /\ \A b \in Clients : ~Busy(b)'
    BY <1>2, <2>1 DEF ConnectionInv, StompStatusIsTrue, Busy
  <2>2. ~impatient => clients'[stompClient] # "connected"
    BY <1>2, <2>1
  <2> QED
    BY <2>1, <2>2 DEF StompStatusIsTrue
<1>5. Made'
  BY <1>1, <1>2 DEF ConnectionInv, Made, Busy
<1> QED
  BY <1>3, <1>4, <1>5 DEF ConnectionInv

----------------------------------------------------------------------------
(* The texts *)

\* What a broadcast makes of the texts, when the clients that are gone, and
\* only they, have no subscriptions.
LEMMA BroadcastTexts ==
  ASSUME TextsInv, NEW to \in SUBSET Topics, Broadcast(to, topics'),
         topics' \in [Clients -> SUBSET Topics], shown' = shown,
         impatient' = impatient,
         \A c \in Clients : ~Busy(c)' => ~Busy(c) /\ topics'[c] = {}
  PROVE  TextsInv'
<1>1. CASE UNCHANGED <<texts, wire>>
  BY <1>1 DEF TextsInv, TextsTyped, SeenOnce, Traced
<1>2. CASE ~UNCHANGED <<texts, wire>>
  <2>1. /\ texts < MaxTexts /\ texts' = texts + 1
        /\ \E topic \in to : wire' = [c \in Clients |->
             wire[c] \cup IF topic \in topics'[c] THEN {<<texts + 1, topic>>} ELSE {}]
    BY <1>2 DEF Broadcast
  <2>2. PICK topic \in to : wire' = [c \in Clients |->
             wire[c] \cup IF topic \in topics'[c] THEN {<<texts + 1, topic>>} ELSE {}]
    BY <2>1
  <2> DEFINE new == <<texts + 1, topic>>
  <2>3. texts \in Nat /\ texts + 1 \in Texts /\ texts + 1 \in 0..MaxTexts
    BY <2>1 DEF TextsInv, TextsTyped, Texts
  <2>4. new \in Texts \X Topics /\ new[1] = texts + 1
    BY <2>3
  <2>5. \A c \in Clients : wire'[c] = wire[c] \/ wire'[c] = wire[c] \cup {new}
    BY <2>2
  <2>6. \A c \in Clients : ~Busy(c)' => wire'[c] = {} /\ topics'[c] = {}
    BY <2>2 DEF TextsInv, Traced
  <2> HIDE DEF new
  <2>7. TextsTyped'
    BY <2>1, <2>2, <2>3, <2>4, <2>5 DEF TextsInv, TextsTyped
  <2>8. \A c \in Clients : \A m \in wire[c] : m[1] \in Texts /\ m[1] <= texts
    BY DEF TextsInv, TextsTyped, Traced
  <2>9. \A c \in Clients : \A m \in wire'[c] : m = new \/ m \in wire[c]
    BY <2>5
  <2>10. shown[texts + 1] = 0
    BY <2>3 DEF TextsInv, Traced
  <2>11. /\ \A n \in Texts : n > texts' => shown'[n] = 0
         /\ \A c \in Clients : \A m \in wire'[c] : m[1] <= texts'
    BY <2>1, <2>3, <2>4, <2>8, <2>9 DEF TextsInv, Traced, Texts
  <2>12. ASSUME ~impatient'
         PROVE  /\ \A c \in Clients : \A m \in wire'[c] : shown'[m[1]] = 0
                /\ \A c \in Clients : \A m, k \in wire'[c] : m[1] = k[1] => m = k
    <3>1. \A c \in Clients : \A m \in wire'[c] : shown'[m[1]] = 0
      BY <2>4, <2>9, <2>10, <2>12 DEF TextsInv, Traced
    <3>2. \A c \in Clients : \A m \in wire[c] : m[1] # new[1]
      BY <2>3, <2>4, <2>8 DEF Texts
    <3>3. ASSUME NEW c \in Clients, NEW m \in wire'[c], NEW k \in wire'[c], m[1] = k[1]
          PROVE  m = k
      BY <2>9, <2>12, <3>2, <3>3 DEF TextsInv, Traced
    <3> QED
      BY <3>1, <3>3
  <2>13. Traced'
    BY <2>6, <2>11, <2>12 DEF Traced
  <2> QED
    BY <2>7, <2>13 DEF TextsInv, SeenOnce
<1> QED
  BY <1>1, <1>2

\* A step of the connection that gives no client up.
LEMMA TextsKept ==
  ASSUME TextsInv, UNCHANGED <<wire, texts, shown, topics>>,
         impatient => impatient',
         impatient \in BOOLEAN, impatient' \in BOOLEAN,
         \A c \in Clients : ~Busy(c)' => ~Busy(c)
  PROVE  TextsInv'
BY DEF TextsInv, TextsTyped, SeenOnce, Traced

\* A client is gone, and what was on its way to it.
LEMMA ForgetTexts ==
  ASSUME TextsInv, ConnectionInv, NEW c \in Clients, Forget(c),
         UNCHANGED <<texts, shown, impatient>>
  PROVE  TextsInv'
<1>1. /\ clients' = [clients EXCEPT ![c] = "closed"]
      /\ topics' = [topics EXCEPT ![c] = {}]
      /\ wire' = [wire EXCEPT ![c] = {}]
  BY DEF Forget
<1>2. /\ topics'[c] = {} /\ wire'[c] = {}
      /\ \A b \in Clients \ {c} : /\ clients'[b] = clients[b] /\ topics'[b] = topics[b]
                                  /\ wire'[b] = wire[b]
  BY <1>1 DEF TextsInv, TextsTyped, ConnectionInv, ConnectionTyped
<1>3. TextsTyped'
  BY <1>1 DEF TextsInv, TextsTyped
<1>4. \A b \in Clients : wire'[b] \subseteq wire[b]
  BY <1>2
<1>5. \A b \in Clients : ~Busy(b)' => topics'[b] = {} /\ wire'[b] = {}
  BY <1>2 DEF TextsInv, Traced, Busy
<1>6. Traced'
  BY <1>4, <1>5 DEF TextsInv, Traced
<1> QED
  BY <1>3, <1>6 DEF TextsInv, SeenOnce

\* A text is received: it was not displayed before, and is on its way to nobody
\* else, as the client it came to is the only one.
LEMMA ReceiveTexts ==
  ASSUME TextsInv, ConnectionInv, NEW c \in Clients, NEW n \in Texts,
         NEW topic \in Topics, Receive(c, n, topic)
  PROVE  TextsInv'
<1> DEFINE m == <<n, topic>>
<1>1. /\ m \in wire[c] /\ wire' = [wire EXCEPT ![c] = @ \ {m}]
      /\ shown' = shown \/ shown' = [shown EXCEPT ![n] = @ + 1]
      /\ UNCHANGED <<clients, stompClient, joined, topics, texts, impatient>>
  BY DEF Receive
<1>2. m[1] = n
  OBVIOUS
<1> HIDE DEF m
<1>3. TextsTyped'
  BY <1>1 DEF TextsInv, TextsTyped
<1>4. /\ \A b \in Clients : wire'[b] \subseteq wire[b]
      /\ wire'[c] = wire[c] \ {m}
  BY <1>1 DEF TextsInv, TextsTyped
<1>5. \A k \in Texts \ {n} : shown'[k] = shown[k]
  BY <1>1 DEF TextsInv, TextsTyped
<1>6. n <= texts
  BY <1>1, <1>2 DEF TextsInv, Traced
<1>7. \A k \in Texts : k > texts => shown'[k] = 0
  BY <1>5, <1>6 DEF TextsInv, TextsTyped, Traced, Texts
<1>8. \A b \in Clients : ~Busy(b)' => topics'[b] = {} /\ wire'[b] = {}
  BY <1>1, <1>4 DEF TextsInv, Traced, Busy
<1>9. ASSUME ~impatient
      PROVE  /\ \A b \in Clients : \A k \in wire'[b] : shown'[k[1]] = 0
             /\ \A b \in Clients : \A k, l \in wire'[b] : k[1] = l[1] => k = l
             /\ \A k \in Texts : shown'[k] <= 1
  <2>1. shown[n] = 0
    BY <1>1, <1>2, <1>9 DEF TextsInv, Traced
  <2>2. Busy(c)
    BY <1>1 DEF TextsInv, Traced
  <2>3. \A b \in Clients : wire'[b] # {} => b = c
    BY <1>8, <1>1, <1>9, <2>2 DEF ConnectionInv, StompStatusIsTrue, Busy
  <2>4. \A k \in wire'[c] : k[1] # n /\ k[1] \in Texts /\ shown[k[1]] = 0
    BY <1>1, <1>2, <1>4, <1>9 DEF TextsInv, TextsTyped, Traced
  <2>5. \A b \in Clients : \A k \in wire'[b] : shown'[k[1]] = 0
    BY <1>5, <2>3, <2>4
  <2>6. \A b \in Clients : \A k, l \in wire'[b] : k[1] = l[1] => k = l
    BY <1>4, <1>9 DEF TextsInv, Traced
  <2>7. shown'[n] <= 1
    BY <1>1, <2>1 DEF TextsInv, TextsTyped
  <2>8. \A k \in Texts : shown'[k] <= 1
    BY <1>5, <1>9, <2>7 DEF TextsInv, SeenOnce
  <2> QED
    BY <2>5, <2>6, <2>8
<1>10. Traced' /\ SeenOnce'
  BY <1>1, <1>4, <1>7, <1>8, <1>9 DEF TextsInv, Traced, SeenOnce
<1> QED
  BY <1>3, <1>10 DEF TextsInv

----------------------------------------------------------------------------
(* Every step *)

\* Somebody speaks: nothing but the texts changes.
LEMMA SpokenKeeps ==
  ASSUME StompInv, NEW to \in SUBSET Topics, Broadcast(to, topics), FilesInv',
         UNCHANGED <<clients, stompClient, joined, topics, shown, impatient>>
  PROVE  StompInv'
<1>1. Broadcast(to, topics')
  BY DEF Broadcast
<1>2. \A c \in Clients : ~Busy(c)' => ~Busy(c) /\ topics'[c] = {}
  BY StompInParts DEF TextsInv, Traced, Busy
<1>3. TextsInv'
  BY <1>1, <1>2, StompInParts, BroadcastTexts DEF ConnectionInv, ConnectionTyped
<1>4. ConnectionInv'
  BY StompInParts, ConnectionKept
<1> QED
  BY <1>3, <1>4, StompInPartsNext

\* Every step keeps the invariant.
LEMMA StompInvNext == StompInv /\ [StompNext]_stomp => StompInv'
<1> SUFFICES ASSUME StompInv, [StompNext]_stomp PROVE StompInv'
  OBVIOUS
<1>1. ConnectionInv /\ TextsInv /\ FilesInv /\ impatient \in BOOLEAN
  BY StompInParts DEF ConnectionInv, ConnectionTyped
<1>2. {"messages"} \in SUBSET Topics /\ Topics \in SUBSET Topics
  BY DEF Topics
<1>3. ASSUME NEW topic \in Topics, Other(topic) PROVE StompInv'
  <2>1. FilesInv'
    BY <1>1, <1>3, FilesKept DEF Other
  <2> QED
    BY <1>3, <2>1, SpokenKeeps DEF Other
<1>4. ASSUME NEW c \in Clients, ConnectStomp(c) PROVE StompInv'
  <2>1. FilesInv' /\ ConnectionInv'
    BY <1>1, <1>4, FilesKept, ConnectConnection DEF ConnectStomp
  <2>2. \A b \in Clients : ~Busy(b)' => ~Busy(b)
    BY <1>1, <1>4 DEF ConnectStomp, ConnectionInv, ConnectionTyped, Busy
  <2>3. impatient' \in BOOLEAN /\ (impatient => impatient')
    BY <1>4 DEF ConnectStomp
  <2>4. TextsInv'
    BY <1>1, <1>4, <2>2, <2>3, TextsKept DEF ConnectStomp
  <2> QED
    BY <2>1, <2>4, StompInPartsNext
<1>5. ASSUME NEW c \in Clients, ClientOpened(c) PROVE StompInv'
  <2>1. FilesInv' /\ ConnectionInv'
    BY <1>1, <1>5, FilesKept, OpenedConnection DEF ClientOpened
  <2>2. \A b \in Clients : ~Busy(b)' => ~Busy(b)
    BY <1>1, <1>5 DEF ClientOpened, ConnectionInv, ConnectionTyped, Busy
  <2>3. TextsInv'
    BY <1>1, <1>5, <2>2, TextsKept DEF ClientOpened
  <2> QED
    BY <2>1, <2>3, StompInPartsNext
<1>6. ASSUME NEW c \in Clients, Connected(c) PROVE StompInv'
  <2>1. FilesInv' /\ ConnectionInv'
    BY <1>1, <1>6, FilesKept, ConnectedConnection DEF Connected
  <2>2. \A b \in Clients : ~Busy(b)' => ~Busy(b)
    BY <1>1, <1>6 DEF Connected, ConnectionInv, ConnectionTyped, Busy
  <2>3. \/ topics' = topics
        \/ /\ stompClient \in Clients /\ Busy(stompClient)
           /\ topics' = [topics EXCEPT ![stompClient] = Topics]
    BY <1>1, <1>6, ConnectedConnection
  <2>4. \A b \in Clients : ~Busy(b)' => topics'[b] = {}
    BY <1>1, <2>2, <2>3 DEF TextsInv, Traced, ConnectionInv, ConnectionTyped
  <2>5. topics' \in [Clients -> SUBSET Topics]
    BY <2>1 DEF ConnectionInv, ConnectionTyped
  <2>6. shown' = shown /\ impatient' = impatient
    BY <1>6 DEF Connected
  <2>7. ASSUME Broadcast(Topics, topics') PROVE TextsInv'
    <3>1. \A b \in Clients : ~Busy(b)' => ~Busy(b) /\ topics'[b] = {}
      BY <2>2, <2>4
    <3> QED
      BY <1>1, <1>2, <2>5, <2>6, <2>7, <3>1, BroadcastTexts
  <2>8. ASSUME UNCHANGED <<topics, texts, wire>> PROVE TextsInv'
    <3>1. (impatient => impatient') /\ impatient' \in BOOLEAN
      BY <1>1, <2>6
    <3>2. UNCHANGED <<wire, texts, shown, topics>>
      BY <2>6, <2>8
    <3> QED
      BY <1>1, <2>2, <3>1, <3>2, TextsKept
  <2>9. Subscribe
    BY <1>6 DEF Connected
  <2>10. Broadcast(Topics, topics') \/ UNCHANGED <<topics, texts, wire>>
    BY <2>9 DEF Subscribe
  <2>11. TextsInv'
    BY <2>7, <2>8, <2>10
  <2> QED
    BY <2>1, <2>11, StompInPartsNext
<1>7. ASSUME NEW c \in Clients, Lost(c) PROVE StompInv'
  <2>1. Busy(c) /\ Forget(c) /\ joined' = FALSE
        /\ UNCHANGED <<stompClient, texts, shown, impatient, files>>
    BY <1>7 DEF Lost, Displayed
  <2>2. FilesInv' /\ ConnectionInv' /\ TextsInv'
    BY <1>1, <2>1, FilesKept, ForgetConnection, ForgetTexts
  <2> QED
    BY <2>2, StompInPartsNext
<1>8. CASE DisconnectStomp
  <2>1. stompClient \in Clients
    BY <1>1, <1>8 DEF DisconnectStomp, ConnectionInv, ConnectionTyped, Clients
  <2>2. Busy(stompClient) /\ Forget(stompClient) /\ joined' = FALSE
        /\ UNCHANGED <<stompClient, texts, shown, impatient, files>>
    BY <1>8 DEF DisconnectStomp, Busy
  <2>3. FilesInv' /\ ConnectionInv' /\ TextsInv'
    BY <1>1, <2>1, <2>2, FilesKept, ForgetConnection, ForgetTexts
  <2> QED
    BY <2>3, StompInPartsNext
<1>9. CASE SendText
  <2>1. FilesInv'
    BY <1>1, <1>9, FilesKept DEF SendText
  <2> QED
    BY <1>2, <1>9, <2>1, SpokenKeeps DEF SendText
<1>10. ASSUME NEW c \in Clients, NEW n \in Texts, NEW topic \in Topics,
              Receive(c, n, topic)
       PROVE  StompInv'
  <2>1. FilesInv' /\ ConnectionInv' /\ TextsInv'
    BY <1>1, <1>10, FilesKept, ConnectionKept, ReceiveTexts DEF Receive
  <2> QED
    BY <2>1, StompInPartsNext
<1>11. ASSUME NEW size \in 0..MaxChunks, Pick(size) PROVE StompInv'
  BY <1>1, <1>2, <1>11, PickFiles, SpokenKeeps DEF Pick
<1>12. CASE Loaded
  <2>1. FilesInv'
    BY <1>1, <1>12, LoadedFiles
  <2>2. Broadcast({"messages"}, topics)
    BY <1>12 DEF Loaded, Broadcast
  <2> QED
    BY <1>2, <1>12, <2>1, <2>2, SpokenKeeps DEF Loaded
<1>13. CASE UNCHANGED stomp
  <2>1. FilesInv' /\ ConnectionInv'
    BY <1>1, <1>13, FilesKept, ConnectionKept DEF stomp, files
  <2>2. TextsInv'
    BY <1>1, <1>13, TextsKept DEF stomp, Busy
  <2> QED
    BY <2>1, <2>2, StompInPartsNext
<1> QED
  BY <1>3, <1>4, <1>5, <1>6, <1>7, <1>8, <1>9, <1>10, <1>11, <1>12, <1>13 DEF StompNext

\* The strengthened invariant holds in every state.
THEOREM StompInvHolds == StompSpec => []StompInv
BY StompInvInit, StompInvNext, PTL DEF StompSpec

\* Every variable of the page has the type StompPage says.
THEOREM StompTyped == StompSpec => []StompTypeOK
BY StompInvHolds, PTL DEF StompInv

\* What the page displays of the connection is the state of its newest client.
THEOREM StompStatusTrue == StompSpec => []StompStatusIsTrue
BY StompInvHolds, PTL DEF StompInv

\* No text is displayed twice.
THEOREM TextsSeenOnce == StompSpec => []SeenOnce
BY StompInvHolds, PTL DEF StompInv

\* No upload over STOMP gets beyond its first chunk.
THEOREM UploadsStall == StompSpec => []UploadStalls
BY StompInvHolds, PTL DEF StompInv
=============================================================================
