# A verification development for jExpressDemoApp

jExpressDemoApp is a demonstration server on the jExpress framework (Netty, Guice, gRPC, Quartz)
with a browser client. Its own logic, as opposed to the framework's, lives in two chat rooms over
WebSocket, the uploads that share a directory with them, and the scripts of the web page. This
directory holds TLA+ modules translated from that code, TLC configurations that check them on small
instances, and TLAPS proofs that hold for instances of every size.

Paths below are relative to `src/`. `J` is `DemoApp/src/main/java/org/jexpress/demoapp`, `S` is
`DemoApp/run/standalone_prod/docroot/web-resources/scripts`, `G` is
`DemoApp-gRPCClient/src/main/java/org/jexpress/demo/grpc`.

## 1. Inventory

| part | state it keeps | operations | what is hard |
|---|---|---|---|
| chat room, rooms and messages: `J/controller/websocket/ChatRoomWebSocketHandler.java`, `_Custom.java` | `rooms` (a ChannelGroup each); attributes of a channel: caller, current room | handlerAdded, CONNECT, SUBSCRIBE, UNSUBSCRIBE, SEND, DISCONNECT; tasks on the business executor | event loops, virtual-thread tasks and asynchronous authentication interleave; tasks read the room later than the frame came |
| chat room, files: same file | attributes: file name, file, stream, size; files on disk | START, binary and continuation frames, COMPLETE; the task that audits, broadcasts and deletes | paths shared by all users; truncation, deletion and mapping of a file others use; leaked streams |
| HTTP upload: `J/controller/web/HttpFileUploadHandler.java` | files on disk | onFileUploaded | `mkdirs` and move in the directory of the chat uploads |
| STOMP chat room: `ChatRoomWebSocketHandler_STOMP.java` | `rooms`, `roomSubscriptions`, `messageIdSeq` | SUBSCRIBE, UNSUBSCRIBE, SEND, DISCONNECT, channelInactive | two maps changed one after the other while other event loops walk them |
| browser, chat client: `S/websocket_custom.js` | the socket, one file, one offset, one set of file metadata | connect, disconnect, send, upload, the answers of the server | overlapping uploads, reads from disk that end late, reconnects |
| browser, STOMP client: `S/websocket_stomp.js` | the same | the same | the server acknowledges no upload |
| browser, upload page: `S/fileupload.js` | selection, tasks, requests in flight | select, remove, upload, cancel, clear | events of tasks that were cleared |
| browser, session and views: `S/app.js` | appState of a tab, localStorage of all tabs; the divider of two panes | start, login, logout, navigation; drag and reset | tabs that do not see each other's writes, answers that come late, limits that contradict each other |
| browser, feature pages: `S/feature2.js`, `feature3.js`, `feature4.js` | form, request, PDF and images displayed; one reference shared by four buttons | submit, edit, reset; ping, version, health check, status, mock | two waits in each handler, during which anything else may be clicked; card numbers |
| browser, helpers: `S/utils.js` | overlays, keyboard listeners, blob URLs | show and close | what outlives the display it belongs to |
| health: `J/integration/healthcheck`, `RestController.mockHealthCheckError` | mocked error codes | ping of each checker, mock, inspection | a change against an inspection under way |
| gRPC clients: `J/integration/grpc/client`, `G` | stub, channel, lazily created agent | connect, ping, hello, bizFunction | unsynchronised creation, one call without the lock |
| gRPC and REST services, business services, HTTP client, MQTT, life cycle, data objects | none that outlives a call | | nothing a model checker would find interesting |

How they interact. The browser reaches the chat rooms over one WebSocket per tab, with a one time
token it gets by HTTP; the framework resolves the token to a caller asynchronously and stores it as
an attribute of the channel. The chat handler gives work to a business executor (a virtual thread
per task); the STOMP handler does everything on event loops. Chat uploads and HTTP uploads meet in
`<temp upload dir>/<caller id>/<file name>`, and `MyAuthenticator` gives every user the caller id 456,
so the path is the file name. Failed gRPC calls ask the health monitor for an inspection, whose
outcome gates REST operations.

What makes each part correct:

- *rooms and messages*: a room holds only live, authenticated channels; nobody else hears anything;
  the attribute that routes a SEND names a room its channel is in; members hear broadcasts; a
  connection that never authenticates is closed.
- *files*: what is announced and broadcast is what the client sent, unless somebody else used the
  path meanwhile; no COMPLETE goes unanswered; no stream is forgotten; a broadcast file goes off
  the disk.
- *STOMP room*: the two maps agree; a dead connection leaves nothing behind; message ids are unique;
  subscribers hear what a publisher sends, in order.
- *chat client with its server*: one chunk under way at a time; COMPLETE after the last chunk; every
  upload ends; a file is shown under its own name.
- *connection of both chat pages*: the status line, which enables and disables every control, is that of
  the connection; no text is displayed twice; Disconnect ends in a page that is disconnected.
- *upload page*: an item shows the outcome of its own request; what shows as going on can be cancelled; no item
  goes on for ever.
- *session*: a tab shows the login form or the user whose token it holds; appState and localStorage agree; a token that
  was logged out is not picked up again.
- *feature pages*: one request at a time; an answer goes to the display of its own call; every button comes back; no URL
  or listener is left behind; a wrong digit in a card number is found.
- *health, gRPC*: see the plan.

## 2. Modules

| module | models | extended by |
|---|---|---|
| `ChatRoom` | rooms and messages of the chat handler | `MCChatRoom`, `ChatRoomProofs` |
| `ChatUpload` | files of the chat handler, and HTTP uploads as far as they meet them | `MCChatUpload`, `ChatUploadProofs`; instantiated by `Transfer` |
| `StompRoom` | the STOMP handler | `MCStompRoom`, `StompRoomProofs` |
| `Transfer` | the chat page `S/websocket_custom.js` composed with an instance of `ChatUpload` | `MCTransfer`, `TransferProofs` |
| `FileDelivery` | abstract: what page and handler together promise a user who sends files | implemented by `Transfer` |
| `Session` | login, logout and views of `S/app.js`, in several tabs | `SessionProofs`; part of `MCPages` |
| `UploadPage` | `S/fileupload.js` | `RequestProofs`; part of `MCPages` |
| `ChatConnection` | the connection of `S/websocket_custom.js` | `ConnectionProofs`; part of `MCPages` |
| `StompPage` | `S/websocket_stomp.js` against stomp.js and the broker | `ConnectionProofs`; part of `MCPages` |
| `CardNumber`, `CardSlip`, `PaymentForm` | `S/feature2.js` | `RequestProofs` (the form), `PagesProofs` (the card number); parts of `MCPages` |
| `AdminCalls` | `S/feature3.js`, `S/feature4.js` | `RequestProofs`; part of `MCPages` |
| `SplitPane`, `Lightbox` | the divider of `S/app.js`; media and overlays of `S/utils.js` | parts of `MCPages`; proved in `PagesProofs` |
| `MCPages` | the pages side by side | `PagesProofs` |
| `PageParameters` | the constants of the page models and what is assumed of them | all of them |

Definitions whose comment begins with "Mutant:" are not part of a model. Each is a variant of the
definition after it with a plausible slip in it, and exists to show that a property notices the slip.

### ChatRoom

| TLA+ | code |
|---|---|
| `conn` | the connection: `closing` is a close asked for by another thread and not yet done |
| `caller` | attribute USER_ID_KEY is set |
| `unchecked` | the task of handlerAdded has not run |
| `roomAttr`, `members` | ROOM_ID_KEY; `rooms` |
| `pendingOp` | processSubscribe between `attr(ROOM_ID_KEY).set` and the change of the group |
| `tasks`, `got` | tasks of the business executor with the walk each is on; which messages each channel was written |

processSubscribe takes two steps, `SetRoomAttr` and `ChangeGroup`, since SEND tasks read the attribute
and walk the group from other threads. A task takes a step to pick its room (`StartTask`) and one for
each channel of the group (`WriteTo`, `SkipGone`). `MayVisit` lets a walk that has not ended visit a
channel that joined meanwhile, or not: that is what iterating a ConcurrentHashMap promises. `StartTask` reads the room (line 145) and starts the walk
(line 391) in one step: a channel that joins in between is like one that joins during the walk (`MayVisit`), one that leaves like one that leaves during it.

Left out: the text of messages; frames that do not parse, carry another status or name no room, which
answer ERROR to their sender and change nothing. `_Custom`'s hooks always return a text, so every task broadcasts.

### ChatUpload

`fileName` and `current` are the attributes of a channel, `dir` and `content` the disk: a path leads to an
inode, an inode holds chunks, and a chunk is the number of the upload that wrote it. Streams
hold on to the inode, so a deleted or replaced file goes on growing where nobody finds it. `uploads` records the
life of each upload, from first chunk to the end of its task: `Audit`, `Announce` (onFileReceived and
the FILE frame), `Cast` (length, map, binary frame), `Delete`. `Prepare` and `Move` are the two file
operations of the HTTP handler. The code has no `disturbed`, which remembers that
somebody else opened, wrote, replaced or deleted the path or the inode of a live upload: the properties say what
holds of an upload nobody disturbed, and the run `upload_lossless` what goes wrong with one.

Decisions: reading the size and writing at it (lines 291-292) is one step, as is opening with truncation and the first write; `Files.move` is
one step, and `Cast` takes the length, opens, maps and writes in one (lines 407-436), so that a truncation between the length and the mapping is
not in the model; `Close` is the part that every end of a connection has in common, by an exception or by the client; auditReceivedFile returns null and nothing overrides it, so the branch of AUDIT_FAILED is not reachable;
the room of a broadcast is ChatRoom's business and does not appear here.

### StompRoom

Each channel's event loop has its program counter in `work`: between the two halves of subscribe (`put`), walking
a room (`walk`), or taking its channel out of rooms (`leave`). A walk looks up the id of a
subscription and draws a message id in one step (`Look`) and writes the frame in another (`WriteFrame`).
A channel that is `closed` may still handle frames that were read before, until `channelInactive`;
Netty takes it out of every group when it closes. Destinations are abstracted to what
normalizeDestination tells apart: none, one that begins with `/app/`, another. Ids are numbers: the handler's
ids are `sub-1`, `sub-2`, and so are those of the usual client library, so that the two can
coincide. CONNECT and receipts only answer the sender and are left out.

### Transfer and FileDelivery

`Transfer` instantiates `ChatUpload` as `Server` and adds the page (`page`: this.file, this.offset and the type and name
of the last FILE frame; `reading`: the FileReaders that have not called onload) and a FIFO queue of
frames in each direction. A step of the server takes the head of `up`, makes a step of `ChatUpload` and puts the answer
in `down`; a step of the page takes the head of `down`. The tasks of `ChatUpload` write to all
pages, since every page subscribes to room 888 before it does anything else. `Disconnect` stands for a lost connection, for the
page going away and for the Disconnect button: what is under way in both directions is lost.

`Hasty` names the pages whose user picks a file while one is under way, which the code allows. The
others wait for "You can select another file", which is when the page has no file. `picked`, `stored` and `shown` are histories:
the files picked, the chunks each server-side upload consists of, the blobs rendered and their labels.

`FileDelivery` knows only files: how many chunks the server has, and whether the file is being sent, delivered, told of or cut
off. The refinement mapping takes the files of patient pages, and counts a server-side upload's chunks only if they are those of one picked file, in order and under its
name; `told` means that the page has let go of the file.

### Session

`app[t]` and `view[t]`, `menu[t]`, `drawer[t]` belong to a tab, `storage` to all. The five keys of localStorage are
set, and removed, together by one task of the event loop, so they are one value: a token and whom it names. `Become` is what initializeApp, handleLogin
and handleLogout have in common. A handler that waits for the server is two steps (`SubmitLogin`; `LoggedIn` or `LoginFailed`).
handleLogout sends the DELETE and replaces the page at once, so that the request may be lost (`DeleteLost`).
The code has no `foreign`: it remembers that another tab has written localStorage since this one did or read it. `InSync` says
what holds without; with it, a tab goes on acting for the user it displays while its chat and its forms act for another.

### UploadPage

A request and its list item have one number. The page knows only task ids: the events of a request look up
`appState.uploadTasks`, whose entries Clear All and Logout remove and whose ids start again from 0 after a logout. `Settle` is completeTask and
failTask, which throw if the task is gone. `Cancel` contains the abort event that `abort()` fires before it returns.
`ResetUploadState` and `Reload` are two steps: until the new page is there, the old one may be logged in to again.

### ChatConnection and StompPage

Both pages keep one client and make a new one with each Connect; their callbacks use the newest one, not the one they were registered with.
Connect stays enabled until a connection is up, so there may be several attempts at once: `hurried` and `impatient`
remember that, and the properties say what holds of a user who waits and what holds of everyone. In `ChatConnection`, the close of
one of two sockets sets `this.ws` to null while the other may be open and "Connected": Connect is disabled then, and
Disconnect does nothing. The one time token is fetched by a synchronous request, in which no event comes.

`StompPage` includes as much of stomp.js (external) and of the broker as the page can tell: a client is opening, open, connected or closed; the
broker keeps one subscription of a channel to a topic and takes everything sent to `/app/...` for a chat message of one topic, the frames
of an upload included. `texts` and `shown` follow the way of a bounded number of its texts, any of all.
The page that `S/app.js:496-500` creates is the one of `ChatConnection`; the line for STOMP is commented out there.

### CardNumber and PaymentForm

`CardNumber` is the card check alone, which `CardSlip` puts to numbers with one slip of the user, a wrong digit or two that are swapped; a text is a sequence of digits, blanks, hyphens and others. handleFeature2Submit is
`Refuse`, or `Submit`, `PaymentResponded` (the head of the answer) and `PaymentBody` or `PaymentFailed`; `Edit`, `Blur`, `ResetForm` and `CloseModal` come in between as they like.
Answers are abstracted to what the code branches on: with or without PDF, null fields, a list of errors, a message, no JSON. A null PDF is
decoded as the text "null" and displayed, and null images throw.

### AdminCalls

The handlers of ping, version, health check and status are one set of actions, for a button `b`; those in `NoBody` (status)
do not read the body of the answer. Button `SetMock` is feature 4, which keeps its reference to itself. `good` remembers which calls succeeded: an answer with a status
of success puts a call in, an exception while its body is read takes it out again.

### SplitPane and Lightbox

`SplitPane` has the limits of updatePaneSizes in pixels, the ratio 0.8 as four fifths. `Lightbox` has the media a
chat may show and the overlays opened from them, with their listeners on the document.

## 3. Runs

| run | instance | shows |
|---|---|---|
| `chatroom` | 2 clients, 2 rooms, 3 tasks; 1.3 million states | safety of rooms and messages |
| `chatroom_live` | the same with 2 tasks, no symmetry | members hear; a connection without a caller is closed |
| `chatroom_named` | 2 clients, 2 rooms | expected violation: SEND ignores the room it names |
| `upload` | 2 clients, 2 names, 1 HTTP upload, 2 uploads of at most 3 chunks; 670 thousand states | safety of files nobody disturbs |
| `upload_lossless` | 1 client, 1 name | expected violation: a client that repeats a name damages its first file |
| `stomp` | 2 clients, 3 rooms, 2 SUBSCRIBE or SEND frames; 810 thousand states | the STOMP room |
| `transfer` | a patient and a hasty page, 1 name, 2 files of at most 2 chunks; 330 thousand states | for the patient user `Transfer` implements `FileDelivery`; one chunk at a time; uploads end |
| `transfer_hasty` | 1 hasty page | expected violation: two chunks under way |
| `transfer_label` | 2 pages | expected violation: a blob rendered as another file |
| `pages` | the nine parts of the pages, see below; 64 thousand states | the pages, safety and liveness |
| `pages_reference` | the same | expected violation: a call that succeeds displays the reference of one that failed |
| `pages_errors` | the same | expected violation: an error mark that is not cleared |

Bounds. `MaxTasks`, `MaxUploads`, `MaxChunks`, `MaxFrames` bound how often clients act; nothing else is
bounded. Two clients are enough for every race of the properties, which relate one channel to one other
actor; two tasks are enough for a walk under way while another starts, three allow a join, a send and a
leave of one client. `BigSize` equals `MaxChunks`, so that files are both below and at the limit of
FIVE_MB. Two frames are enough for two clients to subscribe and walk the room at once, or one to subscribe and send. UNSUBSCRIBE, DISCONNECT, closes and
restarts of a walk are not bounded. In `transfer` both pages send the same name, the hard case: their files meet on the disk, and
one page's upload may find its file deleted. Two chunks make a first one, which opens the file, and a last one, which is acknowledged and
followed by COMPLETE; an empty file is possible too. Deadlock is not checked: clients may fall silent and everything may stop.

The parts of the pages share no variable, and every property is about one part, except where `MCPages` joins two of one kind by a conjunction. A behaviour of their product violates
such a property only if its projection to that part does. `MCPages` therefore checks their sum: the variable `part` picks one part in the initial
state, and only that one moves. 2 tabs, 2 users and 3 tokens let a tab log in, the other log in and out, and the first again. 2 requests and 3
files, two of them alike, let ids be used twice. 3 sockets, or clients, are two attempts at once and one after. 2 orders and 3 calls are one that fails after one
that succeeds, with a third under way. Card numbers have 13, 16 and 19 digits, each with every check digit. The containers are narrower
than one minimum, between one and two, at both limits to the pixel, and wide.

Fairness of `ChatRoom`: weak fairness of every task's steps, of the task of handlerAdded, of a requested
close and of the second half of processSubscribe. The executor starts a virtual thread for each task and nothing in a task
waits; an event loop runs to the end of a handler. Clients, the OTT handler and
the network are not assumed to do anything.

Fairness of `Transfer`: weak fairness of each page's event loop (frames that arrived, readers that finished), of each
channel's event loop and of each task. Nobody has to pick a file. The network delivers what it does not cut.

Fairness of the pages: the browser settles the promise of each request, by an answer or by an error
(`Session`, `UploadPage`, `PaymentForm`, `AdminCalls`), and the server closes a connection that asks for it (`ChatConnection`). Users do nothing they need not
do. `StompPage`, `SplitPane` and `Lightbox` have safety properties only.

Findings:

1. `chatroom_named`: the format that the handler's error reply teaches clients (line 73, used in line 231)
   has a `num` with the room; SEND (lines 143-156) uses ROOM_ID_KEY and never looks at it.
2. `upload_lossless`: onFileReceived is documented as the hook "after successful lossless transfer and
   disk write" (line 381). The client is told AUDIT_COMPLETE (line 337) before the hook looks at the file;
   if it uploads the same name again, line 184 truncates the file first.
3. `transfer_hasty`: line 203 of `S/websocket_custom.js` says the next chunk goes out only when the last one is
   on the server's disk. That holds of a user who waits (`BackPressure`); a file picked during an upload starts a second chain.
4. `transfer_label`: line 253 says a blob is rendered according to its type. The page uses the type and the name set last, which
   another upload's FILE frame or the page's own next upload may have set.
5. `pages_reference`: `S/utils.js:36-37` says of updateXReference that it takes "whether the operation was successful" and "the reference ID".
   The handlers of feature 3 (line 70) pair the success of their own call with a variable that another call may have written while they waited for
   their body: ping gets its answer, status fails and leaves its reference, and ping displays that one in the colour of success. (After an exception,
   line 76 displays the reference of whichever call last had one; `ReferenceMatches` does not count this, since the variable is named for it.)
6. `pages_errors`: line 69 of `S/feature2.js` says "Clear previous errors"; the marks of the greeting and of the list stay until the form is reset.

## 4. Proofs

Eight modules hold proofs: `ChatRoomProofs` and `StompRoomProofs` for the rooms, `ChatUploadProofs` and `TransferProofs`
for the files, `SessionProofs`, `RequestProofs` and `ConnectionProofs` for the pages, and `PagesProofs` for the pages together.
Every safety property that a passing run checks is a theorem, the refinement included.

`ChatRoomProofs` proves, for any finite or infinite sets of channels and rooms and any bound on tasks,
that `Spec` implies `[]TypeOK`, `[]MembersAreLive`, `[]OnlyCallersHear`, `[]CurrentRoomJoined` and
`[]StayerHearsItself`. The only assumptions are those of `ChatRoomAssumption`: the default room and
the rooms frames name are rooms, and "no room" is none.

None of the properties is inductive. The invariant `Inv` adds four facts. `IdleIsFresh` and `PendingIsLive`
say that a half-done SUBSCRIBE belongs to a live caller and has set the attribute already; without them
`ChangeGroup` could put a dead channel into a room or break `CurrentRoomJoined`. `TasksOfCallers` says who
tasks come from and whom they visit; `OnlyCallersHear` needs it, and it needs `MembersAreLive`. `OwedIsDue`
says that a channel still owed a message sits in the room the message goes to and, once the walk has begun,
among those it has to visit: hence a walk that has ended owes nothing, which is `StayerHearsItself`. The proof goes
in layers, `TypeStep`, `RoomStep` (rooms and attributes) and `TaskStep` (tasks), each with a step for each action.
TLC checks the parts of `Inv` too while the model is changed.

`StompRoomProofs` proves `[]TypeOK`, `[]MapsAgree`, `[]NoGhosts`, `[]MessageIdsUnique`, `[]SubscribersHear` and
`[]PublisherOrder` for any channels, rooms and ids and any number of frames, from `StompRoomAssumption` only. Its invariant
has three parts besides the types:

- `MapInv`: the group of a room and its map of subscriptions may differ on a channel only at the room of a `put` or a `leave`
  its own loop is in the middle of, or because Netty took a closed channel out of the group. `MapsAgree` and `NoGhosts` are what
  is left of it between two frames.
- `OwedInv`: a channel that a walk owes its message is still to be visited, in the group and subscribed. So a walk passes over no
  channel it owes, and one that has ended owes nothing, which is `SubscribersHear`. It needs `MapInv` where a
  subscription ends.
- `FrameInv`: the ids and numbers written so far are below the counters, no id was written twice, and a walk under way
  (`Fresh`) is later than all its publisher has written, with a frame whose id nobody else has or has written. Without `Fresh`
  nothing says that the frame a loop drew some steps ago still has an id of its own, now that other loops have drawn and written.

`ChatUploadProofs` proves the six invariants of `ChatUpload` for any channels, names, HTTP requests and numbers, from
`ChatUploadAssumption` (the bounds are numbers; requests and the other things a path may lead to are not). Its invariant:

- `StreamsOwned`: the upload that the attributes of a channel hold is its own and not over. This and `NoOrphanStream` need each other: a
  stream is forgotten only if the attributes come to hold another one.
- `DiskInv`: an inode that a path leads to or an upload has was created before, and has one path at most. So the inode of the next upload is new,
  and deleting or replacing by one path touches the file of no other.
- `SoundInv`: of each undisturbed upload by itself, the client has been told the right size; until the broadcast is over, its path leads to its inode (`Intact`), which holds its
  chunks in order; and `Delivered` says, stage by stage, what the hook and the room have. The lemmas under it show, action by action, that one which could break
  this of another channel's upload marks that upload as disturbed.

`TransferProofs` proves the invariants of `Transfer` and that it implements `FileDelivery`, from `TransferAssumption` alone, for any number of pages, patient or hasty. It goes in four steps.

1. `PagesMeetTheHandler`: `Spec => Server!Spec`. Frames on a wire only restrict when the handler acts, so a step of `Transfer` is a step of `ChatUpload` or none, and the invariant of `ChatUploadProofs` holds here
   without being proved again.
2. `WiresOK` and `Owned` hold of every page, hasty ones too: types; what is under way on a page's wires is of files picked on it; an upload consists of chunks that its own page picked.
3. `InPhase`: a connected patient page is in one of five phases. `Idle`: it has no file, and nothing of it is under way. `Empty`: its file has no chunks, so that the server never hears of it. `Beginning`: START and the
   first chunk are in the reader or on the wire. `Sending`: the server has the first m chunks, and exactly one thing is under way, the reader or the frame of chunk m, its acknowledgement,
   or COMPLETE. `Delivered`: the upload is over, and AUDIT_COMPLETE is on its way unless the task has yet to send it. `BackPressure` and `AcksMeetTheirFile` only count what is under way; neither is inductive, for neither
   says which chunk it is, nor how far the server has come. `PhaseKept` shows that steps of other pages and tasks leave the phase of a page alone, since they leave its wires and its uploads alone.
4. The refinement: `Seen` lemmas say what each action does to the mapped variables. A picked file is offered; the first and every next chunk add one to what the server has (`FirstChunkSeen`, `NextChunkSeen`); COMPLETE
   delivers (`DeliverSeen`, which needs from `Sending` that COMPLETE follows the last chunk); AUDIT_COMPLETE tells (`TellSeen`); a lost connection cuts off what was being sent (`CutOffSeen`). All other steps stutter. `DeliveryStep` puts them together into `DeliversFiles`.

The pages are proved for any sets of tabs, users, views, files, buttons and cards and any bounds, from the named assumptions of
`PageParameters`. The invariant of each part is its properties with what they lack to be inductive:

- `SessionInv`: `SessionTypeOK`, `WhoIsShown`, `InSync`, `StoredIsLive`. `Issued` says that every token that is stored, held, being deleted or revoked
  was issued; so the next one is none of them, and a login that is answered late cannot bring back a token that was logged out.
- `UploadInv`: `UploadTypeOK`, `OwnOutcome`, `Cancellable`. `Linked` ties the map to the list: an entry of the map has an
  id below the counter, its request was made and has that id, and every item in the list has its entry. With it an event finds its own item,
  a newer one of the same id, or nothing.
- `PaymentInv`: `PaymentTypeOK`, `OneAtATime`, `UrlsOwned`, inductive together.
- `AdminInv`: `AdminTypeOK`, `AnswerIsOwn`, `LocalReferenceMatches`; `Numbered` says that the calls under way have numbers of their own, none
  above the number of calls placed, and none that feature 4 displays already.
- `ChatInv`: `ChatTypeOK`, `StatusIsTrue`, which is inductive as it stands: each of its four parts needs the others.
- `StompInv`: `StompTypeOK`, `StompStatusIsTrue`, `SeenOnce`, `UploadStalls`. `Made` says that the page holds a client as soon as one was made;
  `Counted` that offset and readers together are at most the uploads started; `Traced` that only texts which were broadcast are shown or under way, that clients
  which are not in use have no subscriptions, and that, for a patient user, a text under way is not displayed yet and comes once.
- `SplitInv`: `PanesFit` with the types. The proof is the arithmetic of two limits of which the upper one wins: with room for two minima, four fifths
  rounded down are never below a fifth rounded up nor below the minimum.
- `SlipsAreSeen`, the action property of `CardSlip`, needs no invariant but the type, and facts about the sum that `CardNumber` defines by recursion. An induction rule
  cannot be cited here, since it has an operator as a parameter; that a non-empty set of natural numbers has a least element can (`LeastNat`, from the well-founded order of the
  library), and does the same: look at the least index where a claim fails. So sums exist and are unique (`SumsExist`, `SumsUnique`), `Luhn` is one (`LuhnIsSum`), and two numbers that differ in one or two neighbouring
  digits have checksums that differ by what those digits weigh (`SumsDiffer`, `LuhnDiffers`). The rest is arithmetic: doubling keeps digits apart, and moves a digit by
  between -4 and 4, equally far for two different digits only if they are 0 and 9 (`Doubling`).
- `LightboxInv`: `KeysOwned`; `OneOverlay` says that there is one overlay at most, since it covers what opens another. Without that a new overlay
  could replace one whose listener stays.

`PagesProofs` then shows that a behaviour of `MCPages` is one of each part (`PartsBehave`), so that what is proved of a part holds of all of them, `MCPages`' own conjunctions included.

Only model-checked: the liveness properties `MembersHear`, `NoSquatter`, `EveryUploadEnds`, `Settles`, `ButtonsComeBack` (TLAPS does no
liveness under fairness here).

## 5. Assumptions about code that is not in the repository

- Netty: the frames of a channel are handled one at a time, in order, by its event loop; a closed channel leaves every
  ChannelGroup; iterating a group visits every channel that stays in it, once (ChatRoom), and is otherwise
  free; frames written by one thread to one channel are sent in order. In ChatRoom a closed
  channel handles no more frames; StompRoom does not assume it.
- jExpress: the OTT handler sets the caller at some time or never; the business executor runs every task.
- The file system: a path leads to an inode, open streams keep it, deleting or replacing changes the path only. The server does not run on Windows (`IS_WINDOWS`).
- The browser: handlers run one after the other, and one that awaits continues in a later task; XMLHttpRequest fires progress events before one load, error or abort event;
  `abort()` fires the abort event before it returns; a closed WebSocket discards what is sent, one that is connecting throws; localStorage is shared by tabs and
  read by this code only when a page loads and when a request is made.
- stomp.js: CONNECT goes out when the socket opens; disconnect takes its onclose handler back, closes the socket and calls back at once; a socket that closes calls the error callback.
- The server answers every request of the pages with a reference (X-Reference); only requests that fail have none.

## 6. Not modelled

Listed with reasons under `components` in `PROJECT.json`. In short:

- services without state (gRPC and REST services, business services, HTTP client, MQTT), data objects, PDF layout, and everything the framework does itself;
- of the pages: texts, icons, sizes, thumbnails and highlights; the eye that shows a password; the expanding submenus of the narrow layout;
- code of the pages that nothing reaches: in `S/utils.js` getOTTAsync, getWsUrl, getToken, attachForDownload, the base64 video and audio displays, buildVideoDiv_v2 with its overlay
  and buildPdfDiv_v1; in `S/websocket_stomp.js` onWebSocketClose and onWebSocketError, which are registered nowhere, and onTextResponse and onBlobResponse, which need a body the broker never sends;
- the blob URLs of received chat files: one is made for each file and none is ever revoked, which no comment promises, so there is no property;
- a FileReader that ends after the page has connected again: `Transfer` ends with a connection, `ChatConnection` has no files;
- the reports under `loadtest/jmeter`: generated by JMeter, with the chart libraries it copies.

## 7. Plan

In this order:

1. An abstract room, a set of members and what each is owed, which `ChatRoom` and `StompRoom` both implement: it would say in one place what
   `StayerHearsItself`, `SubscribersHear` and `PublisherOrder` say of each.
2. `Transfer` composed with `ChatConnection`: a page whose reader ends on the next connection. The proofs about `Transfer` know
   one connection for each page; the phases of `TransferProofs` would have to hold of each connection.
3. `GrpcAgent` and `HealthGate`: creation and replacement of channels against calls; mocked health against inspections.
