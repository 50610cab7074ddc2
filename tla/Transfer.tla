------------------------------ MODULE Transfer ------------------------------
(***************************************************************************)
(* websocket_custom.js, the chat page that sends files, against the upload *)
(* side of ChatRoomWebSocketHandler (ChatUpload), over connections that    *)
(* keep the order of the frames of each direction.                         *)
(*                                                                         *)
(* A page cuts the picked file into chunks, reads one with a FileReader,   *)
(* sends it when it is read, and goes on when the server acknowledges it;  *)
(* after the last chunk it says COMPLETE and waits for the audit.  Nothing *)
(* stops the user from picking another file meanwhile: the page has one    *)
(* this.file and one this.offset, and every acknowledgement moves on       *)
(* whatever they are by then.                                              *)
(***************************************************************************)
EXTENDS Naturals, Sequences, SequencesExt

CONSTANTS Channels, Names, Requests, FileOf, NoName, NoFile, Directory,
          MaxUploads,  \* bound: files picked
          MaxChunks,   \* bound: chunks of a file
          BigSize,
          Hasty        \* the pages whose user picks a file while one is under way

\* What ChatUpload assumes.
ASSUME TransferAssumption ==
  /\ MaxUploads \in Nat /\ MaxChunks \in Nat /\ BigSize \in Nat
  /\ NoName \notin Names
  /\ FileOf \in [Requests -> Names]
  /\ Requests \cap Nat = {}
  /\ NoFile \notin Nat \cup Requests
  /\ Directory \notin Nat \cup Requests \cup {NoFile}

VARIABLES
  open, fileName, current, uploads, dir, content, http,  \* of ChatUpload
  picked,   \* the files given to apiSendFile, in that order
  page,     \* this.file, this.offset, and this.fileMimeType and its like
  reading,  \* the FileReaders of each page that have not called onload
  up, down, \* the frames under way to the server and to the page
  stored,   \* history: the chunks each upload of ChatUpload consists of
  shown     \* history: the blobs each page rendered, each with the label it used

handler == <<open, fileName, current, uploads, dir, content, http>>
client  == <<picked, page, reading>>
vars    == <<handler, client, up, down, stored, shown>>

Server == INSTANCE ChatUpload

----------------------------------------------------------------------------
(* Types *)

Files == 1..MaxUploads

\* Chunk k of a picked file.
Chunk == [file : Files, k : 0..(MaxChunks - 1)]

\* A label is the upload whose FILE frame came last; 0 after apiSendFile.
Label == 0..MaxUploads

UpFrame == [kind : {"start"}, name : Names] \cup [kind : {"chunk"}, chunk : Chunk]
           \cup [kind : {"complete"}]

DownFrame == [kind : {"received", "audited"}]
             \cup [kind : {"file", "blob"}, upload : Files]

TypeOK ==
  /\ Server!TypeOK
  /\ picked \in Seq([by : Channels, name : Names, size : 0..MaxChunks])
  /\ page \in [Channels ->
       [file : 0..Len(picked), offset : Nat, label : Label]]
  /\ reading \in [Channels -> Seq(Chunk)]
  /\ up \in [Channels -> Seq(UpFrame)]
  /\ down \in [Channels -> Seq(DownFrame)]
  /\ stored \in [Files -> Seq(Chunk)]
  /\ shown \in [Channels -> SUBSET [upload : Files, label : Label]]

Init ==
  /\ Server!Init
  /\ picked = << >>
  /\ page = [c \in Channels |-> [file |-> 0, offset |-> 0, label |-> 0]]
  /\ reading = [c \in Channels |-> << >>]
  /\ up = [c \in Channels |-> << >>]
  /\ down = [c \in Channels |-> << >>]
  /\ stored = [i \in Files |-> << >>]
  /\ shown = [c \in Channels |-> {}]

----------------------------------------------------------------------------
(* The page *)

\* Mutants: the last chunk is taken for the end; the end is overlooked.
AllSentEarly(p) == p.offset + 1 >= picked'[p.file].size
AllSentLate(p) == p.offset > picked'[p.file].size

\* this.offset >= this.file.size
AllSent(p) == p.offset >= picked'[p.file].size

\* utilSendNextChunk, on page p: a COMPLETE frame after the frames `first`, or
\* a reader on the next slice.
SendNext(c, p, first) ==
  IF AllSent(p)
  THEN /\ up' = [up EXCEPT ![c] = @ \o first \o <<[kind |-> "complete"]>>]
       /\ UNCHANGED reading
  ELSE /\ up' = [up EXCEPT ![c] = @ \o first]
       /\ reading' = [reading EXCEPT ![c] =
                        Append(@, [file |-> p.file, k |-> p.offset])]

\* The file input is enabled as long as the page is connected.
MayPick(c) == c \in open /\ (c \in Hasty \/ page[c].file = 0)

\* apiSendFile
Pick(c, n, size) ==
  LET p == [file |-> Len(picked) + 1, offset |-> 0, label |-> 0]
  IN  /\ MayPick(c)
      /\ Len(picked) < MaxUploads
      /\ picked' = Append(picked, [by |-> c, name |-> n, size |-> size])
      /\ page' = [page EXCEPT ![c] = p]
      /\ SendNext(c, p, <<[kind |-> "start", name |-> n]>>)
      /\ UNCHANGED <<handler, down, stored, shown>>

\* Mutant: the file is over when its last chunk is sent.
AfterLoadFinished(p) ==
  IF p.offset + 1 >= picked[p.file].size
  THEN [p EXCEPT !.file = 0, !.offset = 0] ELSE [p EXCEPT !.offset = @ + 1]

\* this.offset += this.CHUNK_SIZE
AfterLoad(p) == [p EXCEPT !.offset = @ + 1]

\* Mutant: the next slice is read before the last one is acknowledged.
ReadersLeftNext(c, r) ==
  IF page[c].offset + 1 < picked[page[c].file].size
  THEN [reading[c] EXCEPT ![r].k = page[c].offset + 1] ELSE RemoveAt(reading[c], r)

\* The readers of page c when its r-th has called onload.
ReadersLeft(c, r) == RemoveAt(reading[c], r)

\* reader.onload: readers of one page may finish in any order.
Loaded(c) == \E r \in DOMAIN reading[c] :
  /\ c \in open
  /\ up' = [up EXCEPT ![c] = Append(@, [kind |-> "chunk", chunk |-> reading[c][r]])]
  /\ page' = [page EXCEPT ![c] = AfterLoad(@)]
  /\ reading' = [reading EXCEPT ![c] = ReadersLeft(c, r)]
  /\ UNCHANGED <<handler, picked, down, stored, shown>>

\* The next frame of page c is of that kind, and is taken.
PageReads(c, kind) ==
  /\ c \in open
  /\ down[c] # << >> /\ Head(down[c]).kind = kind
  /\ down' = [down EXCEPT ![c] = Tail(@)]
  /\ UNCHANGED <<handler, picked, stored>>

\* UPLOAD_SERVER_RECEIVED_CHUNK; with no this.file the handler throws.
ReadReceived(c) ==
  /\ PageReads(c, "received")
  /\ IF page[c].file = 0 THEN UNCHANGED <<up, reading>> ELSE SendNext(c, page[c], << >>)
  /\ UNCHANGED <<page, shown>>

\* Mutant: the file is kept.
FinishedKept(p) == [p EXCEPT !.offset = 0]

\* onFileUploaded
Finished(p) == [p EXCEPT !.file = 0, !.offset = 0]

\* UPLOAD_SERVER_AUDIT_COMPLETE
ReadAudited(c) ==
  /\ PageReads(c, "audited")
  /\ page' = [page EXCEPT ![c] = Finished(@)]
  /\ UNCHANGED <<reading, up, shown>>

\* FILE: what the next blob is taken for.
ReadFile(c) ==
  /\ PageReads(c, "file")
  /\ page' = [page EXCEPT ![c].label = Head(down[c]).upload]
  /\ UNCHANGED <<reading, up, shown>>

\* onBlobResponse
ReadBlob(c) ==
  /\ PageReads(c, "blob")
  /\ shown' = [shown EXCEPT ![c] =
                 @ \cup {[upload |-> Head(down[c]).upload, label |-> page[c].label]}]
  /\ UNCHANGED <<page, reading, up>>

----------------------------------------------------------------------------
(* The event loop of a channel *)

\* The next frame of channel c is of that kind, and is taken.
ServerReads(c, kind) ==
  /\ up[c] # << >> /\ Head(up[c]).kind = kind
  /\ up' = [up EXCEPT ![c] = Tail(@)]
  /\ UNCHANGED <<client, shown>>

ReadStart(c) ==
  /\ ServerReads(c, "start")
  /\ Server!Start(c, Head(up[c]).name)
  /\ UNCHANGED <<down, stored>>

\* A chunk is written and acknowledged.
ReadChunk(c) ==
  /\ ServerReads(c, "chunk")
  /\ Server!FirstChunk(c) \/ Server!NextChunk(c)
  /\ stored' = [stored EXCEPT ![current'[c]] = Append(@, Head(up[c]).chunk)]
  /\ down' = [down EXCEPT ![c] = Append(@, [kind |-> "received"])]

ReadComplete(c) ==
  /\ ServerReads(c, "complete")
  /\ IF current[c] = 0 THEN UNCHANGED handler ELSE Server!Complete(c)
  /\ UNCHANGED <<down, stored>>

\* Both ends forget what was under way.
Cut(c) ==
  /\ up' = [up EXCEPT ![c] = << >>]
  /\ down' = [down EXCEPT ![c] = << >>]
  /\ reading' = [reading EXCEPT ![c] = << >>]
  /\ UNCHANGED <<picked, page, stored, shown>>

\* A chunk that begins no file: the exception closes the channel.
RefuseChunk(c) ==
  /\ up[c] # << >> /\ Head(up[c]).kind = "chunk"
  /\ Server!RefuseFirstChunk(c)
  /\ Cut(c)

\* The page or the network goes away, or the user disconnects.
Disconnect(c) == Server!Disconnect(c) /\ Cut(c)

----------------------------------------------------------------------------
(* The task of a received file; every page is in the room it answers to *)

\* The frame goes to the open channels among C.
Send(C, frame) ==
  /\ down' = [c \in Channels |->
                IF c \in C \cap open THEN Append(down[c], frame) ELSE down[c]]
  /\ UNCHANGED <<client, up, stored, shown>>

Audit(i)    == Server!Audit(i)    /\ Send({uploads[i].by}, [kind |-> "audited"])
Announce(i) == Server!Announce(i) /\ Send(Channels, [kind |-> "file", upload |-> i])
Cast(i)     == Server!Cast(i) /\
  Send(IF Server!Small(uploads[i].name) THEN Channels ELSE {}, [kind |-> "blob", upload |-> i])
Delete(i)   == Server!Delete(i) /\ UNCHANGED <<client, up, down, stored, shown>>

Page(c)  == Loaded(c) \/ ReadReceived(c) \/ ReadAudited(c) \/ ReadFile(c) \/ ReadBlob(c)
Event(c) == ReadStart(c) \/ ReadChunk(c) \/ ReadComplete(c) \/ RefuseChunk(c)
Task(i)  == i \in DOMAIN uploads /\ (Audit(i) \/ Announce(i) \/ Cast(i) \/ Delete(i))

Next ==
  \/ \E c \in Channels :
       \/ \E n \in Names, size \in 0..MaxChunks : Pick(c, n, size)
       \/ Page(c) \/ Event(c) \/ Disconnect(c)
  \/ \E i \in Files : Task(i)

Spec == Init /\ [][Next]_vars

\* Event loops on both sides and the executor of the tasks go on; nobody has
\* to pick a file or to disconnect.
Fairness ==
  /\ \A c \in Channels : WF_vars(Page(c)) /\ WF_vars(Event(c))
  /\ \A i \in Files : WF_vars(Task(i))

LiveSpec == Spec /\ Fairness

----------------------------------------------------------------------------
(* What the page keeps true for a user who waits for one file to end before *)
(* picking the next                                                         *)

\* Where frames of that kind are in the queue q.
Positions(q, kind) == {k \in DOMAIN q : q[k].kind = kind}

\* The chunks of page c that the server has not acknowledged to it: on their way,
\* or with the acknowledgement on its way back.
Unacknowledged(c) ==
  {<<"up", k>> : k \in Positions(up[c], "chunk")}
    \cup {<<"down", k>> : k \in Positions(down[c], "received")}

InFlight(c) == Unacknowledged(c) \cup {<<"reading", k>> : k \in DOMAIN reading[c]}

AtMostOne(S) == \A x, y \in S : x = y

\* utilSendNextChunk and its back pressure: of a patient page at most one chunk
\* is being read, sent, written or acknowledged at any time.
BackPressure == \A c \in Channels \ Hasty : AtMostOne(InFlight(c))

\* onTextResponse uses this.file for every acknowledgement: none reaches a
\* patient page that has no file, or another file than the acknowledged one.
AcksMeetTheirFile ==
  \A c \in Channels \ Hasty :
    Positions(down[c], "received") # {} =>
      current[c] # 0 /\ Last(stored[current[c]]).file = page[c].file

\* The upload that began with a chunk of file s.
UploadOf(s) == {i \in Files : stored[i] # << >> /\ stored[i][1].file = s}

\* How many chunks of file s the server has, in order, under the picked name;
\* too many when they are not that.
Got(s) ==
  IF UploadOf(s) = {} THEN 0
  ELSE LET i == CHOOSE i \in UploadOf(s) : TRUE
       IN  IF /\ uploads[i].name = picked[s].name
              /\ stored[i] = [k \in DOMAIN stored[i] |-> [file |-> s, k |-> k - 1]]
           THEN Len(stored[i]) ELSE MaxChunks + 1

State(s) ==
  IF page[picked[s].by].file # s THEN "told"
  ELSE IF \E i \in UploadOf(s) : uploads[i].stage # "writing" THEN "delivered"
  ELSE IF picked[s].by \in open THEN "sending" ELSE "cut off"

\* The files of patient pages.
Patient == {s \in DOMAIN picked : picked[s].by \notin Hasty}

Delivery == INSTANCE FileDelivery WITH Numbers <- Files, files <-
  [s \in Patient |->
     [by |-> picked[s].by, size |-> picked[s].size, got |-> Got(s), state |-> State(s)]]

\* Patient page and handler together keep the promise of FileDelivery: whole, in
\* order, told after the fact, one file at a time, whatever hasty pages do.
DeliversInOrder == Delivery!Spec

\* The patient user of file s, which is not empty, is still waiting to be told.
Waiting(s) ==
  /\ s \in DOMAIN picked /\ picked[s].by \notin Hasty
  /\ picked[s].size > 0
  /\ picked[s].by \in open
  /\ page[picked[s].by].file = s
  /\ \A i \in UploadOf(s) : uploads[i].stage # "lost"

\* Every file that is not empty ends with the user told, unless the connection
\* goes, or somebody removed the file before the server looked for it.
EveryUploadEnds == \A s \in Files : Waiting(s) ~> ~Waiting(s)

----------------------------------------------------------------------------
(* What comments promise and the code does not keep *)

\* "The backend finished writing this 1MB, and the frontend is only now sending
\* the next block": one chunk of a page is not acknowledged, whenever the user picks.
AlwaysBackPressure == \A c \in Channels : AtMostOne(Unacknowledged(c))

\* onBlobResponse renders a blob "according to the file type": its own.
RenderedAsItself == \A c \in Channels : \A b \in shown[c] : b.label = b.upload
=============================================================================
