--------------------------- MODULE TransferProofs ---------------------------
(***************************************************************************)
(* Proofs about Transfer, for any pages and any number and size of files:  *)
(* it is typed, its server is ChatUpload, and the pages whose user waits   *)
(* for one file before picking the next are served as FileDelivery says.   *)
(***************************************************************************)
EXTENDS Transfer, SequenceTheorems, TLAPS

USE TransferAssumption

\* What is proved of the server.
SP == INSTANCE ChatUploadProofs

----------------------------------------------------------------------------
(* The inductive invariant *)

PickedFile == [by : Channels, name : Names, size : 0..MaxChunks]

\* TypeOK without the server's part.
WiresOK ==
  /\ picked \in Seq(PickedFile)
  /\ page \in [Channels ->
       [file : 0..Len(picked), offset : Nat, label : Label]]
  /\ reading \in [Channels -> Seq(Chunk)]
  /\ up \in [Channels -> Seq(UpFrame)]
  /\ down \in [Channels -> Seq(DownFrame)]
  /\ stored \in [Files -> Seq(Chunk)]
  /\ shown \in [Channels -> SUBSET [upload : Files, label : Label]]

\* File s was picked on page c.
PickedBy(s, c) == s \in DOMAIN picked /\ picked[s].by = c

\* What is under way is of files of the page it is under way from, and nothing
\* is when the connection is gone.
OwnWire(c) ==
  /\ page[c].file # 0 => PickedBy(page[c].file, c)
  /\ \A r \in DOMAIN reading[c] : PickedBy(reading[c][r].file, c)
  /\ \A k \in DOMAIN up[c] : up[c][k].kind = "chunk" => PickedBy(up[c][k].chunk.file, c)
  /\ c \notin open =>
       up[c] = << >> /\ down[c] = << >> /\ reading[c] = << >> /\ current[c] = 0

\* An upload consists of chunks, the first of which is of a file of its channel.
OwnUploads ==
  /\ \A i \in Files : stored[i] # << >> <=> i \in DOMAIN uploads
  /\ \A i \in DOMAIN uploads : PickedBy(stored[i][1].file, uploads[i].by)

Owned == Len(picked) <= MaxUploads /\ (\A c \in Channels : OwnWire(c)) /\ OwnUploads

\* No frame of that kind is in q; one is.
None(q, kind) == \A k \in DOMAIN q : q[k].kind # kind
One(q, kind) == \E k \in DOMAIN q :
  q[k].kind = kind /\ \A j \in DOMAIN q : q[j].kind = kind => j = k

\* The task of upload i has answered, or upload i gets no answer.
Settled(i) == uploads[i].stage \notin {"writing", "received"}

\* Nothing of channel c is open at the server, except upload e.
OnlyOpen(c, e) == \A i \in DOMAIN uploads : uploads[i].by = c /\ i # e => Settled(i)

\* Upload i is of file s and is its page's; it is the only one of file s.
IsUpload(i, s) ==
  /\ i \in DOMAIN uploads /\ uploads[i].by = picked[s].by
  /\ \A j \in Files : stored[j] # << >> /\ stored[j][1].file = s <=> j = i

\* File s has reached the server in no part.
Unsent(s) == \A j \in Files : stored[j] # << >> => stored[j][1].file # s

\* Upload i consists of the first chunks of file s, in order.
InOrder(i, s) ==
  /\ uploads[i].name = picked[s].name
  /\ stored[i] = [k \in DOMAIN stored[i] |-> [file |-> s, k |-> k - 1]]

StartOf(s)    == [kind |-> "start", name |-> picked[s].name]
ChunkOf(s, k) == [kind |-> "chunk", chunk |-> [file |-> s, k |-> k]]
CompleteFrame == [kind |-> "complete"]
Reader(s, k)  == [file |-> s, k |-> k]

\* Page c sends nothing and waits for no acknowledgement.
Silent(c) == up[c] = << >> /\ reading[c] = << >> /\ None(down[c], "received")

\* Page c has no file.
Idle(c) ==
  /\ page[c].file = 0 /\ page[c].offset = 0
  /\ current[c] = 0 /\ OnlyOpen(c, 0)
  /\ Silent(c) /\ None(down[c], "audited")

\* Page c has an empty file, which the server never hears of.
Empty(c) ==
  /\ page[c].file # 0 /\ page[c].offset = 0 /\ picked[page[c].file].size = 0
  /\ current[c] = 0 /\ OnlyOpen(c, 0) /\ Unsent(page[c].file)
  /\ reading[c] = << >> /\ None(down[c], "received") /\ None(down[c], "audited")
  /\ up[c] \in {<<StartOf(page[c].file), CompleteFrame>>, <<CompleteFrame>>, << >>}

\* The first chunk of the file of page c is read or under way.
Beginning(c) ==
  LET s == page[c].file
      o == page[c].offset
  IN  /\ s # 0 /\ picked[s].size > 0
      /\ current[c] = 0 /\ OnlyOpen(c, 0) /\ Unsent(s)
      /\ None(down[c], "received") /\ None(down[c], "audited")
      /\ \/ o = 0 /\ reading[c] = <<Reader(s, 0)>>
            /\ (up[c] = <<StartOf(s)>> \/ (up[c] = << >> /\ fileName[c] = picked[s].name))
         \/ o = 1 /\ reading[c] = << >>
            /\ \/ up[c] = <<StartOf(s), ChunkOf(s, 0)>>
               \/ up[c] = <<ChunkOf(s, 0)>> /\ fileName[c] = picked[s].name

\* The server has begun the file of page c.  What it does not have is read,
\* sent, or not asked for before the acknowledgement arrives.
Sending(c) ==
  LET s == page[c].file
      o == page[c].offset
      i == current[c]
      m == Len(stored[i])
  IN  /\ s # 0 /\ i # 0 /\ IsUpload(i, s) /\ InOrder(i, s)
      /\ uploads[i].stage = "writing" /\ OnlyOpen(c, i)
      /\ None(down[c], "audited")
      /\ \/ /\ up[c] = << >> /\ reading[c] = <<Reader(s, m)>>
            /\ o = m /\ m < picked[s].size /\ None(down[c], "received")
         \/ /\ up[c] = <<ChunkOf(s, m)>> /\ reading[c] = << >>
            /\ o = m + 1 /\ m < picked[s].size /\ None(down[c], "received")
         \/ /\ up[c] = << >> /\ reading[c] = << >>
            /\ o = m /\ m <= picked[s].size /\ One(down[c], "received")
         \/ /\ up[c] = <<CompleteFrame>> /\ reading[c] = << >>
            /\ o = m /\ m = picked[s].size /\ None(down[c], "received")

\* The server has the file of page c; the answer is under way once it is audited.
Delivered(c) ==
  LET s == page[c].file
  IN  /\ s # 0 /\ current[c] = 0 /\ Silent(c)
      /\ \E i \in Files :
           /\ IsUpload(i, s) /\ OnlyOpen(c, i)
           /\ uploads[i].stage # "writing"
           /\ IF uploads[i].stage \in {"received", "lost"}
              THEN None(down[c], "audited") ELSE One(down[c], "audited")

Phase(c) == Idle(c) \/ Empty(c) \/ Beginning(c) \/ Sending(c) \/ Delivered(c)

\* A connected patient page is in one of the phases.
InPhase == \A c \in open \ Hasty : Phase(c)

Inv == SP!Inv /\ WiresOK /\ Owned /\ InPhase

----------------------------------------------------------------------------
(* The server is ChatUpload *)

\* Transfer and the proofs about ChatUpload speak of the same actions.
LEMMA SameFrames ==
  ASSUME NEW c \in Channels
  PROVE  /\ \A n : Server!Start(c, n) <=> SP!Start(c, n)
         /\ Server!RefuseFirstChunk(c) <=> SP!RefuseFirstChunk(c)
         /\ Server!FirstChunk(c) <=> SP!FirstChunk(c)
         /\ Server!NextChunk(c) <=> SP!NextChunk(c)
         /\ Server!Complete(c) <=> SP!Complete(c)
         /\ Server!Disconnect(c) <=> SP!Disconnect(c)
<1>1. \A n : Server!Start(c, n) <=> SP!Start(c, n)
  BY DEF Server!Start, SP!Start
<1>2. Server!Close(c) <=> SP!Close(c)
  BY DEF Server!Close, SP!Close
<1>3. Server!BetweenFiles(c) <=> SP!BetweenFiles(c)
  BY DEF Server!BetweenFiles, SP!BetweenFiles
<1>4. \A i, S : Server!Disturb(i, S) = SP!Disturb(i, S)
  BY DEF Server!Disturb, SP!Disturb, Server!Live, SP!Live
<1>5. /\ \A n : Server!OnPath(n) = SP!OnPath(n)
      /\ \A x : Server!OnInode(x) = SP!OnInode(x)
      /\ \A n, i : Server!Opened(n, i) = SP!Opened(n, i)
      /\ \A x, i : Server!FirstBytes(x, i) = SP!FirstBytes(x, i)
      /\ \A n : Server!StageOfReceived(n) = SP!StageOfReceived(n)
  BY DEF Server!OnPath, SP!OnPath, Server!OnInode, SP!OnInode, Server!Opened, SP!Opened,
         Server!FirstBytes, SP!FirstBytes, Server!StageOfReceived, SP!StageOfReceived
<1>6. Server!FirstChunk(c) <=> SP!FirstChunk(c)
  BY <1>3, <1>4, <1>5 DEF Server!FirstChunk, SP!FirstChunk
<1>7. \A i : Server!Write(i) <=> SP!Write(i)
  BY <1>4, <1>5 DEF Server!Write, SP!Write
<1>8. Server!RefuseFirstChunk(c) <=> SP!RefuseFirstChunk(c)
  BY <1>2, <1>3 DEF Server!RefuseFirstChunk, SP!RefuseFirstChunk
<1>9. Server!NextChunk(c) <=> SP!NextChunk(c)
  BY <1>7 DEF Server!NextChunk, SP!NextChunk
<1>10. Server!Complete(c) <=> SP!Complete(c)
  BY <1>5 DEF Server!Complete, SP!Complete
<1>11. Server!Disconnect(c) <=> SP!Disconnect(c)
  BY <1>2 DEF Server!Disconnect, SP!Disconnect
<1> QED
  BY <1>1, <1>6, <1>8, <1>9, <1>10, <1>11

\* The same of the steps of a task.
LEMMA SameTasks ==
  ASSUME NEW i
  PROVE  /\ Server!Audit(i) <=> SP!Audit(i)
         /\ Server!Announce(i) <=> SP!Announce(i)
         /\ Server!Cast(i) <=> SP!Cast(i)
         /\ Server!Delete(i) <=> SP!Delete(i)
<1>1. Server!Inodes = SP!Inodes
  BY DEF Server!Inodes, SP!Inodes
<1>2. \A n : Server!Read(n) = SP!Read(n)
  BY <1>1 DEF Server!Read, SP!Read
<1>3. \A n : Server!Small(n) <=> SP!Small(n)
  BY <1>1, <1>2 DEF Server!Small, SP!Small
<1>4. \A j, S : Server!Disturb(j, S) = SP!Disturb(j, S)
  BY DEF Server!Disturb, SP!Disturb, Server!Live, SP!Live
<1>5. \A n : Server!OnPath(n) = SP!OnPath(n)
  BY DEF Server!OnPath, SP!OnPath
<1>6. Server!Audit(i) <=> SP!Audit(i)
  BY DEF Server!Audit, SP!Audit
<1>7. Server!Announce(i) <=> SP!Announce(i)
  BY <1>2 DEF Server!Announce, SP!Announce
<1>8. Server!Cast(i) <=> SP!Cast(i)
  BY <1>2, <1>3 DEF Server!Cast, SP!Cast
<1>9. Server!Delete(i) <=> SP!Delete(i)
  BY <1>4, <1>5 DEF Server!Delete, SP!Delete
<1> QED
  BY <1>6, <1>7, <1>8, <1>9

\* The same of the types and of the initial states.
LEMMA SameTypes ==
  /\ Server!TypeOK <=> SP!TypeOK
  /\ Server!Init <=> SP!Init
  /\ Server!vars = handler /\ SP!vars = handler
<1>1. Server!Inodes = SP!Inodes
  BY DEF Server!Inodes, SP!Inodes
<1>2. Server!Bytes = SP!Bytes
  BY <1>1 DEF Server!Bytes, SP!Bytes
<1>3. Server!Upload = SP!Upload
  BY <1>1, <1>2 DEF Server!Upload, SP!Upload
<1>4. Server!TypeOK <=> SP!TypeOK
  BY <1>1, <1>2, <1>3 DEF Server!TypeOK, SP!TypeOK
<1>5. Server!Init <=> SP!Init
  BY <1>1 DEF Server!Init, SP!Init
<1> QED
  BY <1>4, <1>5 DEF Server!vars, SP!vars, handler

\* What the types say of the frames.
LEMMA FrameFacts ==
  ASSUME WiresOK, NEW c \in Channels
  PROVE  /\ up[c] # << >> =>
              /\ Head(up[c]) \in UpFrame
              /\ Head(up[c]).kind = "start" => Head(up[c]).name \in Names
              /\ Head(up[c]).kind = "chunk" => Head(up[c]).chunk \in Chunk
         /\ down[c] # << >> =>
              /\ Head(down[c]) \in DownFrame
              /\ Head(down[c]).kind \in {"file", "blob"} => Head(down[c]).upload \in Files
<1>1. \A f \in UpFrame : /\ f.kind = "start" => f.name \in Names
                         /\ f.kind = "chunk" => f.chunk \in Chunk
  BY DEF UpFrame
<1>2. \A f \in DownFrame : f.kind \in {"file", "blob"} => f.upload \in Files
  BY DEF DownFrame
<1>3. up[c] \in Seq(UpFrame) /\ down[c] \in Seq(DownFrame)
  BY DEF WiresOK
<1>4. up[c] # << >> => Head(up[c]) \in UpFrame
  BY <1>3, HeadTailProperties
<1>5. down[c] # << >> => Head(down[c]) \in DownFrame
  BY <1>3, HeadTailProperties
<1> QED
  BY <1>1, <1>2, <1>4, <1>5

\* A step of Transfer is a step of ChatUpload, or none.
LEMMA ServerStep ==
  ASSUME WiresOK, [Next]_vars
  PROVE  [Server!Next]_(Server!vars) /\ [SP!Next]_(SP!vars)
<1> SUFFICES [Server!Next]_handler /\ [SP!Next]_handler
  BY DEF Server!vars, SP!vars, handler
<1>1. ASSUME NEW c \in Channels, Event(c) \/ Disconnect(c)
      PROVE  [Server!Next]_handler /\ [SP!Next]_handler
  <2>1. ASSUME ReadStart(c) PROVE [Server!Next]_handler /\ [SP!Next]_handler
    <3>1. Server!Start(c, Head(up[c]).name) /\ Head(up[c]).name \in Names
      BY <2>1, FrameFacts DEF ReadStart, ServerReads
    <3>2. SP!Start(c, Head(up[c]).name)
      BY <3>1, SameFrames
    <3> QED
      BY <3>1, <3>2 DEF Server!Next, SP!Next
  <2>2. ASSUME ReadChunk(c) PROVE [Server!Next]_handler /\ [SP!Next]_handler
    <3>1. Server!FirstChunk(c) \/ Server!NextChunk(c)
      BY <2>2 DEF ReadChunk
    <3>2. SP!FirstChunk(c) \/ SP!NextChunk(c)
      BY <3>1, SameFrames
    <3> QED
      BY <3>1, <3>2 DEF Server!Next, SP!Next
  <2>3. ASSUME ReadComplete(c) PROVE [Server!Next]_handler /\ [SP!Next]_handler
    <3>1. Server!Complete(c) \/ UNCHANGED handler
      BY <2>3 DEF ReadComplete
    <3>2. SP!Complete(c) \/ UNCHANGED handler
      BY <3>1, SameFrames
    <3> QED
      BY <3>1, <3>2 DEF Server!Next, SP!Next
  <2>4. ASSUME RefuseChunk(c) PROVE [Server!Next]_handler /\ [SP!Next]_handler
    <3>1. Server!RefuseFirstChunk(c) /\ SP!RefuseFirstChunk(c)
      BY <2>4, SameFrames DEF RefuseChunk
    <3> QED
      BY <3>1 DEF Server!Next, SP!Next
  <2>5. ASSUME Disconnect(c) PROVE [Server!Next]_handler /\ [SP!Next]_handler
    <3>1. Server!Disconnect(c) /\ SP!Disconnect(c)
      BY <2>5, SameFrames DEF Disconnect
    <3> QED
      BY <3>1 DEF Server!Next, SP!Next
  <2> QED
    BY <1>1, <2>1, <2>2, <2>3, <2>4, <2>5 DEF Event
<1>2. ASSUME NEW i \in Files, Task(i) PROVE [Server!Next]_handler /\ [SP!Next]_handler
  <2>1. i \in DOMAIN uploads
    BY <1>2 DEF Task
  <2>2. Server!Audit(i) \/ Server!Announce(i) \/ Server!Cast(i) \/ Server!Delete(i)
    BY <1>2 DEF Task, Audit, Announce, Cast, Delete
  <2>3. SP!Audit(i) \/ SP!Announce(i) \/ SP!Cast(i) \/ SP!Delete(i)
    BY <2>2, SameTasks
  <2> QED
    BY <2>1, <2>2, <2>3 DEF Server!Next, SP!Next
<1>3. ASSUME NEW c \in Channels, Page(c) PROVE UNCHANGED handler
  BY <1>3 DEF Page, Loaded, ReadReceived, ReadAudited, ReadFile, ReadBlob, PageReads
<1>4. ASSUME NEW c \in Channels, NEW n \in Names, NEW size \in 0..MaxChunks, Pick(c, n, size)
      PROVE  UNCHANGED handler
  BY <1>4 DEF Pick
<1>5. CASE UNCHANGED vars
  BY <1>5 DEF vars
<1> QED
  BY <1>1, <1>2, <1>3, <1>4, <1>5 DEF Next

\* A step keeps whose upload j is, its name and its stage.
Same(j) ==
  /\ uploads'[j].by = uploads[j].by /\ uploads'[j].name = uploads[j].name
  /\ uploads'[j].stage = uploads[j].stage

\* Number of the upload that comes next.
NextNo == Len(uploads) + 1

\* What begins with a first chunk.
Begins(c) ==
  /\ c \in open /\ current[c] = 0 /\ fileName[c] \in Names
  /\ NextNo \in Files /\ NextNo # 0 /\ NextNo \notin DOMAIN uploads
  /\ fileName' = [fileName EXCEPT ![c] = NoName]
  /\ current' = [current EXCEPT ![c] = NextNo]
  /\ open' = open
  /\ DOMAIN uploads' = DOMAIN uploads \cup {NextNo}
  /\ \A j \in DOMAIN uploads : Same(j)
  /\ uploads'[NextNo].by = c /\ uploads'[NextNo].name = fileName[c]
  /\ uploads'[NextNo].stage = "writing"

\* What of a first chunk matters to the pages.
LEMMA FirstChunkDoes ==
  ASSUME SP!Inv, NEW c \in Channels, Server!FirstChunk(c)
  PROVE  Begins(c)
<1>1. SP!TypeOK /\ SP!UploadsBounded
  BY DEF SP!Inv
<1>2. SP!FirstChunk(c)
  BY SameFrames
<1>3. PICK n \in Names, x \in SP!Inodes : SP!Begins(c, n, x)
  BY <1>1, <1>2, SP!FirstChunkFacts
<1>4. Len(uploads) \in Nat /\ DOMAIN uploads = 1..Len(uploads)
  BY <1>1, SP!UploadFacts
<1>5. /\ DOMAIN uploads' = 1..(Len(uploads) + 1)
      /\ NextNo \in 1..MaxUploads
      /\ uploads'[NextNo].by = c /\ uploads'[NextNo].name = n
      /\ uploads'[NextNo].stage = "writing"
  BY <1>3, <1>4 DEF SP!Begins, SP!NextNo, NextNo
<1>6. \A j \in DOMAIN uploads : Same(j)
  BY <1>3 DEF SP!Begins, SP!Kept, Same
<1>7. DOMAIN uploads' = DOMAIN uploads \cup {NextNo} /\ NextNo \notin DOMAIN uploads
  BY <1>4, <1>5 DEF NextNo
<1> QED
  BY <1>3, <1>4, <1>5, <1>6, <1>7 DEF SP!Begins, Begins, SP!NextNo, NextNo, Files

\* Upload i is at stage st after a step that touches no attribute of a channel.
Proceeds(i, st) ==
  /\ UNCHANGED <<open, fileName>>
  /\ DOMAIN uploads' = DOMAIN uploads
  /\ \A j \in DOMAIN uploads : j # i => Same(j)
  /\ uploads'[i].by = uploads[i].by /\ uploads'[i].name = uploads[i].name
  /\ uploads'[i].stage = st

\* What the attributes of the channels hold.
LEMMA CurrentFacts ==
  ASSUME SP!Inv, NEW c \in Channels, current[c] # 0
  PROVE  /\ current[c] \in DOMAIN uploads /\ current[c] \in Files
         /\ uploads[current[c]].by = c /\ uploads[current[c]].stage = "writing"
<1>1. SP!TypeOK /\ SP!UploadsBounded /\ SP!StreamsOwned
  BY DEF SP!Inv
<1>2. Len(uploads) \in Nat /\ DOMAIN uploads = 1..Len(uploads)
  BY <1>1, SP!UploadFacts
<1>3. current[c] \in DOMAIN uploads
  BY <1>1 DEF SP!TypeOK
<1> QED
  BY <1>1, <1>2, <1>3 DEF SP!UploadsBounded, SP!StreamsOwned, Files

\* Uploads are numbered as the files are.
LEMMA DomainFacts ==
  ASSUME SP!Inv
  PROVE  DOMAIN uploads \subseteq Files /\ 0 \notin DOMAIN uploads /\ open \subseteq Channels
<1>1. SP!TypeOK /\ SP!UploadsBounded
  BY DEF SP!Inv
<1>2. Len(uploads) \in Nat /\ DOMAIN uploads = 1..Len(uploads)
  BY <1>1, SP!UploadFacts
<1> QED
  BY <1>1, <1>2 DEF SP!TypeOK, SP!UploadsBounded, Files

\* What of a further chunk matters to the pages.
LEMMA NextChunkDoes ==
  ASSUME SP!Inv, NEW c \in Channels, Server!NextChunk(c)
  PROVE  /\ c \in open /\ current[c] # 0
         /\ UNCHANGED <<open, fileName, current>>
         /\ DOMAIN uploads' = DOMAIN uploads
         /\ \A j \in DOMAIN uploads : Same(j)
<1>1. SP!TypeOK
  BY DEF SP!Inv
<1>2. /\ c \in open /\ current[c] # 0
      /\ SP!Write(current[c])
      /\ UNCHANGED <<open, fileName, current, dir, http>>
  BY SameFrames DEF SP!NextChunk
<1>3. current[c] \in DOMAIN uploads
  BY <1>2, CurrentFacts
<1> DEFINE i == current[c]
<1>4. /\ DOMAIN uploads' = DOMAIN uploads
      /\ uploads'[i].by = uploads[i].by /\ uploads'[i].name = uploads[i].name
      /\ uploads'[i].stage = uploads[i].stage
      /\ \A j \in DOMAIN uploads : j # i => SP!Kept(j)
  BY <1>1, <1>2, <1>3, SP!WriteFacts
<1> QED
  BY <1>2, <1>4 DEF SP!Kept, Same

\* What of UPLOAD_CLIENT_COMPLETE matters to the pages.
LEMMA CompleteDoes ==
  ASSUME SP!Inv, NEW c \in Channels, Server!Complete(c)
  PROVE  /\ c \in open /\ current[c] # 0
         /\ current' = [current EXCEPT ![c] = 0]
         /\ \E st \in {"received", "lost"} : Proceeds(current[c], st)
<1>1. SP!TypeOK
  BY DEF SP!Inv
<1>2. SP!Complete(c)
  BY SameFrames
<1> DEFINE i == current[c]
           st == SP!StageOfReceived(uploads[i].name)
<1>3. /\ c \in open /\ i # 0
      /\ SP!Advances(i, st, uploads[i].seen, uploads[i].binary)
      /\ current' = [current EXCEPT ![c] = 0]
      /\ UNCHANGED <<open, fileName, dir, content, http>>
  BY <1>1, <1>2, SP!CompleteFacts
<1>4. st \in {"received", "lost"}
  BY DEF SP!StageOfReceived
<1>5. Proceeds(i, st)
  BY <1>3 DEF SP!Advances, SP!Kept, Same, Proceeds
<1> QED
  BY <1>3, <1>4, <1>5

\* What the end of a connection does to the channel.
LEMMA CloseDoes ==
  ASSUME NEW c \in Channels, Server!Close(c)
  PROVE  /\ open' = open \ {c}
         /\ fileName' = [fileName EXCEPT ![c] = NoName]
         /\ current' = [current EXCEPT ![c] = 0]
         /\ uploads' = uploads
BY DEF Server!Close

\* A task that answers, and one that has.
LEMMA TaskDoes ==
  ASSUME SP!Inv, NEW i \in DOMAIN uploads
  PROVE  /\ Server!Audit(i) => /\ Proceeds(i, "audited") /\ current' = current
                               /\ uploads[i].stage = "received"
         /\ Server!Announce(i) \/ Server!Cast(i) \/ Server!Delete(i) =>
              /\ \E st \in {"announced", "cast", "done"} : Proceeds(i, st)
              /\ current' = current
              /\ uploads[i].stage \in {"audited", "announced", "cast"}
<1>1. SP!TypeOK
  BY DEF SP!Inv
<1>2. \A st, seen, binary : SP!Advances(i, st, seen, binary) /\ UNCHANGED <<open, fileName>>
        => Proceeds(i, st)
  BY DEF SP!Advances, SP!Kept, Same, Proceeds
<1>3. ASSUME Server!Audit(i)
      PROVE  /\ Proceeds(i, "audited") /\ current' = current
             /\ uploads[i].stage = "received"
  <2>1. SP!Audit(i)
    BY <1>3, SameTasks
  <2>2. SP!Advances(i, "audited", uploads[i].seen, uploads[i].binary)
    BY <1>1, <2>1, SP!AuditFacts
  <2> QED
    BY <1>2, <2>1, <2>2 DEF SP!Audit
<1>4. ASSUME Server!Announce(i)
      PROVE  /\ Proceeds(i, "announced") /\ current' = current
             /\ uploads[i].stage = "audited"
  <2>1. SP!Announce(i)
    BY <1>4, SameTasks
  <2>2. SP!Advances(i, "announced", SP!Read(uploads[i].name), uploads[i].binary)
    BY <1>1, <2>1, SP!AnnounceFacts
  <2> QED
    BY <1>2, <2>1, <2>2 DEF SP!Announce
<1>5. ASSUME Server!Cast(i)
      PROVE  /\ \E st \in {"cast", "done"} : Proceeds(i, st)
             /\ current' = current
             /\ uploads[i].stage = "announced"
  <2> DEFINE n == uploads[i].name
             st == IF SP!Small(n) THEN "cast" ELSE "done"
  <2>1. SP!Cast(i)
    BY <1>5, SameTasks
  <2>2. SP!Advances(i, st, uploads[i].seen,
          IF SP!Small(n) THEN SP!Read(n) ELSE uploads[i].binary)
    BY <1>1, <2>1, SP!CastFacts
  <2>3. UNCHANGED <<open, fileName, current>> /\ uploads[i].stage = "announced"
    BY <2>1 DEF SP!Cast
  <2>4. st \in {"cast", "done"}
    OBVIOUS
  <2> HIDE DEF st
  <2>5. Proceeds(i, st)
    BY <1>2, <2>2, <2>3
  <2> QED
    BY <2>3, <2>4, <2>5
<1>6. ASSUME Server!Delete(i)
      PROVE  /\ Proceeds(i, "done") /\ current' = current
             /\ uploads[i].stage = "cast"
  <2>1. SP!Delete(i)
    BY <1>6, SameTasks
  <2>2. SP!Advances(i, "done", uploads[i].seen, uploads[i].binary)
    BY <1>1, <2>1, SP!DeleteFacts
  <2> QED
    BY <1>2, <2>1, <2>2 DEF SP!Delete
<1> QED
  BY <1>3, <1>4, <1>5, <1>6

----------------------------------------------------------------------------
(* Queues of frames *)

\* A queue with one more at its end.
LEMMA AppendFacts ==
  ASSUME NEW S, NEW q \in Seq(S), NEW x \in S
  PROVE  /\ Append(q, x) \in Seq(S) /\ Append(q, x) # << >>
         /\ DOMAIN Append(q, x) = DOMAIN q \cup {Len(q) + 1}
         /\ Append(q, x)[Len(q) + 1] = x
         /\ \A k \in DOMAIN q : Append(q, x)[k] = q[k] /\ k # Len(q) + 1
BY AppendProperties

\* A queue without its head.
LEMMA TailFacts ==
  ASSUME NEW S, NEW q \in Seq(S), q # << >>
  PROVE  /\ Tail(q) \in Seq(S) /\ 1 \in DOMAIN q /\ q[1] = Head(q)
         /\ \A k \in DOMAIN Tail(q) : k + 1 \in DOMAIN q /\ k + 1 # 1 /\ Tail(q)[k] = q[k + 1]
         /\ \A k \in DOMAIN q : k # 1 => k - 1 \in DOMAIN Tail(q) /\ Tail(q)[k - 1] = q[k]
         /\ \A j, k \in DOMAIN q : j - 1 = k - 1 => j = k
<1>1. /\ Tail(q) \in Seq(S) /\ Len(Tail(q)) = Len(q) - 1 /\ Len(q) \in Nat /\ Len(q) # 0
      /\ \A k \in 1..Len(Tail(q)) : Tail(q)[k] = q[k + 1]
  BY HeadTailProperties, LenProperties, EmptySeq
<1>2. DOMAIN q = 1..Len(q) /\ DOMAIN Tail(q) = 1..(Len(q) - 1)
  BY <1>1, LenProperties
<1>3. q[1] = Head(q)
  OBVIOUS
<1> QED
  BY <1>1, <1>2, <1>3

\* RemoveAt takes one element out and moves the rest.
LEMMA RemoveFacts ==
  ASSUME NEW S, NEW q \in Seq(S), NEW r \in DOMAIN q
  PROVE  /\ RemoveAt(q, r) \in Seq(S)
         /\ \A k \in DOMAIN RemoveAt(q, r) : \E j \in DOMAIN q : RemoveAt(q, r)[k] = q[j]
         /\ Len(q) = 1 => RemoveAt(q, r) = << >>
<1> DEFINE a == SubSeq(q, 1, r - 1)
           b == SubSeq(q, r + 1, Len(q))
<1>1. Len(q) \in Nat /\ DOMAIN q = 1..Len(q) /\ r \in 1..Len(q)
  BY LenProperties
<1>2. /\ a \in Seq(S) /\ Len(a) = r - 1
      /\ \A k \in 1..(r - 1) : a[k] = q[k]
  <2>1. \A k \in 1..(r - 1) : q[k] \in S
    BY <1>1
  <2> QED
    BY <1>1, <2>1, SubSeqProperties
<1>3. /\ b \in Seq(S) /\ Len(b) = Len(q) - r
      /\ \A k \in 1..(Len(q) - r) : b[k] = q[r + k]
  <2>1. \A k \in (r + 1)..Len(q) : q[k] \in S
    BY <1>1
  <2>2. Len(b) = IF r + 1 <= Len(q) THEN Len(q) - (r + 1) + 1 ELSE 0
    BY <1>1, SubSeqProperties
  <2>3. \A k \in 1..Len(b) : b[k] = q[r + 1 + k - 1]
    BY <1>1, <2>2, SubSeqProperties
  <2>4. b \in Seq(S)
    BY <1>1, <2>1, SubSeqProperties
  <2>5. Len(b) = Len(q) - r
    BY <1>1, <2>2
  <2> QED
    BY <1>1, <2>3, <2>4, <2>5
<1>4. RemoveAt(q, r) = a \o b
  BY DEF RemoveAt
<1> HIDE DEF a, b
<1>5. /\ a \o b \in Seq(S) /\ Len(a \o b) = Len(q) - 1
      /\ \A k \in 1..(Len(q) - 1) : (a \o b)[k] = IF k <= r - 1 THEN a[k] ELSE b[k - (r - 1)]
  <2>1. /\ a \o b \in Seq(S) /\ Len(a \o b) = Len(a) + Len(b)
        /\ \A k \in 1..Len(a) + Len(b) :
             (a \o b)[k] = IF k <= Len(a) THEN a[k] ELSE b[k - Len(a)]
    BY <1>2, <1>3, ConcatProperties
  <2>2. Len(a) + Len(b) = Len(q) - 1
    BY <1>1, <1>2, <1>3
  <2> QED
    BY <1>2, <2>1, <2>2
<1>6. \A k \in 1..(Len(q) - 1) : \E j \in 1..Len(q) : (a \o b)[k] = q[j]
  <2> TAKE k \in 1..(Len(q) - 1)
  <2>1. CASE k <= r - 1
    BY <1>1, <1>2, <1>5, <2>1
  <2>2. CASE ~(k <= r - 1)
    <3>1. k - (r - 1) \in 1..(Len(q) - r) /\ r + (k - (r - 1)) = k + 1 /\ k + 1 \in 1..Len(q)
      BY <1>1, <2>2
    <3>2. (a \o b)[k] = q[k + 1]
      BY <1>3, <1>5, <2>2, <3>1
    <3> QED
      BY <3>1, <3>2
  <2> QED
    BY <2>1, <2>2
<1>7. DOMAIN (a \o b) = 1..(Len(q) - 1)
  BY <1>1, <1>5, LenProperties
<1>8. Len(q) = 1 => a \o b = << >>
  BY <1>5, EmptySeq
<1> QED
  BY <1>1, <1>4, <1>5, <1>6, <1>7, <1>8

\* None and One when a frame is sent.
LEMMA SentFacts ==
  ASSUME NEW S, NEW q \in Seq(S), NEW x \in S, NEW kind
  PROVE  /\ None(q, kind) /\ x.kind # kind => None(Append(q, x), kind)
         /\ None(q, kind) /\ x.kind = kind => One(Append(q, x), kind)
         /\ One(q, kind) /\ x.kind # kind => One(Append(q, x), kind)
<1>1. /\ DOMAIN Append(q, x) = DOMAIN q \cup {Len(q) + 1}
      /\ Append(q, x)[Len(q) + 1] = x
      /\ \A k \in DOMAIN q : Append(q, x)[k] = q[k] /\ k # Len(q) + 1
  BY AppendFacts
<1> QED
  BY <1>1 DEF None, One

\* None and One when a frame is taken.
LEMMA TakenFacts ==
  ASSUME NEW S, NEW q \in Seq(S), q # << >>, NEW kind
  PROVE  /\ None(q, kind) => None(Tail(q), kind) /\ Head(q).kind # kind
         /\ One(q, kind) /\ Head(q).kind # kind => One(Tail(q), kind)
         /\ One(q, kind) /\ Head(q).kind = kind => None(Tail(q), kind)
<1>1. /\ 1 \in DOMAIN q /\ q[1] = Head(q)
      /\ \A k \in DOMAIN Tail(q) : k + 1 \in DOMAIN q /\ k + 1 # 1 /\ Tail(q)[k] = q[k + 1]
      /\ \A k \in DOMAIN q : k # 1 => k - 1 \in DOMAIN Tail(q) /\ Tail(q)[k - 1] = q[k]
      /\ DOMAIN Tail(q) \subseteq Nat /\ DOMAIN q \subseteq Nat
  <2>1. Tail(q) \in Seq(S)
    BY TailFacts
  <2>2. DOMAIN Tail(q) \subseteq Nat /\ DOMAIN q \subseteq Nat
    BY <2>1, LenProperties
  <2> QED
    BY <2>2, TailFacts
<1>2. None(q, kind) => None(Tail(q), kind) /\ Head(q).kind # kind
  BY <1>1 DEF None
<1>3. ASSUME One(q, kind), Head(q).kind # kind PROVE One(Tail(q), kind)
  <2>1. PICK k \in DOMAIN q :
          q[k].kind = kind /\ \A j \in DOMAIN q : q[j].kind = kind => j = k
    BY <1>3 DEF One
  <2>2. k - 1 \in DOMAIN Tail(q) /\ Tail(q)[k - 1].kind = kind
    BY <1>1, <1>3, <2>1
  <2>3. \A j \in DOMAIN Tail(q) : Tail(q)[j].kind = kind => j + 1 = k
    BY <1>1, <2>1
  <2>4. \A j \in DOMAIN Tail(q) : Tail(q)[j].kind = kind => j = k - 1
    BY <1>1, <2>3
  <2> QED
    BY <2>2, <2>4 DEF One
<1>4. ASSUME One(q, kind), Head(q).kind = kind PROVE None(Tail(q), kind)
  <2>1. \A j \in DOMAIN q : q[j].kind = kind => j = 1
    BY <1>1, <1>4 DEF One
  <2> QED
    BY <1>1, <2>1 DEF None
<1> QED
  BY <1>2, <1>3, <1>4

\* No frame is in an empty queue.
LEMMA NoFrames == \A kind : None(<< >>, kind)
BY DEF None

----------------------------------------------------------------------------
(* Types, and what is under way *)

\* Frames are frames.
LEMMA FrameTypes ==
  /\ \A n \in Names : [kind |-> "start", name |-> n] \in UpFrame
  /\ \A x \in Chunk : [kind |-> "chunk", chunk |-> x] \in UpFrame
  /\ CompleteFrame \in UpFrame /\ CompleteFrame.kind = "complete"
  /\ \A kind \in {"received", "audited"} : [kind |-> kind] \in DownFrame
  /\ \A kind \in {"file", "blob"}, i \in Files : [kind |-> kind, upload |-> i] \in DownFrame
BY DEF UpFrame, DownFrame, CompleteFrame

\* What the file under way on a page is.
LEMMA PageFacts ==
  ASSUME WiresOK, Owned, NEW c \in Channels
  PROVE  /\ page[c].offset \in Nat /\ page[c].label \in Label
         /\ page[c] = [file |-> page[c].file, offset |-> page[c].offset, label |-> page[c].label]
         /\ page[c].file # 0 =>
              /\ page[c].file \in Files /\ page[c].file \in DOMAIN picked
              /\ picked[page[c].file] \in PickedFile /\ picked[page[c].file].by = c
              /\ picked[page[c].file].size \in Nat
         /\ Len(picked) \in Nat /\ DOMAIN picked = 1..Len(picked) /\ DOMAIN picked \subseteq Files
<1>1. /\ Len(picked) \in Nat /\ DOMAIN picked = 1..Len(picked)
      /\ \A s \in DOMAIN picked : picked[s] \in PickedFile
  BY LenProperties DEF WiresOK
<1>2. Len(picked) <= MaxUploads /\ OwnWire(c)
  BY DEF Owned
<1>3. page[c] \in [file : 0..Len(picked), offset : Nat, label : Label]
  BY DEF WiresOK
<1>4. \A f \in PickedFile : f.size \in Nat
  BY DEF PickedFile
<1> QED
  BY <1>1, <1>2, <1>3, <1>4 DEF OwnWire, PickedBy, Files

\* A frame of q and then r is a frame of one of them.
LEMMA ConcatFacts ==
  ASSUME NEW q \in Seq(UpFrame), NEW r \in Seq(UpFrame)
  PROVE  /\ q \o r \in Seq(UpFrame)
         /\ \A k \in DOMAIN (q \o r) :
              (\E j \in DOMAIN q : (q \o r)[k] = q[j]) \/ (\E j \in DOMAIN r : (q \o r)[k] = r[j])
<1>1. /\ q \o r \in Seq(UpFrame) /\ Len(q \o r) = Len(q) + Len(r)
      /\ \A k \in 1..Len(q) + Len(r) : (q \o r)[k] = IF k <= Len(q) THEN q[k] ELSE r[k - Len(q)]
  BY ConcatProperties
<1>2. /\ Len(q) \in Nat /\ Len(r) \in Nat /\ DOMAIN q = 1..Len(q) /\ DOMAIN r = 1..Len(r)
      /\ DOMAIN (q \o r) = 1..(Len(q) + Len(r))
  BY <1>1, LenProperties
<1> QED
  BY <1>1, <1>2

\* utilSendNextChunk: a COMPLETE frame or a reader.
LEMMA SendNextDoes ==
  ASSUME WiresOK, NEW c \in Channels, NEW p \in [file : Files, offset : Nat, label : Label],
         picked' \in Seq(PickedFile), p.file \in DOMAIN picked',
         NEW first \in Seq(UpFrame), SendNext(c, p, first)
  PROVE  /\ up' \in [Channels -> Seq(UpFrame)] /\ reading' \in [Channels -> Seq(Chunk)]
         /\ \A d \in Channels : d # c => up'[d] = up[d] /\ reading'[d] = reading[d]
         /\ AllSent(p) =>
              up'[c] = up[c] \o first \o <<CompleteFrame>> /\ reading'[c] = reading[c]
         /\ ~AllSent(p) =>
              /\ up'[c] = up[c] \o first
              /\ reading'[c] = Append(reading[c], Reader(p.file, p.offset))
              /\ Reader(p.file, p.offset) \in Chunk
<1>1. up \in [Channels -> Seq(UpFrame)] /\ reading \in [Channels -> Seq(Chunk)]
  BY DEF WiresOK
<1>2. CASE AllSent(p)
  <2>1. /\ up' = [up EXCEPT ![c] = @ \o first \o <<CompleteFrame>>]
        /\ reading' = reading
    BY <1>2 DEF SendNext, CompleteFrame
  <2>2. <<CompleteFrame>> \in Seq(UpFrame)
    BY FrameTypes
  <2>3. up[c] \o first \o <<CompleteFrame>> \in Seq(UpFrame)
    BY <1>1, <2>2, ConcatFacts
  <2> QED
    BY <1>1, <1>2, <2>1, <2>3
<1>3. CASE ~AllSent(p)
  <2> DEFINE x == Reader(p.file, p.offset)
  <2>1. /\ up' = [up EXCEPT ![c] = @ \o first]
        /\ reading' = [reading EXCEPT ![c] = Append(@, x)]
    BY <1>3 DEF SendNext, Reader
  <2>2. picked'[p.file] \in PickedFile
    BY LenProperties
  <2>3. p.offset < picked'[p.file].size /\ p.offset \in Nat /\ picked'[p.file].size \in 0..MaxChunks
    BY <1>3, <2>2 DEF AllSent, PickedFile
  <2>4. x \in Chunk
    BY <2>3 DEF Chunk, Reader
  <2> HIDE DEF x
  <2>5. up[c] \o first \in Seq(UpFrame) /\ Append(reading[c], x) \in Seq(Chunk)
    BY <1>1, <2>4, ConcatFacts, AppendFacts
  <2>6. up' \in [Channels -> Seq(UpFrame)] /\ reading' \in [Channels -> Seq(Chunk)]
    BY <1>1, <2>1, <2>5
  <2>7. /\ up'[c] = up[c] \o first /\ reading'[c] = Append(reading[c], x)
        /\ \A d \in Channels : d # c => up'[d] = up[d] /\ reading'[d] = reading[d]
    BY <1>1, <2>1
  <2> QED
    BY <1>3, <2>4, <2>6, <2>7 DEF x
<1> QED
  BY <1>2, <1>3

\* The start frame of a file called n.
StartFrame(n) == [kind |-> "start", name |-> n]

\* The number of the file that is picked next.
NextFile == Len(picked) + 1

\* What a pick adds, and where it begins.
Picks(c, n, size) ==
  /\ c \in open /\ (c \in Hasty \/ page[c].file = 0)
  /\ NextFile \in Files /\ NextFile # 0 /\ NextFile \notin DOMAIN picked
  /\ picked' \in Seq(PickedFile) /\ Len(picked') = NextFile
  /\ DOMAIN picked' = DOMAIN picked \cup {NextFile}
  /\ \A s \in DOMAIN picked : picked'[s] = picked[s]
  /\ picked'[NextFile] = [by |-> c, name |-> n, size |-> size]
  /\ page' \in [Channels -> [file : 0..NextFile, offset : Nat, label : Label]]
  /\ page'[c].file = NextFile /\ page'[c].offset = 0
  /\ up' \in [Channels -> Seq(UpFrame)] /\ reading' \in [Channels -> Seq(Chunk)]
  /\ \A d \in Channels : d # c => /\ page'[d] = page[d]
                                  /\ up'[d] = up[d] /\ reading'[d] = reading[d]
  /\ size = 0 => /\ up'[c] = up[c] \o <<StartFrame(n)>> \o <<CompleteFrame>>
                 /\ reading'[c] = reading[c]
  /\ size > 0 => /\ up'[c] = up[c] \o <<StartFrame(n)>>
                 /\ reading'[c] = Append(reading[c], Reader(NextFile, 0))
                 /\ Reader(NextFile, 0) \in Chunk
  /\ UNCHANGED <<handler, down, stored, shown>>

\* apiSendFile: a new file, and its first frame and reader.
LEMMA PickDoes ==
  ASSUME WiresOK, Owned, NEW c \in Channels, NEW n \in Names, NEW size \in 0..MaxChunks,
         Pick(c, n, size)
  PROVE  Picks(c, n, size)
<1> DEFINE s == NextFile
           p == [file |-> s, offset |-> 0, label |-> 0]
           f == [by |-> c, name |-> n, size |-> size]
<1>1. /\ c \in open /\ (c \in Hasty \/ page[c].file = 0)
      /\ Len(picked) < MaxUploads
      /\ picked' = Append(picked, f)
      /\ page' = [page EXCEPT ![c] = p]
      /\ SendNext(c, p, <<StartFrame(n)>>)
      /\ UNCHANGED <<handler, down, stored, shown>>
  BY DEF Pick, MayPick, NextFile, StartFrame
<1>2. Len(picked) \in Nat /\ DOMAIN picked = 1..Len(picked) /\ picked \in Seq(PickedFile)
  BY PageFacts DEF WiresOK
<1>3. s \in Files /\ s # 0 /\ s \notin DOMAIN picked
  BY <1>1, <1>2 DEF NextFile, Files
<1>4. f \in PickedFile
  BY DEF PickedFile
<1> HIDE DEF f
<1>5. /\ picked' \in Seq(PickedFile) /\ Len(picked') = s
      /\ DOMAIN picked' = DOMAIN picked \cup {s}
      /\ \A r \in DOMAIN picked : picked'[r] = picked[r]
      /\ picked'[s] = f
  BY <1>1, <1>2, <1>4, AppendFacts, AppendProperties DEF NextFile
<1>6. /\ p \in [file : Files, offset : Nat, label : Label]
      /\ p \in [file : 0..s, offset : Nat, label : Label]
      /\ p.file = s /\ p.offset = 0
  BY <1>3 DEF Files, Label
<1> HIDE DEF p
<1>7. page' \in [Channels -> [file : 0..s, offset : Nat, label : Label]]
  <2>1. page \in [Channels -> [file : 0..Len(picked), offset : Nat, label : Label]]
    BY DEF WiresOK
  <2>2. 0..Len(picked) \subseteq 0..s
    BY <1>2 DEF NextFile
  <2>3. \A d \in Channels : page[d] \in [file : 0..s, offset : Nat, label : Label]
    BY <2>1, <2>2
  <2> HIDE DEF s
  <2> QED
    BY <1>1, <1>6, <2>1, <2>3
<1>8. page'[c] = p /\ \A d \in Channels : d # c => page'[d] = page[d]
  BY <1>1 DEF WiresOK
<1>9. <<StartFrame(n)>> \in Seq(UpFrame)
  BY FrameTypes DEF StartFrame
<1>10. AllSent(p) <=> size = 0
  BY <1>5, <1>6 DEF AllSent, f
<1>11. /\ up' \in [Channels -> Seq(UpFrame)] /\ reading' \in [Channels -> Seq(Chunk)]
       /\ \A d \in Channels : d # c => up'[d] = up[d] /\ reading'[d] = reading[d]
       /\ AllSent(p) => /\ up'[c] = up[c] \o <<StartFrame(n)>> \o <<CompleteFrame>>
                        /\ reading'[c] = reading[c]
       /\ ~AllSent(p) => /\ up'[c] = up[c] \o <<StartFrame(n)>>
                         /\ reading'[c] = Append(reading[c], Reader(p.file, p.offset))
                         /\ Reader(p.file, p.offset) \in Chunk
  <2>1. p.file \in DOMAIN picked'
    BY <1>5, <1>6
  <2> QED
    BY <1>1, <1>5, <1>6, <1>9, <2>1, SendNextDoes
<1>12. f = [by |-> c, name |-> n, size |-> size]
  BY DEF f
<1>13. size > 0 <=> size # 0
  OBVIOUS
<1>14. page'[c].file = s /\ page'[c].offset = 0
  BY <1>6, <1>8
<1>15. Reader(p.file, p.offset) = Reader(s, 0)
  BY <1>6
<1> HIDE DEF s
<1> QED
  BY <1>1, <1>3, <1>5, <1>7, <1>8, <1>10, <1>11, <1>12, <1>13, <1>14, <1>15 DEF Picks, s

\* A reader of page c has called onload.
Loads(c, r) ==
  /\ c \in open /\ r \in DOMAIN reading[c] /\ reading[c][r] \in Chunk
  /\ up' \in [Channels -> Seq(UpFrame)] /\ reading' \in [Channels -> Seq(Chunk)]
  /\ page' \in [Channels -> [file : 0..Len(picked), offset : Nat, label : Label]]
  /\ \A d \in Channels : d # c => /\ page'[d] = page[d]
                                  /\ up'[d] = up[d] /\ reading'[d] = reading[d]
  /\ page'[c].file = page[c].file /\ page'[c].offset = page[c].offset + 1
  /\ up'[c] = Append(up[c], [kind |-> "chunk", chunk |-> reading[c][r]])
  /\ reading'[c] = RemoveAt(reading[c], r)
  /\ UNCHANGED <<handler, picked, down, stored, shown>>

\* reader.onload: the chunk goes from the readers to the frames.
LEMMA LoadedDoes ==
  ASSUME WiresOK, Owned, NEW c \in Channels, Loaded(c)
  PROVE  \E r \in DOMAIN reading[c] : Loads(c, r)
<1>1. PICK r \in DOMAIN reading[c] :
        /\ c \in open
        /\ up' = [up EXCEPT ![c] = Append(@, [kind |-> "chunk", chunk |-> reading[c][r]])]
        /\ page' = [page EXCEPT ![c] = AfterLoad(@)]
        /\ reading' = [reading EXCEPT ![c] = RemoveAt(reading[c], r)]
        /\ UNCHANGED <<handler, picked, down, stored, shown>>
  BY DEF Loaded, ReadersLeft
<1> DEFINE x == [kind |-> "chunk", chunk |-> reading[c][r]]
           p == AfterLoad(page[c])
<1>2. /\ up \in [Channels -> Seq(UpFrame)] /\ reading \in [Channels -> Seq(Chunk)]
      /\ page \in [Channels -> [file : 0..Len(picked), offset : Nat, label : Label]]
  BY DEF WiresOK
<1>3. reading[c][r] \in Chunk
  BY <1>2, LenProperties
<1>4. x \in UpFrame
  BY <1>3, FrameTypes
<1>5. /\ p \in [file : 0..Len(picked), offset : Nat, label : Label]
      /\ p.file = page[c].file /\ p.offset = page[c].offset + 1
  <2> DEFINE o == page[c].offset + 1
  <2>1. p = [page[c] EXCEPT !.offset = o] /\ o \in Nat
    BY <1>2 DEF AfterLoad
  <2> HIDE DEF o, p
  <2>2. page[c] \in [file : 0..Len(picked), offset : Nat, label : Label]
    BY <1>2
  <2>3. /\ p \in [file : 0..Len(picked), offset : Nat, label : Label]
        /\ p.file = page[c].file /\ p.offset = o
    BY <2>1, <2>2
  <2> QED
    BY <2>3 DEF o
<1> HIDE DEF x, p
<1>6. Append(up[c], x) \in Seq(UpFrame) /\ RemoveAt(reading[c], r) \in Seq(Chunk)
  BY <1>2, <1>4, AppendFacts, RemoveFacts
<1>7. /\ up' = [up EXCEPT ![c] = Append(@, x)]
      /\ page' = [page EXCEPT ![c] = p]
      /\ reading' = [reading EXCEPT ![c] = RemoveAt(reading[c], r)]
  BY <1>1 DEF x, p
<1>8. /\ up' \in [Channels -> Seq(UpFrame)] /\ reading' \in [Channels -> Seq(Chunk)]
      /\ page' \in [Channels -> [file : 0..Len(picked), offset : Nat, label : Label]]
  BY <1>2, <1>5, <1>6, <1>7
<1>9. /\ \A d \in Channels : d # c => /\ page'[d] = page[d]
                                      /\ up'[d] = up[d] /\ reading'[d] = reading[d]
      /\ page'[c] = p /\ up'[c] = Append(up[c], x)
      /\ reading'[c] = RemoveAt(reading[c], r)
  BY <1>2, <1>7
<1>10. Loads(c, r)
  BY <1>1, <1>3, <1>5, <1>8, <1>9 DEF Loads, x
<1> QED
  BY <1>10

\* Page c takes a frame.
Takes(c, kind) ==
  /\ c \in open /\ down[c] # << >> /\ Head(down[c]).kind = kind
  /\ down' \in [Channels -> Seq(DownFrame)]
  /\ down'[c] = Tail(down[c])
  /\ \A d \in Channels : d # c => down'[d] = down[d]
  /\ UNCHANGED <<handler, picked, stored>>

\* Taking a frame, typed.
LEMMA PageReadsDoes ==
  ASSUME WiresOK, NEW c \in Channels, NEW kind, PageReads(c, kind)
  PROVE  Takes(c, kind)
<1>1. /\ c \in open /\ down[c] # << >> /\ Head(down[c]).kind = kind
      /\ down' = [down EXCEPT ![c] = Tail(@)]
      /\ UNCHANGED <<handler, picked, stored>>
  BY DEF PageReads
<1>2. down \in [Channels -> Seq(DownFrame)]
  BY DEF WiresOK
<1>3. Tail(down[c]) \in Seq(DownFrame)
  BY <1>1, <1>2, TailFacts
<1> QED
  BY <1>1, <1>2, <1>3 DEF Takes

\* Page c sends what comes next of its file.
GoesOn(c) ==
  /\ up' \in [Channels -> Seq(UpFrame)] /\ reading' \in [Channels -> Seq(Chunk)]
  /\ \A d \in Channels : d # c => up'[d] = up[d] /\ reading'[d] = reading[d]
  /\ page[c].offset >= picked[page[c].file].size =>
       /\ up'[c] = up[c] \o <<CompleteFrame>> /\ reading'[c] = reading[c]
  /\ page[c].offset < picked[page[c].file].size =>
       /\ up'[c] = up[c]
       /\ reading'[c] = Append(reading[c], Reader(page[c].file, page[c].offset))
       /\ Reader(page[c].file, page[c].offset) \in Chunk

\* UPLOAD_SERVER_RECEIVED_CHUNK, typed.
LEMMA ReadReceivedDoes ==
  ASSUME WiresOK, Owned, NEW c \in Channels, ReadReceived(c)
  PROVE  /\ Takes(c, "received") /\ UNCHANGED <<page, shown>>
         /\ page[c].file = 0 => UNCHANGED <<up, reading>>
         /\ page[c].file # 0 => GoesOn(c)
<1>1. /\ PageReads(c, "received") /\ UNCHANGED <<page, shown>>
      /\ IF page[c].file = 0 THEN UNCHANGED <<up, reading>> ELSE SendNext(c, page[c], << >>)
  BY DEF ReadReceived
<1>2. Takes(c, "received")
  BY <1>1, PageReadsDoes
<1>3. picked' = picked
  BY <1>2 DEF Takes
<1>4. ASSUME page[c].file # 0 PROVE GoesOn(c)
  <2>1. /\ page[c] \in [file : Files, offset : Nat, label : Label]
        /\ page[c].file \in DOMAIN picked' /\ picked' \in Seq(PickedFile)
    BY <1>3, <1>4, PageFacts DEF WiresOK
  <2>2. << >> \in Seq(UpFrame)
    BY EmptySeq
  <2>3. SendNext(c, page[c], << >>)
    BY <1>1, <1>4
  <2>4. /\ up' \in [Channels -> Seq(UpFrame)] /\ reading' \in [Channels -> Seq(Chunk)]
        /\ \A d \in Channels : d # c => up'[d] = up[d] /\ reading'[d] = reading[d]
        /\ AllSent(page[c]) =>
             up'[c] = up[c] \o << >> \o <<CompleteFrame>> /\ reading'[c] = reading[c]
        /\ ~AllSent(page[c]) =>
             /\ up'[c] = up[c] \o << >>
             /\ reading'[c] = Append(reading[c], Reader(page[c].file, page[c].offset))
             /\ Reader(page[c].file, page[c].offset) \in Chunk
    BY <2>1, <2>2, <2>3, SendNextDoes
  <2>5. up[c] \o << >> = up[c]
    BY ConcatEmptySeq DEF WiresOK
  <2>6. AllSent(page[c]) <=> page[c].offset >= picked[page[c].file].size
    BY <1>3 DEF AllSent
  <2>7. /\ page[c].offset \in Nat /\ picked[page[c].file].size \in Nat
    BY <1>4, PageFacts
  <2> QED
    BY <2>4, <2>5, <2>6, <2>7 DEF GoesOn
<1> QED
  BY <1>1, <1>2, <1>4

\* UPLOAD_SERVER_AUDIT_COMPLETE, typed.
LEMMA ReadAuditedDoes ==
  ASSUME WiresOK, Owned, NEW c \in Channels, ReadAudited(c)
  PROVE  /\ Takes(c, "audited") /\ UNCHANGED <<reading, up, shown>>
         /\ page' \in [Channels -> [file : 0..Len(picked), offset : Nat, label : Label]]
         /\ \A d \in Channels : d # c => page'[d] = page[d]
         /\ page'[c].file = 0 /\ page'[c].offset = 0
<1>1. /\ PageReads(c, "audited") /\ UNCHANGED <<reading, up, shown>>
      /\ page' = [page EXCEPT ![c] = Finished(@)]
  BY DEF ReadAudited
<1>2. Takes(c, "audited")
  BY <1>1, PageReadsDoes
<1>3. page \in [Channels -> [file : 0..Len(picked), offset : Nat, label : Label]]
  BY DEF WiresOK
<1> DEFINE p == Finished(page[c])
<1>4. /\ p \in [file : 0..Len(picked), offset : Nat, label : Label]
      /\ p.file = 0 /\ p.offset = 0
  <2>1. page[c] \in [file : 0..Len(picked), offset : Nat, label : Label] /\ Len(picked) \in Nat
    BY <1>3, PageFacts
  <2>2. 0 \in 0..Len(picked) /\ 0 \in Nat
    BY <2>1
  <2>3. p = [page[c] EXCEPT !.file = 0, !.offset = 0]
    BY DEF Finished
  <2> HIDE DEF p
  <2> DEFINE F == 0..Len(picked)
  <2> HIDE DEF F
  <2>4. page[c] \in [file : F, offset : Nat, label : Label] /\ 0 \in F
    BY <2>1, <2>2 DEF F
  <2>5. /\ p \in [file : F, offset : Nat, label : Label]
        /\ p.file = 0 /\ p.offset = 0
    BY <2>3, <2>4
  <2> QED
    BY <2>5 DEF F
<1>5. page' = [page EXCEPT ![c] = p]
  BY <1>1
<1> HIDE DEF p
<1> QED
  BY <1>1, <1>2, <1>3, <1>4, <1>5

\* A FILE frame, typed.
LEMMA ReadFileDoes ==
  ASSUME WiresOK, Owned, NEW c \in Channels, ReadFile(c)
  PROVE  /\ Takes(c, "file") /\ UNCHANGED <<reading, up, shown>>
         /\ page' \in [Channels -> [file : 0..Len(picked), offset : Nat, label : Label]]
         /\ \A d \in Channels : /\ page'[d].file = page[d].file
                                /\ page'[d].offset = page[d].offset
<1> DEFINE l == Head(down[c]).upload
           p == [page[c] EXCEPT !.label = l]
<1>1. PageReads(c, "file") /\ UNCHANGED <<reading, up, shown>> /\ page' = [page EXCEPT ![c] = p]
  BY DEF ReadFile
<1>2. Takes(c, "file")
  BY <1>1, PageReadsDoes
<1>3. l \in Label
  BY <1>2, FrameFacts DEF Takes, Label, Files
<1> HIDE DEF l
<1>4. page \in [Channels -> [file : 0..Len(picked), offset : Nat, label : Label]]
  BY DEF WiresOK
<1>5. /\ p \in [file : 0..Len(picked), offset : Nat, label : Label]
      /\ p.file = page[c].file /\ p.offset = page[c].offset
  BY <1>3, <1>4
<1> HIDE DEF p
<1> QED
  BY <1>1, <1>2, <1>4, <1>5

\* A blob, typed.
LEMMA ReadBlobDoes ==
  ASSUME WiresOK, Owned, NEW c \in Channels, ReadBlob(c)
  PROVE  /\ Takes(c, "blob") /\ UNCHANGED <<page, reading, up>>
         /\ shown' \in [Channels -> SUBSET [upload : Files, label : Label]]
<1> DEFINE x == [upload |-> Head(down[c]).upload, label |-> page[c].label]
<1>1. /\ PageReads(c, "blob") /\ UNCHANGED <<page, reading, up>>
      /\ shown' = [shown EXCEPT ![c] = @ \cup {x}]
  BY DEF ReadBlob
<1>2. Takes(c, "blob")
  BY <1>1, PageReadsDoes
<1>3. x \in [upload : Files, label : Label]
  BY <1>2, FrameFacts, PageFacts DEF Takes
<1> HIDE DEF x
<1>4. shown \in [Channels -> SUBSET [upload : Files, label : Label]]
  BY DEF WiresOK
<1> QED
  BY <1>1, <1>2, <1>3, <1>4

\* The server takes a frame of channel c.
Pops(c, kind) ==
  /\ up[c] # << >> /\ Head(up[c]).kind = kind
  /\ up' \in [Channels -> Seq(UpFrame)]
  /\ up'[c] = Tail(up[c])
  /\ \A d \in Channels : d # c => up'[d] = up[d]
  /\ UNCHANGED <<client, shown>>

\* Taking a frame at the server, typed.
LEMMA ServerReadsDoes ==
  ASSUME WiresOK, NEW c \in Channels, NEW kind, ServerReads(c, kind)
  PROVE  Pops(c, kind)
<1>1. /\ up[c] # << >> /\ Head(up[c]).kind = kind
      /\ up' = [up EXCEPT ![c] = Tail(@)]
      /\ UNCHANGED <<client, shown>>
  BY DEF ServerReads
<1>2. up \in [Channels -> Seq(UpFrame)]
  BY DEF WiresOK
<1>3. Tail(up[c]) \in Seq(UpFrame)
  BY <1>1, <1>2, TailFacts
<1> QED
  BY <1>1, <1>2, <1>3 DEF Pops

\* UPLOAD_CLIENT_START at the server.
LEMMA ReadStartDoes ==
  ASSUME WiresOK, NEW c \in Channels, ReadStart(c)
  PROVE  /\ Pops(c, "start") /\ c \in open
         /\ fileName' = [fileName EXCEPT ![c] = Head(up[c]).name]
         /\ UNCHANGED <<open, current, uploads, down, stored>>
BY ServerReadsDoes DEF ReadStart, Server!Start

\* The chunk of channel c becomes one of upload i, and is acknowledged.
Writes(c, i) ==
  /\ Pops(c, "chunk") /\ i \in Files
  /\ Head(up[c]).chunk \in Chunk
  /\ stored' \in [Files -> Seq(Chunk)]
  /\ stored'[i] = Append(stored[i], Head(up[c]).chunk)
  /\ \A j \in Files : j # i => stored'[j] = stored[j]
  /\ down' \in [Channels -> Seq(DownFrame)]
  /\ down'[c] = Append(down[c], [kind |-> "received"])
  /\ \A d \in Channels : d # c => down'[d] = down[d]

\* The current upload of channel c goes on.
Continues(c) ==
  /\ c \in open /\ current[c] # 0
  /\ UNCHANGED <<open, fileName, current>>
  /\ DOMAIN uploads' = DOMAIN uploads
  /\ \A j \in DOMAIN uploads : Same(j)

\* Writing a chunk, typed.
LEMMA WritesFacts ==
  ASSUME WiresOK, NEW c \in Channels, NEW i \in Files, ServerReads(c, "chunk"),
         stored' = [stored EXCEPT ![i] = Append(@, Head(up[c]).chunk)],
         down' = [down EXCEPT ![c] = Append(@, [kind |-> "received"])]
  PROVE  Writes(c, i)
<1> DEFINE x == Head(up[c]).chunk
           y == [kind |-> "received"]
<1>1. Pops(c, "chunk")
  BY ServerReadsDoes
<1>2. x \in Chunk
  BY <1>1, FrameFacts DEF Pops
<1>3. y \in DownFrame
  BY FrameTypes
<1>4. stored \in [Files -> Seq(Chunk)] /\ down \in [Channels -> Seq(DownFrame)]
  BY DEF WiresOK
<1>5. stored' = [stored EXCEPT ![i] = Append(@, x)] /\ down' = [down EXCEPT ![c] = Append(@, y)]
  OBVIOUS
<1>6. Writes(c, i) <=>
        /\ Pops(c, "chunk") /\ i \in Files /\ x \in Chunk
        /\ stored' \in [Files -> Seq(Chunk)] /\ stored'[i] = Append(stored[i], x)
        /\ \A j \in Files : j # i => stored'[j] = stored[j]
        /\ down' \in [Channels -> Seq(DownFrame)] /\ down'[c] = Append(down[c], y)
        /\ \A d \in Channels : d # c => down'[d] = down[d]
  BY DEF Writes
<1> HIDE DEF x, y
<1>7. Append(stored[i], x) \in Seq(Chunk) /\ Append(down[c], y) \in Seq(DownFrame)
  BY <1>2, <1>3, <1>4, AppendFacts
<1> QED
  BY <1>1, <1>2, <1>4, <1>5, <1>6, <1>7

\* A chunk begins an upload or goes on with one.
LEMMA ReadChunkDoes ==
  ASSUME SP!Inv, WiresOK, NEW c \in Channels, ReadChunk(c)
  PROVE  \/ Begins(c) /\ Writes(c, NextNo)
         \/ Continues(c) /\ Writes(c, current[c])
<1>1. /\ ServerReads(c, "chunk")
      /\ Server!FirstChunk(c) \/ Server!NextChunk(c)
      /\ stored' = [stored EXCEPT ![current'[c]] = Append(@, Head(up[c]).chunk)]
      /\ down' = [down EXCEPT ![c] = Append(@, [kind |-> "received"])]
  BY DEF ReadChunk
<1>2. current \in [Channels -> {0} \cup DOMAIN uploads]
  BY DEF SP!Inv, SP!TypeOK
<1>3. CASE Server!FirstChunk(c)
  <2>1. Begins(c)
    BY <1>3, FirstChunkDoes
  <2>2. current'[c] = NextNo /\ NextNo \in Files
    BY <1>2, <2>1 DEF Begins
  <2>3. stored' = [stored EXCEPT ![NextNo] = Append(@, Head(up[c]).chunk)]
    BY <1>1, <2>2
  <2> QED
    BY <1>1, <2>1, <2>2, <2>3, WritesFacts
<1>4. CASE Server!NextChunk(c)
  <2>1. Continues(c)
    BY <1>4, NextChunkDoes DEF Continues
  <2>2. current'[c] = current[c] /\ current[c] \in Files
    BY <2>1, CurrentFacts DEF Continues
  <2>3. stored' = [stored EXCEPT ![current[c]] = Append(@, Head(up[c]).chunk)]
    BY <1>1, <2>2
  <2> QED
    BY <1>1, <2>1, <2>2, <2>3, WritesFacts
<1> QED
  BY <1>1, <1>3, <1>4

\* UPLOAD_CLIENT_COMPLETE at the server.
LEMMA ReadCompleteDoes ==
  ASSUME SP!Inv, WiresOK, NEW c \in Channels, ReadComplete(c)
  PROVE  /\ Pops(c, "complete") /\ UNCHANGED <<down, stored>>
         /\ current[c] = 0 => UNCHANGED handler
         /\ current[c] # 0 =>
              /\ c \in open
              /\ current' = [current EXCEPT ![c] = 0]
              /\ \E st \in {"received", "lost"} : Proceeds(current[c], st)
BY ServerReadsDoes, CompleteDoes DEF ReadComplete

\* Channel c is gone, and what was under way with it.
Goes(c) ==
  /\ c \in open /\ open' = open \ {c}
  /\ fileName' = [fileName EXCEPT ![c] = NoName]
  /\ current' = [current EXCEPT ![c] = 0]
  /\ up' = [up EXCEPT ![c] = << >>]
  /\ down' = [down EXCEPT ![c] = << >>]
  /\ reading' = [reading EXCEPT ![c] = << >>]
  /\ UNCHANGED <<uploads, picked, page, stored, shown>>

\* A connection ends for the server and the page at once.
LEMMA CloseAndCut ==
  ASSUME NEW c \in Channels, RefuseChunk(c) \/ Disconnect(c)
  PROVE  Goes(c)
<1>1. c \in open /\ Server!Close(c) /\ Cut(c)
  BY DEF RefuseChunk, Disconnect, Server!RefuseFirstChunk, Server!BetweenFiles, Server!Disconnect
<1> QED
  BY <1>1, CloseDoes DEF Goes, Cut

\* Frame x goes to the open channels among C.
Sends(C, x) ==
  /\ down' \in [Channels -> Seq(DownFrame)]
  /\ \A d \in Channels :
       down'[d] = IF d \in C /\ d \in open THEN Append(down[d], x) ELSE down[d]
  /\ UNCHANGED <<client, up, stored, shown>>

\* Sending a frame, typed.
LEMMA SendDoes ==
  ASSUME WiresOK, NEW C, NEW x \in DownFrame, Send(C, x)
  PROVE  Sends(C, x)
<1>1. down \in [Channels -> Seq(DownFrame)]
  BY DEF WiresOK
<1>2. \A d \in Channels : Append(down[d], x) \in Seq(DownFrame)
  BY <1>1, AppendFacts
<1> QED
  BY <1>1, <1>2 DEF Send, Sends

\* What the task of upload i sends.
LEMMA TaskSends ==
  ASSUME SP!Inv, WiresOK, NEW i \in Files, Task(i)
  PROVE  /\ i \in DOMAIN uploads
         /\ \/ /\ Proceeds(i, "audited") /\ current' = current
               /\ uploads[i].stage = "received"
               /\ Sends({uploads[i].by}, [kind |-> "audited"])
            \/ /\ \E st \in {"announced", "cast", "done"} : Proceeds(i, st)
               /\ current' = current
               /\ uploads[i].stage \in {"audited", "announced", "cast"}
               /\ \/ \E C : \E x \in DownFrame : x.kind \in {"file", "blob"} /\ Sends(C, x)
                  \/ UNCHANGED <<client, up, down, stored, shown>>
<1>1. i \in DOMAIN uploads
  BY DEF Task
<1>2. /\ Server!Audit(i) => /\ Proceeds(i, "audited") /\ current' = current
                            /\ uploads[i].stage = "received"
      /\ Server!Announce(i) \/ Server!Cast(i) \/ Server!Delete(i) =>
           /\ \E st \in {"announced", "cast", "done"} : Proceeds(i, st)
           /\ current' = current
           /\ uploads[i].stage \in {"audited", "announced", "cast"}
  BY <1>1, TaskDoes
<1> DEFINE a == [kind |-> "audited"]
           f == [kind |-> "file", upload |-> i]
           b == [kind |-> "blob", upload |-> i]
<1>3. /\ a \in DownFrame /\ f \in DownFrame /\ b \in DownFrame
      /\ f.kind = "file" /\ b.kind = "blob"
  BY FrameTypes
<1> HIDE DEF f, b
<1>4. CASE Audit(i)
  <2>1. Server!Audit(i) /\ Send({uploads[i].by}, a)
    BY <1>4 DEF Audit
  <2>2. Sends({uploads[i].by}, a)
    BY <1>3, <2>1, SendDoes
  <2> QED
    BY <1>1, <1>2, <2>1, <2>2
<1>5. CASE Announce(i)
  <2>1. Server!Announce(i) /\ Send(Channels, f)
    BY <1>5 DEF Announce, f
  <2>2. Sends(Channels, f)
    BY <1>3, <2>1, SendDoes
  <2>3. \E C : \E x \in DownFrame : x.kind \in {"file", "blob"} /\ Sends(C, x)
    BY <1>3, <2>2
  <2> QED
    BY <1>1, <1>2, <2>1, <2>3
<1>6. CASE Cast(i)
  <2> DEFINE C == IF Server!Small(uploads[i].name) THEN Channels ELSE {}
  <2>1. Server!Cast(i) /\ Send(C, b)
    BY <1>6 DEF Cast, b
  <2> HIDE DEF C
  <2>2. Sends(C, b)
    BY <1>3, <2>1, SendDoes
  <2>3. \E D : \E x \in DownFrame : x.kind \in {"file", "blob"} /\ Sends(D, x)
    BY <1>3, <2>2
  <2> QED
    BY <1>1, <1>2, <2>1, <2>3
<1>7. CASE Delete(i)
  BY <1>1, <1>2, <1>7 DEF Delete
<1> QED
  BY <1>4, <1>5, <1>6, <1>7 DEF Task

\* A step that takes frames and readers away from channel d, or leaves it alone.
LEMMA OwnWireStep ==
  ASSUME NEW d \in Channels, OwnWire(d),
         \A s : PickedBy(s, d) => PickedBy(s, d)',
         page'[d].file = 0 \/ page'[d].file = page[d].file,
         \A r \in DOMAIN reading'[d] : \E q \in DOMAIN reading[d] :
           reading'[d][r] = reading[d][q],
         \A k \in DOMAIN up'[d] : up'[d][k].kind = "chunk" =>
           \E j \in DOMAIN up[d] : up'[d][k] = up[d][j],
         \/ d \in open'
         \/ /\ d \notin open /\ up'[d] = up[d] /\ down'[d] = down[d]
            /\ reading'[d] = reading[d] /\ current'[d] = current[d]
  PROVE  OwnWire(d)'
BY DEF OwnWire

\* A step that leaves the files and the uploads alone, or only moves uploads on.
LEMMA OwnUploadsStep ==
  ASSUME OwnUploads, picked' = picked, stored' = stored, DOMAIN uploads' = DOMAIN uploads,
         \A j \in DOMAIN uploads : uploads'[j].by = uploads[j].by
  PROVE  OwnUploads'
BY DEF OwnUploads, PickedBy

\* Nothing is under way initially.
LEMMA WiredInit == Init => WiresOK /\ Owned
<1> SUFFICES ASSUME Init PROVE WiresOK /\ Owned
  OBVIOUS
<1>1. Server!Init
  BY DEF Init
<1>2. /\ picked = << >> /\ picked \in Seq(PickedFile) /\ Len(picked) = 0
      /\ DOMAIN picked = {}
  BY DEF Init
<1>3. /\ page \in [Channels -> [file : 0..Len(picked), offset : Nat, label : Label]]
      /\ \A c \in Channels : page[c].file = 0
  BY <1>2 DEF Init, Label
<1>4. /\ \A S : << >> \in Seq(S)
      /\ DOMAIN << >> = {}
  OBVIOUS
<1>5. WiresOK
  BY <1>2, <1>3, <1>4 DEF Init, WiresOK
<1>6. /\ open = Channels /\ uploads = << >> /\ DOMAIN uploads = {}
      /\ \A c \in Channels : current[c] = 0
  BY <1>1 DEF Server!Init
<1>7. \A c \in Channels : OwnWire(c)
  BY <1>3, <1>4, <1>6 DEF Init, OwnWire
<1>8. OwnUploads
  BY <1>6 DEF Init, OwnUploads
<1> QED
  BY <1>2, <1>5, <1>7, <1>8 DEF Owned

\* A pick: the new file is of its page, and so is its first reader.
LEMMA PickWired ==
  ASSUME SP!Inv, WiresOK, Owned, NEW c \in Channels, NEW n \in Names, NEW size \in 0..MaxChunks,
         Picks(c, n, size)
  PROVE  WiresOK' /\ Owned'
<1>1. WiresOK'
  BY DEF WiresOK, Picks, handler
<1> DEFINE Now(s, d) == s \in DOMAIN picked' /\ picked'[s].by = d
<1>2. \A s, d : PickedBy(s, d) => Now(s, d)
  BY DEF Picks, PickedBy
<1>3. Now(NextFile, c)
  BY DEF Picks
<1>s. size = 0 \/ size > 0
  OBVIOUS
<1>o. \A d \in Channels :
        OwnWire(d)' <=>
          /\ page'[d].file # 0 => Now(page'[d].file, d)
          /\ \A r \in DOMAIN reading'[d] : Now(reading'[d][r].file, d)
          /\ \A k \in DOMAIN up'[d] : up'[d][k].kind = "chunk" => Now(up'[d][k].chunk.file, d)
          /\ d \notin open' => /\ up'[d] = << >> /\ down'[d] = << >>
                              /\ reading'[d] = << >> /\ current'[d] = 0
  BY DEF OwnWire, PickedBy
<1>u. OwnUploads' <=>
        /\ \A i \in Files : stored'[i] # << >> <=> i \in DOMAIN uploads'
        /\ \A i \in DOMAIN uploads' : Now(stored'[i][1].file, uploads'[i].by)
  BY DEF OwnUploads, PickedBy
<1> HIDE DEF Now
<1>4. ASSUME NEW d \in Channels, d # c PROVE OwnWire(d)'
  <2>1. /\ page'[d] = page[d] /\ up'[d] = up[d] /\ reading'[d] = reading[d]
        /\ down'[d] = down[d] /\ current'[d] = current[d] /\ open' = open
    BY <1>4 DEF Picks, handler
  <2>2. OwnWire(d)
    BY DEF Owned
  <2> QED
    BY <1>2, <1>o, <2>1, <2>2 DEF OwnWire
<1>5. OwnWire(c)'
  <2>1. /\ up[c] \in Seq(UpFrame) /\ reading[c] \in Seq(Chunk) /\ OwnWire(c)
    BY DEF WiresOK, Owned
  <2>2. /\ <<StartFrame(n)>> \in Seq(UpFrame) /\ <<CompleteFrame>> \in Seq(UpFrame)
        /\ \A k \in DOMAIN <<StartFrame(n)>> : <<StartFrame(n)>>[k].kind = "start"
        /\ \A k \in DOMAIN <<CompleteFrame>> : <<CompleteFrame>>[k].kind = "complete"
    BY FrameTypes DEF StartFrame
  <2>3. /\ up[c] \o <<StartFrame(n)>> \in Seq(UpFrame)
        /\ \A k \in DOMAIN (up[c] \o <<StartFrame(n)>>) :
             (up[c] \o <<StartFrame(n)>>)[k].kind = "chunk" =>
               PickedBy((up[c] \o <<StartFrame(n)>>)[k].chunk.file, c)
    BY <2>1, <2>2, ConcatFacts DEF OwnWire
  <2> DEFINE q == up[c] \o <<StartFrame(n)>>
  <2> HIDE DEF q
  <2>4. \A k \in DOMAIN (q \o <<CompleteFrame>>) :
          (q \o <<CompleteFrame>>)[k].kind = "chunk" =>
            PickedBy((q \o <<CompleteFrame>>)[k].chunk.file, c)
    BY <2>2, <2>3, ConcatFacts DEF q
  <2>5. up'[c] = q \/ up'[c] = q \o <<CompleteFrame>>
    BY <1>s DEF Picks, q
  <2>6. \A k \in DOMAIN up'[c] : up'[c][k].kind = "chunk" => Now(up'[c][k].chunk.file, c)
    <3>1. CASE up'[c] = q
      BY <1>2, <2>3, <3>1 DEF q
    <3>2. CASE up'[c] = q \o <<CompleteFrame>>
      BY <1>2, <2>4, <3>2
    <3> QED
      BY <2>5, <3>1, <3>2
  <2>7. \A r \in DOMAIN reading'[c] : Now(reading'[c][r].file, c)
    <3>1. CASE reading'[c] = reading[c]
      BY <1>2, <2>1, <3>1 DEF OwnWire
    <3>2. CASE size > 0
      <4> DEFINE x == Reader(NextFile, 0)
      <4>1. x \in Chunk /\ reading'[c] = Append(reading[c], x) /\ x.file = NextFile
        BY <3>2 DEF Picks, Reader
      <4>2. \A r \in DOMAIN reading[c] : Now(reading[c][r].file, c)
        BY <1>2, <2>1 DEF OwnWire
      <4> HIDE DEF x
      <4> QED
        BY <1>3, <2>1, <4>1, <4>2, AppendFacts
    <3>3. size = 0 => reading'[c] = reading[c]
      BY DEF Picks
    <3> QED
      BY <1>s, <3>1, <3>2, <3>3
  <2>8. page'[c].file = NextFile /\ c \in open'
    BY DEF Picks, handler
  <2> QED
    BY <1>3, <1>o, <2>6, <2>7, <2>8
<1>6. OwnUploads'
  <2>1. stored' = stored /\ uploads' = uploads /\ OwnUploads
    BY DEF Owned, Picks, handler
  <2> QED
    BY <1>2, <1>u, <2>1 DEF OwnUploads
<1> QED
  BY <1>1, <1>4, <1>5, <1>6 DEF Owned, Picks, Files

\* What a page does.
LEMMA PageWired ==
  ASSUME SP!Inv, WiresOK, Owned, NEW c \in Channels, Page(c)
  PROVE  WiresOK' /\ Owned'
<1>0. Len(picked) <= MaxUploads /\ (\A d \in Channels : OwnWire(d)) /\ OwnUploads
  BY DEF Owned
<1>a. ASSUME picked' = picked, OwnWire(c)', UNCHANGED <<handler, stored>>,
             \A d \in Channels : d # c =>
               /\ page'[d].file = page[d].file /\ up'[d] = up[d] /\ reading'[d] = reading[d]
               /\ down'[d] = down[d]
      PROVE  Owned'
  <2>1. \A d \in Channels : d # c => OwnWire(d)'
    BY <1>0, <1>a DEF OwnWire, PickedBy, handler
  <2>2. OwnUploads'
    BY <1>0, <1>a DEF OwnUploads, PickedBy, handler
  <2> QED
    BY <1>0, <1>a, <2>1, <2>2 DEF Owned
<1>b. ASSUME picked' = picked PROVE \A s, d : PickedBy(s, d) => PickedBy(s, d)'
  BY <1>b DEF PickedBy
<1>1. ASSUME Loaded(c) PROVE WiresOK' /\ Owned'
  <2>1. PICK r \in DOMAIN reading[c] : Loads(c, r)
    BY <1>1, LoadedDoes
  <2>2. WiresOK'
    BY <2>1 DEF WiresOK, Loads
  <2> DEFINE x == [kind |-> "chunk", chunk |-> reading[c][r]]
  <2>3. /\ up'[c] = Append(up[c], x) /\ x \in UpFrame /\ x.kind = "chunk"
        /\ x.chunk = reading[c][r]
    BY <2>1, FrameTypes DEF Loads
  <2> HIDE DEF x
  <2>4. /\ up[c] \in Seq(UpFrame) /\ reading[c] \in Seq(Chunk) /\ OwnWire(c)
    BY <1>0 DEF WiresOK
  <2>5. \A k \in DOMAIN up'[c] : up'[c][k].kind = "chunk" => PickedBy(up'[c][k].chunk.file, c)
    BY <2>3, <2>4, AppendFacts DEF OwnWire
  <2>6. \A q \in DOMAIN reading'[c] : PickedBy(reading'[c][q].file, c)
    <3>1. /\ reading'[c] = RemoveAt(reading[c], r)
          /\ \A k \in DOMAIN RemoveAt(reading[c], r) :
               \E j \in DOMAIN reading[c] : RemoveAt(reading[c], r)[k] = reading[c][j]
      BY <2>1, <2>4, RemoveFacts DEF Loads
    <3> QED
      BY <2>4, <3>1 DEF OwnWire
  <2>7. picked' = picked /\ c \in open' /\ page'[c].file = page[c].file
    BY <2>1 DEF Loads, handler
  <2>8. OwnWire(c)'
    BY <1>b, <2>4, <2>5, <2>6, <2>7 DEF OwnWire
  <2> QED
    BY <1>a, <2>1, <2>2, <2>8 DEF Loads
<1>2. ASSUME ReadReceived(c) PROVE WiresOK' /\ Owned'
  <2>1. /\ Takes(c, "received") /\ UNCHANGED <<page, shown>>
        /\ page[c].file = 0 => UNCHANGED <<up, reading>>
        /\ page[c].file # 0 => GoesOn(c)
    BY <1>2, ReadReceivedDoes
  <2>2. WiresOK'
    BY <2>1 DEF WiresOK, Takes, GoesOn
  <2>3. /\ up[c] \in Seq(UpFrame) /\ reading[c] \in Seq(Chunk) /\ OwnWire(c)
    BY <1>0 DEF WiresOK
  <2>4. \A k \in DOMAIN up'[c] : up'[c][k].kind = "chunk" => PickedBy(up'[c][k].chunk.file, c)
    <3>1. /\ <<CompleteFrame>> \in Seq(UpFrame)
          /\ \A k \in DOMAIN <<CompleteFrame>> : <<CompleteFrame>>[k].kind = "complete"
      BY FrameTypes
    <3>2. \A k \in DOMAIN (up[c] \o <<CompleteFrame>>) :
            (up[c] \o <<CompleteFrame>>)[k].kind = "chunk" =>
              PickedBy((up[c] \o <<CompleteFrame>>)[k].chunk.file, c)
      BY <2>3, <3>1, ConcatFacts DEF OwnWire
    <3>3. up'[c] = up[c] \/ up'[c] = up[c] \o <<CompleteFrame>>
      <4>1. page[c].file # 0 => page[c].offset \in Nat /\ picked[page[c].file].size \in Nat
        BY PageFacts
      <4> QED
        BY <2>1, <4>1 DEF GoesOn
    <3> QED
      BY <2>3, <3>2, <3>3 DEF OwnWire
  <2>5. \A q \in DOMAIN reading'[c] : PickedBy(reading'[c][q].file, c)
    <3>1. CASE reading'[c] = reading[c]
      BY <2>3, <3>1 DEF OwnWire
    <3>2. CASE /\ page[c].file # 0
               /\ reading'[c] = Append(reading[c], Reader(page[c].file, page[c].offset))
               /\ Reader(page[c].file, page[c].offset) \in Chunk
      <4> DEFINE x == Reader(page[c].file, page[c].offset)
      <4>1. x.file = page[c].file
        BY DEF Reader
      <4>2. x \in Chunk /\ reading'[c] = Append(reading[c], x)
        BY <3>2
      <4> HIDE DEF x
      <4> QED
        BY <2>3, <3>2, <4>1, <4>2, AppendFacts DEF OwnWire
    <3>3. page[c].file # 0 => page[c].offset \in Nat /\ picked[page[c].file].size \in Nat
      BY PageFacts
    <3> QED
      BY <2>1, <3>1, <3>2, <3>3 DEF GoesOn
  <2>6. picked' = picked /\ c \in open' /\ page'[c].file = page[c].file
    BY <2>1 DEF Takes, handler
  <2>7. OwnWire(c)'
    BY <1>b, <2>3, <2>4, <2>5, <2>6 DEF OwnWire
  <2>8. \A d \in Channels : d # c => up'[d] = up[d] /\ reading'[d] = reading[d]
    BY <2>1 DEF GoesOn
  <2> QED
    BY <1>a, <2>1, <2>2, <2>7, <2>8 DEF Takes
<1>c. ASSUME Takes(c, "audited") \/ Takes(c, "file") \/ Takes(c, "blob"),
             UNCHANGED <<reading, up>>,
             \A d \in Channels : d # c => page'[d].file = page[d].file,
             page'[c].file = 0 \/ page'[c].file = page[c].file
      PROVE  Owned'
  <2>1. c \in open' /\ picked' = picked
    BY <1>c DEF Takes, handler
  <2>2. OwnWire(c)'
    BY <1>0, <1>b, <1>c, <2>1 DEF OwnWire
  <2> QED
    BY <1>a, <1>c, <2>2 DEF Takes
<1>3. ASSUME ReadAudited(c) PROVE WiresOK' /\ Owned'
  <2>1. /\ Takes(c, "audited") /\ UNCHANGED <<reading, up, shown>>
        /\ page' \in [Channels -> [file : 0..Len(picked), offset : Nat, label : Label]]
        /\ \A d \in Channels : d # c => page'[d] = page[d]
        /\ page'[c].file = 0
    BY <1>3, ReadAuditedDoes
  <2>2. WiresOK'
    BY <2>1 DEF WiresOK, Takes
  <2> QED
    BY <1>c, <2>1, <2>2
<1>4. ASSUME ReadFile(c) PROVE WiresOK' /\ Owned'
  <2>1. /\ Takes(c, "file") /\ UNCHANGED <<reading, up, shown>>
        /\ page' \in [Channels -> [file : 0..Len(picked), offset : Nat, label : Label]]
        /\ \A d \in Channels : page'[d].file = page[d].file
    BY <1>4, ReadFileDoes
  <2>2. WiresOK'
    BY <2>1 DEF WiresOK, Takes
  <2> QED
    BY <1>c, <2>1, <2>2
<1>5. ASSUME ReadBlob(c) PROVE WiresOK' /\ Owned'
  <2>1. /\ Takes(c, "blob") /\ UNCHANGED <<page, reading, up>>
        /\ shown' \in [Channels -> SUBSET [upload : Files, label : Label]]
    BY <1>5, ReadBlobDoes
  <2>2. WiresOK'
    BY <2>1 DEF WiresOK, Takes
  <2> QED
    BY <1>c, <2>1, <2>2
<1> QED
  BY <1>1, <1>2, <1>3, <1>4, <1>5 DEF Page

\* What the event loop of channel c does, and what ends the connection.
LEMMA EventWired ==
  ASSUME SP!Inv, WiresOK, Owned, NEW c \in Channels, Event(c) \/ Disconnect(c)
  PROVE  WiresOK' /\ Owned'
<1>0. Len(picked) <= MaxUploads /\ (\A d \in Channels : OwnWire(d)) /\ OwnUploads
  BY DEF Owned
<1>a. ASSUME Pops(c, "start") \/ Pops(c, "chunk") \/ Pops(c, "complete"),
             open' = open, OwnUploads',
             \A d \in Channels : d # c => /\ down'[d] = down[d] /\ current'[d] = current[d]
      PROVE  Owned'
  <2>1. /\ up[c] # << >> /\ up'[c] = Tail(up[c])
        /\ \A d \in Channels : d # c => up'[d] = up[d]
        /\ UNCHANGED <<picked, page, reading>>
    BY <1>a DEF Pops, client
  <2>2. up[c] \in Seq(UpFrame) /\ OwnWire(c)
    BY <1>0 DEF WiresOK
  <2>3. c \in open
    BY <2>1, <2>2 DEF OwnWire
  <2>4. \A k \in DOMAIN up'[c] : \E j \in DOMAIN up[c] : up'[c][k] = up[c][j]
    BY <2>1, <2>2, TailFacts
  <2>5. \A d \in Channels : \A s : PickedBy(s, d) => PickedBy(s, d)'
    BY <2>1 DEF PickedBy
  <2>6. OwnWire(c)'
    BY <1>a, <2>1, <2>2, <2>3, <2>4, <2>5, OwnWireStep
  <2>7. ASSUME NEW d \in Channels, d # c PROVE OwnWire(d)'
    BY <1>0, <1>a, <2>1, <2>5, <2>7, OwnWireStep
  <2> QED
    BY <1>0, <1>a, <2>1, <2>6, <2>7 DEF Owned
<1>1. ASSUME ReadStart(c) PROVE WiresOK' /\ Owned'
  <2>1. /\ Pops(c, "start")
        /\ UNCHANGED <<open, current, uploads, down, stored>>
    BY <1>1, ReadStartDoes
  <2>2. WiresOK'
    BY <2>1 DEF WiresOK, Pops, client
  <2>3. OwnUploads'
    BY <1>0, <2>1, OwnUploadsStep DEF Pops, client
  <2> QED
    BY <1>a, <2>1, <2>2, <2>3
<1>2. ASSUME ReadChunk(c) PROVE WiresOK' /\ Owned'
  <2>0. stored \in [Files -> Seq(Chunk)] /\ up[c] \in Seq(UpFrame)
    BY DEF WiresOK
  <2>1. CASE Begins(c) /\ Writes(c, NextNo)
    <3>1. WiresOK'
      BY <2>1 DEF WiresOK, Writes, Pops, client
    <3> DEFINE x == Head(up[c]).chunk
    <3>2. x \in Chunk /\ PickedBy(x.file, c)
      <4>1. up[c] # << >> /\ Head(up[c]).kind = "chunk" /\ x \in Chunk
        BY <2>1 DEF Writes, Pops
      <4>2. 1 \in DOMAIN up[c] /\ up[c][1] = Head(up[c])
        BY <2>0, <4>1, TailFacts
      <4> QED
        BY <1>0, <4>1, <4>2 DEF OwnWire
    <3> HIDE DEF x
    <3>3. PICK i : i = NextNo
      OBVIOUS
    <3>4. /\ i \in Files /\ i \notin DOMAIN uploads
          /\ DOMAIN uploads' = DOMAIN uploads \cup {i}
          /\ uploads'[i].by = c
          /\ \A j \in DOMAIN uploads : uploads'[j].by = uploads[j].by
      BY <2>1, <3>3 DEF Begins, Same
    <3>5. stored[i] = << >>
      BY <1>0, <3>4 DEF OwnUploads
    <3>6. /\ stored'[i] = Append(stored[i], x)
          /\ \A j \in Files : j # i => stored'[j] = stored[j]
          /\ picked' = picked
      BY <2>1, <3>3 DEF Writes, Pops, client, x
    <3>7. stored'[i] # << >> /\ stored'[i][1] = x
      BY <3>5, <3>6
    <3>8. \A j \in DOMAIN uploads : j \in Files /\ j # i
      BY <3>4, DomainFacts
    <3>9. OwnUploads'
      BY <1>0, <3>2, <3>4, <3>6, <3>7, <3>8 DEF OwnUploads, PickedBy
    <3> QED
      BY <1>a, <2>1, <3>1, <3>9 DEF Begins, Writes
  <2>2. CASE Continues(c) /\ Writes(c, current[c])
    <3>1. WiresOK'
      BY <2>2 DEF WiresOK, Writes, Pops, client
    <3>2. PICK i : i = current[c]
      OBVIOUS
    <3> DEFINE x == Head(up[c]).chunk
    <3>3. /\ i \in Files /\ i \in DOMAIN uploads
          /\ DOMAIN uploads' = DOMAIN uploads
          /\ \A j \in DOMAIN uploads : uploads'[j].by = uploads[j].by
      BY <2>2, <3>2, CurrentFacts DEF Continues, Same
    <3>4. /\ stored'[i] = Append(stored[i], x) /\ x \in Chunk
          /\ \A j \in Files : j # i => stored'[j] = stored[j]
          /\ picked' = picked
      BY <2>2, <3>2 DEF Writes, Pops, client
    <3> HIDE DEF x
    <3>5. stored[i] \in Seq(Chunk) /\ stored[i] # << >>
      BY <1>0, <2>0, <3>3 DEF OwnUploads
    <3>6. stored'[i] # << >> /\ stored'[i][1] = stored[i][1]
      BY <3>4, <3>5, AppendFacts, TailFacts
    <3>7. \A j \in DOMAIN uploads : j \in Files
      BY DomainFacts
    <3>8. \A j \in Files : /\ stored'[j] # << >> <=> stored[j] # << >>
                           /\ stored[j] # << >> => stored'[j][1] = stored[j][1]
      BY <3>4, <3>5, <3>6
    <3>9. OwnUploads'
      BY <1>0, <3>3, <3>4, <3>7, <3>8 DEF OwnUploads, PickedBy
    <3> QED
      BY <1>a, <2>2, <3>1, <3>9 DEF Continues, Writes
  <2> QED
    BY <1>2, <2>1, <2>2, ReadChunkDoes
<1>3. ASSUME ReadComplete(c) PROVE WiresOK' /\ Owned'
  <2>1. Pops(c, "complete") /\ UNCHANGED <<down, stored>>
    BY <1>3, ReadCompleteDoes
  <2>2. WiresOK'
    BY <2>1 DEF WiresOK, Pops, client
  <2>3. CASE current[c] = 0
    <3>1. UNCHANGED handler
      BY <1>3, <2>3, ReadCompleteDoes
    <3>2. OwnUploads'
      BY <1>0, <2>1, <3>1, OwnUploadsStep DEF Pops, client, handler
    <3> QED
      BY <1>a, <2>1, <2>2, <3>1, <3>2 DEF handler
  <2>4. CASE current[c] # 0
    <3>1. /\ current' = [current EXCEPT ![c] = 0]
          /\ \E st \in {"received", "lost"} : Proceeds(current[c], st)
      BY <1>3, <2>4, ReadCompleteDoes
    <3>2. /\ open' = open /\ DOMAIN uploads' = DOMAIN uploads
          /\ \A j \in DOMAIN uploads : uploads'[j].by = uploads[j].by
      BY <3>1 DEF Proceeds, Same
    <3>3. OwnUploads'
      BY <1>0, <2>1, <3>2, OwnUploadsStep DEF Pops, client
    <3>4. \A d \in Channels : d # c => current'[d] = current[d]
      BY <3>1 DEF SP!Inv, SP!TypeOK
    <3> QED
      BY <1>a, <2>1, <2>2, <3>2, <3>3, <3>4
  <2> QED
    BY <2>3, <2>4
<1>4. ASSUME Goes(c) PROVE WiresOK' /\ Owned'
  <2>0. /\ up \in [Channels -> Seq(UpFrame)] /\ down \in [Channels -> Seq(DownFrame)]
        /\ reading \in [Channels -> Seq(Chunk)]
        /\ current \in [Channels -> {0} \cup DOMAIN uploads]
    BY DEF WiresOK, SP!Inv, SP!TypeOK
  <2>1. \A S : << >> \in Seq(S)
    OBVIOUS
  <2>2. /\ up' \in [Channels -> Seq(UpFrame)] /\ down' \in [Channels -> Seq(DownFrame)]
        /\ reading' \in [Channels -> Seq(Chunk)]
        /\ up'[c] = << >> /\ down'[c] = << >> /\ reading'[c] = << >> /\ current'[c] = 0
        /\ \A d \in Channels : d # c =>
             /\ up'[d] = up[d] /\ down'[d] = down[d] /\ reading'[d] = reading[d]
             /\ current'[d] = current[d] /\ (d \in open <=> d \in open')
    BY <1>4, <2>0, <2>1 DEF Goes
  <2>3. UNCHANGED <<uploads, picked, page, stored, shown>>
    BY <1>4 DEF Goes
  <2>4. WiresOK'
    BY <2>2, <2>3 DEF WiresOK
  <2>5. \A d \in Channels : \A s : PickedBy(s, d) => PickedBy(s, d)'
    BY <2>3 DEF PickedBy
  <2>6. ASSUME NEW d \in Channels, d # c PROVE OwnWire(d)'
    <3>1. \/ d \in open'
          \/ /\ d \notin open /\ up'[d] = up[d] /\ down'[d] = down[d]
             /\ reading'[d] = reading[d] /\ current'[d] = current[d]
      BY <2>2, <2>6
    <3>2. page'[d] = page[d] /\ up'[d] = up[d] /\ reading'[d] = reading[d]
      BY <2>2, <2>3, <2>6
    <3> QED
      BY <1>0, <2>5, <3>1, <3>2, OwnWireStep
  <2>7. OwnWire(c)'
    <3>1. DOMAIN up'[c] = {} /\ DOMAIN reading'[c] = {}
      BY <2>2
    <3>2. page[c].file # 0 => PickedBy(page[c].file, c)
      BY <1>0 DEF OwnWire
    <3> QED
      BY <2>2, <2>3, <3>1, <3>2 DEF OwnWire, PickedBy
  <2>8. OwnUploads'
    BY <1>0, <2>3, OwnUploadsStep
  <2> QED
    BY <1>0, <2>3, <2>4, <2>6, <2>7, <2>8 DEF Owned
<1> QED
  BY <1>1, <1>2, <1>3, <1>4, CloseAndCut DEF Event

\* What the task of upload i does.
LEMMA TaskWired ==
  ASSUME SP!Inv, WiresOK, Owned, NEW i \in Files, Task(i)
  PROVE  WiresOK' /\ Owned'
<1>0. Len(picked) <= MaxUploads /\ (\A d \in Channels : OwnWire(d)) /\ OwnUploads
  BY DEF Owned
<1>1. /\ i \in DOMAIN uploads /\ open' = open /\ DOMAIN uploads' = DOMAIN uploads
      /\ \A j \in DOMAIN uploads : uploads'[j].by = uploads[j].by
      /\ current' = current
  BY TaskSends DEF Proceeds, Same
<1>2. /\ UNCHANGED <<client, up, stored, shown>>
      /\ down' \in [Channels -> Seq(DownFrame)]
      /\ \A d \in Channels : d \in open \/ down'[d] = down[d]
  BY TaskSends DEF Sends, WiresOK
<1>3. WiresOK'
  BY <1>2 DEF WiresOK, client
<1>4. OwnUploads'
  BY <1>0, <1>1, <1>2, OwnUploadsStep DEF client
<1>5. ASSUME NEW d \in Channels PROVE OwnWire(d)'
  <2>1. /\ picked' = picked /\ page' = page /\ up' = up /\ reading' = reading
        /\ down'[d] = down[d] \/ d \in open'
    BY <1>1, <1>2 DEF client
  <2>2. \A s : PickedBy(s, d) => PickedBy(s, d)'
    BY <2>1 DEF PickedBy
  <2> QED
    BY <1>0, <1>1, <2>1, <2>2, OwnWireStep
<1> QED
  BY <1>0, <1>2, <1>3, <1>4, <1>5 DEF Owned, client

\* Every step keeps what is under way typed and owned.
LEMMA WiredStep ==
  ASSUME SP!Inv, WiresOK, Owned, [Next]_vars
  PROVE  WiresOK' /\ Owned'
<1>1. CASE UNCHANGED vars
  BY <1>1 DEF vars, handler, client, WiresOK, Owned, OwnWire, OwnUploads, PickedBy
<1> QED
  BY <1>1, PickDoes, PickWired, PageWired, EventWired, TaskWired DEF Next

----------------------------------------------------------------------------
(* The phases of a patient page *)

\* The stages of a task that has answered.
Answered == {"audited", "announced", "cast", "done"}

\* A step leaves the uploads of channel d alone, or moves on tasks that have
\* answered; it may add uploads of other channels, and files.
Leaves(d) ==
  /\ DOMAIN uploads \subseteq DOMAIN uploads'
  /\ \A j \in DOMAIN uploads' : j \notin DOMAIN uploads => uploads'[j].by # d
  /\ \A j \in DOMAIN uploads :
       /\ uploads'[j].by = uploads[j].by /\ uploads'[j].name = uploads[j].name
       /\ uploads[j].by = d =>
            /\ stored'[j] = stored[j]
            /\ \/ uploads'[j].stage = uploads[j].stage
               \/ uploads'[j].stage \in Answered /\ uploads[j].stage \in Answered
  /\ \A s \in DOMAIN picked : s \in DOMAIN picked' /\ picked'[s] = picked[s]

\* What is said of a file of channel d survives such a step.
LEMMA LeavesFacts ==
  ASSUME SP!Inv, Owned, Owned', DOMAIN uploads' \subseteq Files,
         NEW d \in Channels, Leaves(d), NEW s, PickedBy(s, d)
  PROVE  /\ Unsent(s) => Unsent(s)'
         /\ \A i : IsUpload(i, s) => IsUpload(i, s)'
         /\ \A i : IsUpload(i, s) /\ InOrder(i, s) => InOrder(i, s)'
         /\ \A e : OnlyOpen(d, e) => OnlyOpen(d, e)'
         /\ picked'[s] = picked[s] /\ PickedBy(s, d)'
<1>1. picked'[s] = picked[s] /\ s \in DOMAIN picked' /\ picked[s].by = d
  BY DEF Leaves, PickedBy
<1>2. /\ \A j \in Files : stored[j] # << >> <=> j \in DOMAIN uploads
      /\ \A j \in Files : stored'[j] # << >> <=> j \in DOMAIN uploads'
      /\ \A j \in DOMAIN uploads' : picked'[stored'[j][1].file].by = uploads'[j].by
      /\ \A j \in DOMAIN uploads : picked[stored[j][1].file].by = uploads[j].by
  BY DEF Owned, OwnUploads, PickedBy
\* Only uploads of channel d are of file s, and they are the same as before.
<1>3. ASSUME NEW j \in Files
      PROVE  stored'[j] # << >> /\ stored'[j][1].file = s
               <=> stored[j] # << >> /\ stored[j][1].file = s
  <2>1. CASE j \in DOMAIN uploads /\ uploads[j].by = d
    BY <2>1 DEF Leaves
  <2>2. CASE j \in DOMAIN uploads /\ uploads[j].by # d
    <3>1. j \in DOMAIN uploads' /\ uploads'[j].by # d
      BY <2>2 DEF Leaves
    <3> QED
      BY <1>1, <1>2, <2>2, <3>1
  <2>3. CASE j \notin DOMAIN uploads
    <3>1. stored[j] = << >>
      BY <1>2, <2>3
    <3>2. j \in DOMAIN uploads' => uploads'[j].by # d
      BY <2>3 DEF Leaves
    <3> QED
      BY <1>1, <1>2, <3>1, <3>2
  <2> QED
    BY <2>1, <2>2, <2>3
<1>4. Unsent(s) => Unsent(s)'
  BY <1>3 DEF Unsent
<1>5. ASSUME NEW i, IsUpload(i, s) PROVE IsUpload(i, s)'
  <2>1. /\ i \in DOMAIN uploads /\ uploads[i].by = picked[s].by
        /\ \A j \in Files : stored[j] # << >> /\ stored[j][1].file = s <=> j = i
    BY <1>5 DEF IsUpload
  <2>2. i \in DOMAIN uploads' /\ uploads'[i].by = picked'[s].by
    BY <1>1, <2>1 DEF Leaves
  <2> QED
    BY <1>3, <2>1, <2>2 DEF IsUpload
<1>6. ASSUME NEW i, IsUpload(i, s), InOrder(i, s) PROVE InOrder(i, s)'
  <2>1. i \in DOMAIN uploads /\ uploads[i].by = d
    BY <1>1, <1>6 DEF IsUpload
  <2>2. stored'[i] = stored[i] /\ uploads'[i].name = uploads[i].name
    BY <2>1 DEF Leaves
  <2> QED
    BY <1>1, <1>6, <2>2 DEF InOrder
<1>7. ASSUME NEW e, OnlyOpen(d, e) PROVE OnlyOpen(d, e)'
  <2> SUFFICES ASSUME NEW j \in DOMAIN uploads', uploads'[j].by = d, j # e
               PROVE  uploads'[j].stage \notin {"writing", "received"}
    BY DEF OnlyOpen, Settled
  <2>1. j \in DOMAIN uploads /\ uploads[j].by = d
    BY DEF Leaves
  <2>2. uploads[j].stage \notin {"writing", "received"}
    BY <1>7, <2>1 DEF OnlyOpen, Settled
  <2>3. uploads'[j].stage = uploads[j].stage \/ uploads'[j].stage \in Answered
    BY <2>1 DEF Leaves
  <2> QED
    BY <2>2, <2>3 DEF Answered
<1> QED
  BY <1>1, <1>4, <1>5, <1>6, <1>7 DEF PickedBy

\* As many acknowledgements and answers are under way to page d as before.
CountsKept(d) ==
  \A kind \in {"received", "audited"} :
    /\ None(down[d], kind) => None(down[d], kind)'
    /\ One(down[d], kind) => One(down[d], kind)'

\* Channel d as its page sees it.
Rests(d) ==
  /\ page'[d].file = page[d].file /\ page'[d].offset = page[d].offset
  /\ up'[d] = up[d] /\ reading'[d] = reading[d]
  /\ current'[d] = current[d] /\ fileName'[d] = fileName[d]

\* A step of somebody else leaves page d in its phase.
LEMMA PhaseKept ==
  ASSUME SP!Inv, Owned, Owned', DOMAIN uploads' \subseteq Files,
         NEW d \in Channels, Leaves(d), CountsKept(d), Rests(d), Phase(d)
  PROVE  Phase(d)'
<1>1. PICK s : s = page[d].file
  OBVIOUS
<1>2. PICK i : i = current[d]
  OBVIOUS
<1>3. /\ None(down[d], "received") => None(down[d], "received")'
      /\ None(down[d], "audited") => None(down[d], "audited")'
      /\ One(down[d], "received") => One(down[d], "received")'
      /\ One(down[d], "audited") => One(down[d], "audited")'
  BY DEF CountsKept
<1>4. CASE Idle(d)
  <2>1. OnlyOpen(d, 0) => OnlyOpen(d, 0)'
    <3> SUFFICES ASSUME OnlyOpen(d, 0), NEW j \in DOMAIN uploads', uploads'[j].by = d, j # 0
                 PROVE  uploads'[j].stage \notin {"writing", "received"}
      BY DEF OnlyOpen, Settled
    <3>1. j \in DOMAIN uploads /\ uploads[j].by = d
      BY DEF Leaves
    <3>2. uploads[j].stage \notin {"writing", "received"}
      BY <3>1 DEF OnlyOpen, Settled
    <3>3. uploads'[j].stage = uploads[j].stage \/ uploads'[j].stage \in Answered
      BY <3>1 DEF Leaves
    <3> QED
      BY <3>2, <3>3 DEF Answered
  <2>2. Idle(d)'
    BY <1>3, <1>4, <2>1 DEF Idle, Silent, Rests
  <2> QED
    BY <2>2 DEF Phase
<1>5. CASE s # 0 /\ ~Idle(d)
  <2>0. PickedBy(s, d)
    BY <1>1, <1>5 DEF Owned, OwnWire
  <2>1. /\ Unsent(s) => Unsent(s)'
        /\ \A j : IsUpload(j, s) => IsUpload(j, s)'
        /\ \A j : IsUpload(j, s) /\ InOrder(j, s) => InOrder(j, s)'
        /\ \A e : OnlyOpen(d, e) => OnlyOpen(d, e)'
        /\ picked'[s] = picked[s]
    BY <2>0, LeavesFacts
  <2>2. page'[d].file = s
    BY <1>1 DEF Rests
  <2>3. CASE Empty(d)
    <3>1. Empty(d)'
      BY <1>1, <1>3, <2>1, <2>2, <2>3 DEF Empty, Rests, StartOf
    <3> QED
      BY <3>1 DEF Phase
  <2>4. CASE Beginning(d)
    <3>1. Beginning(d)'
      BY <1>1, <1>3, <2>1, <2>2, <2>4 DEF Beginning, Rests, StartOf
    <3> QED
      BY <3>1 DEF Phase
  <2>5. CASE Sending(d)
    <3>1. IsUpload(i, s) /\ i \in DOMAIN uploads /\ uploads[i].by = d
      BY <1>1, <1>2, <2>0, <2>5 DEF Sending, IsUpload, PickedBy
    <3>2. /\ stored'[i] = stored[i] /\ current'[d] = i
          /\ uploads[i].stage = "writing" => uploads'[i].stage = "writing"
      BY <1>2, <3>1 DEF Leaves, Rests, Answered
    <3>3. Sending(d)'
      BY <1>1, <1>2, <1>3, <2>1, <2>2, <2>5, <3>1, <3>2 DEF Sending, Rests
    <3> QED
      BY <3>3 DEF Phase
  <2>6. CASE Delivered(d)
    <3>1. PICK j \in Files :
            /\ IsUpload(j, s) /\ OnlyOpen(d, j)
            /\ uploads[j].stage # "writing"
            /\ IF uploads[j].stage \in {"received", "lost"}
               THEN None(down[d], "audited") ELSE One(down[d], "audited")
      BY <1>1, <2>6 DEF Delivered
    <3>2. j \in DOMAIN uploads /\ uploads[j].by = d
      BY <2>0, <3>1 DEF IsUpload, PickedBy
    <3>3. \/ uploads'[j].stage = uploads[j].stage
          \/ uploads'[j].stage \in Answered /\ uploads[j].stage \in Answered
      BY <3>2 DEF Leaves
    <3>4. /\ IsUpload(j, s)' /\ OnlyOpen(d, j)'
          /\ uploads'[j].stage # "writing"
          /\ IF uploads'[j].stage \in {"received", "lost"}
             THEN None(down[d], "audited")' ELSE One(down[d], "audited")'
      BY <1>3, <2>1, <3>1, <3>3 DEF Answered
    <3>5. Delivered(d)'
      BY <1>1, <1>3, <2>2, <2>6, <3>4 DEF Delivered, Silent, Rests
    <3> QED
      BY <3>5 DEF Phase
  <2> QED
    BY <1>5, <2>3, <2>4, <2>5, <2>6 DEF Phase
<1>6. s = 0 => Idle(d)
  BY <1>1 DEF Phase, Empty, Beginning, Sending, Delivered
<1> QED
  BY <1>4, <1>5, <1>6

\* A queue of one and another frame.
LEMMA OneMore ==
  ASSUME NEW S, NEW q \in Seq(S), NEW b \in S
  PROVE  Len(q) = 1 => Append(q, b) = <<q[1], b>>
<1> DEFINE t == Append(q, b)
           r == <<q[1], b>>
<1>0. /\ t \in Seq(S) /\ Len(t) = Len(q) + 1
      /\ \A i \in 1..Len(q) : t[i] = q[i]
      /\ t[Len(q) + 1] = b
  BY AppendProperties
<1> SUFFICES ASSUME Len(q) = 1 PROVE t = r
  OBVIOUS
<1> HIDE DEF t
<1>1. t \in Seq(S) /\ Len(t) = 2 /\ t[1] = q[1] /\ t[2] = b
  BY <1>0
<1>2. r \in Seq(S) /\ Len(r) = 2 /\ r[1] = q[1] /\ r[2] = b
  OBVIOUS
<1> HIDE DEF r
<1>3. \A i \in 1..2 : i = 1 \/ i = 2
  OBVIOUS
<1> QED
  BY <1>1, <1>2, <1>3, SeqEqual

\* Short queues.
LEMMA ShortQueues ==
  ASSUME NEW S, NEW a \in S, NEW b \in S
  PROVE  /\ << >> \o <<a>> = <<a>> /\ <<a>> \o <<b>> = <<a, b>>
         /\ Append(<< >>, a) = <<a>>
         /\ Head(<<a>>) = a /\ Tail(<<a>>) = << >>
         /\ Head(<<a, b>>) = a /\ Tail(<<a, b>>) = <<b>>
         /\ RemoveAt(<<a>>, 1) = << >> /\ DOMAIN <<a>> = {1} /\ <<a>>[1] = a
         /\ <<a>> # << >> /\ <<a, b>> # << >>
<1>1. <<a>> \in Seq(S) /\ <<b>> \in Seq(S) /\ Len(<<a>>) = 1 /\ 1 \in DOMAIN <<a>>
  OBVIOUS
<1>2. << >> \o <<a>> = <<a>>
  BY <1>1, ConcatEmptySeq
<1>3. Append(<< >>, a) = <<a>>
  <2>1. << >> \in Seq(S) /\ Len(<< >>) = 0
    BY EmptySeq
  <2>2. Append(<< >>, a) = << >> \o <<a>>
    BY <2>1, AppendIsConcat
  <2> QED
    BY <1>2, <2>2
<1>4. <<a>> \o <<b>> = <<a, b>>
  <2>1. PICK q : q = <<a>>
    OBVIOUS
  <2>2. q \in Seq(S) /\ Len(q) = 1 /\ q[1] = a
    BY <1>1, <2>1
  <2>3. Append(q, b) = q \o <<b>>
    BY <2>2, AppendIsConcat
  <2>4. Append(q, b) = <<a, b>>
    BY <2>2, OneMore
  <2> QED
    BY <2>1, <2>3, <2>4
<1>5. Tail(<<a>>) = << >> /\ Tail(<<a, b>>) = <<b>>
  OBVIOUS
<1>6. RemoveAt(<<a>>, 1) = << >>
  BY <1>1, RemoveFacts
<1> QED
  BY <1>1, <1>2, <1>3, <1>4, <1>5, <1>6

\* What page c is in by its file and by what is under way.
LEMMA PhaseFacts ==
  ASSUME NEW c, Phase(c)
  PROVE  /\ page[c].file = 0 => Idle(c)
         /\ ~None(down[c], "received") => Sending(c)
         /\ ~None(down[c], "audited") => Delivered(c)
         /\ reading[c] # << >> => Beginning(c) \/ Sending(c)
         /\ up[c] # << >> => Empty(c) \/ Beginning(c) \/ Sending(c)
<1>1. page[c].file = 0 => Idle(c)
  BY DEF Phase, Empty, Beginning, Sending, Delivered
<1>2. ~None(down[c], "received") => Sending(c)
  BY DEF Phase, Idle, Empty, Beginning, Delivered, Silent
<1>3. ~None(down[c], "audited") => Delivered(c)
  BY DEF Phase, Idle, Empty, Beginning, Sending
<1>4. reading[c] # << >> => Beginning(c) \/ Sending(c)
  BY DEF Phase, Idle, Empty, Delivered, Silent
<1>5. up[c] # << >> => Empty(c) \/ Beginning(c) \/ Sending(c)
  BY DEF Phase, Idle, Delivered, Silent
<1> QED
  BY <1>1, <1>2, <1>3, <1>4, <1>5

\* A pick begins a file.
LEMMA PickPhase ==
  ASSUME SP!Inv, WiresOK, Owned, NEW c \in Channels \ Hasty, Phase(c),
         NEW n \in Names, NEW size \in 0..MaxChunks, Picks(c, n, size)
  PROVE  Phase(c)'
<1>1. Idle(c)
  BY PhaseFacts DEF Picks
<1>2. PICK s : s = NextFile
  OBVIOUS
<1>3. /\ s # 0 /\ s \notin DOMAIN picked /\ picked'[s] = [by |-> c, name |-> n, size |-> size]
      /\ page'[c].file = s /\ page'[c].offset = 0
      /\ UNCHANGED <<handler, down, stored, shown>>
  BY <1>2 DEF Picks
<1>4. Unsent(s)'
  BY <1>3 DEF Owned, OwnUploads, PickedBy, Unsent, handler
<1>5. OnlyOpen(c, 0)' /\ None(down[c], "received")' /\ None(down[c], "audited")'
  BY <1>1, <1>3 DEF Idle, Silent, OnlyOpen, Settled, handler
<1>6. current'[c] = 0
  BY <1>1, <1>3 DEF Idle, handler
<1> DEFINE f == StartFrame(n)
<1>7. f \in UpFrame /\ CompleteFrame \in UpFrame
  BY FrameTypes DEF StartFrame
<1>8. StartOf(s)' = f
  BY <1>3 DEF StartOf, StartFrame
<1> HIDE DEF f
<1>9. up[c] = << >> /\ reading[c] = << >>
  BY <1>1 DEF Idle, Silent
<1>10. CASE size = 0
  <2>1. up'[c] = up[c] \o <<f>> \o <<CompleteFrame>> /\ reading'[c] = reading[c]
    BY <1>10 DEF Picks, f
  <2>2. up'[c] = <<f, CompleteFrame>>
    BY <1>7, <1>9, <2>1, ShortQueues
  <2>3. picked'[s].size = 0
    BY <1>3, <1>10
  <2>4. Empty(c)'
    BY <1>3, <1>4, <1>5, <1>6, <1>8, <1>9, <2>1, <2>2, <2>3 DEF Empty, CompleteFrame
  <2> QED
    BY <2>4 DEF Phase
<1>11. CASE size > 0
  <2> DEFINE x == Reader(s, 0)
  <2>1. /\ up'[c] = up[c] \o <<f>> /\ reading'[c] = Append(reading[c], x) /\ x \in Chunk
    BY <1>2, <1>11 DEF Picks, f
  <2> HIDE DEF x
  <2>2. up'[c] = <<f>> /\ reading'[c] = <<x>>
    BY <1>7, <1>9, <2>1, ShortQueues
  <2>3. picked'[s].size > 0
    BY <1>3, <1>11
  <2>4. Beginning(c)'
    BY <1>3, <1>4, <1>5, <1>6, <1>8, <2>2, <2>3 DEF Beginning, Reader, x
  <2> QED
    BY <2>4 DEF Phase
<1> QED
  BY <1>10, <1>11

\* A step that touches neither files nor uploads.
LEMMA LeavesAlone ==
  ASSUME SP!Inv, Owned, Owned', UNCHANGED <<picked, uploads, stored>>,
         NEW d \in Channels, NEW s, PickedBy(s, d)
  PROVE  /\ Leaves(d) /\ DOMAIN uploads' \subseteq Files
         /\ Unsent(s) => Unsent(s)'
         /\ \A i : IsUpload(i, s) => IsUpload(i, s)'
         /\ \A i : IsUpload(i, s) /\ InOrder(i, s) => InOrder(i, s)'
         /\ \A e : OnlyOpen(d, e) => OnlyOpen(d, e)'
         /\ picked'[s] = picked[s]
<1>1. Leaves(d) /\ DOMAIN uploads' \subseteq Files
  BY DomainFacts DEF Leaves
<1> QED
  BY <1>1, LeavesFacts

\* reader.onload: the chunk is sent.
LEMMA LoadedPhase ==
  ASSUME SP!Inv, WiresOK, Owned, Owned', NEW c \in Channels \ Hasty, Phase(c),
         NEW r \in DOMAIN reading[c], Loads(c, r)
  PROVE  Phase(c)'
<1>1. PICK s : s = page[c].file
  OBVIOUS
<1>2. reading[c] # << >>
  OBVIOUS
<1>3. Beginning(c) \/ Sending(c)
  BY <1>2, PhaseFacts
<1>4. s # 0 /\ PickedBy(s, c) /\ picked[s].size \in Nat /\ page[c].offset \in Nat
  BY <1>1, <1>3, PageFacts DEF Beginning, Sending, Owned, OwnWire
<1>5. /\ UNCHANGED <<picked, uploads, stored, down, current, fileName>>
      /\ page'[c].file = s /\ page'[c].offset = page[c].offset + 1
      /\ up'[c] = Append(up[c], [kind |-> "chunk", chunk |-> reading[c][r]])
      /\ reading'[c] = RemoveAt(reading[c], r) /\ reading[c][r] \in Chunk
  BY <1>1 DEF Loads, handler
<1>6. /\ Unsent(s) => Unsent(s)'
      /\ \A i : IsUpload(i, s) => IsUpload(i, s)'
      /\ \A i : IsUpload(i, s) /\ InOrder(i, s) => InOrder(i, s)'
      /\ \A e : OnlyOpen(c, e) => OnlyOpen(c, e)'
      /\ picked'[s] = picked[s]
  BY <1>4, <1>5, LeavesAlone
\* There was one reader, and it is done.
<1>7. ASSUME NEW k, reading[c] = <<Reader(s, k)>>
      PROVE  /\ reading'[c] = << >> /\ Reader(s, k) \in Chunk
             /\ up'[c] = Append(up[c], ChunkOf(s, k)) /\ ChunkOf(s, k) \in UpFrame
  <2> DEFINE x == Reader(s, k)
  <2>1. reading[c] = <<x>>
    BY <1>7
  <2> HIDE DEF x
  <2>2. r = 1 /\ reading[c][r] = x /\ x \in Chunk
    BY <1>5, <2>1
  <2>3. reading'[c] = << >>
    BY <1>5, <2>1, <2>2, ShortQueues
  <2>4. ChunkOf(s, k) = [kind |-> "chunk", chunk |-> x]
    BY DEF ChunkOf, Reader, x
  <2>5. ChunkOf(s, k) \in UpFrame
    BY <2>2, <2>4, FrameTypes
  <2> QED
    BY <1>5, <2>2, <2>3, <2>4, <2>5 DEF x
<1>8. CASE Beginning(c)
  <2>1. /\ page[c].offset = 0 /\ reading[c] = <<Reader(s, 0)>>
        /\ up[c] = <<StartOf(s)>> \/ (up[c] = << >> /\ fileName[c] = picked[s].name)
    BY <1>1, <1>2, <1>8 DEF Beginning
  <2>2. up'[c] = Append(up[c], ChunkOf(s, 0)) /\ ChunkOf(s, 0) \in UpFrame /\ reading'[c] = << >>
    BY <1>7, <2>1
  <2>3. StartOf(s) \in UpFrame
    <3>1. picked[s].name \in Names
      BY <1>1, <1>4, PageFacts DEF PickedFile
    <3> QED
      BY <3>1, FrameTypes DEF StartOf
  <2>4. \/ up'[c] = <<StartOf(s), ChunkOf(s, 0)>>
        \/ up'[c] = <<ChunkOf(s, 0)>> /\ fileName'[c] = picked[s].name
    <3>1. CASE up[c] = <<StartOf(s)>>
      <4> DEFINE a == StartOf(s)
                 b == ChunkOf(s, 0)
      <4>1. a \in UpFrame /\ b \in UpFrame
        BY <2>2, <2>3
      <4>2. up[c] = <<a>> /\ up'[c] = Append(up[c], b)
        BY <2>2, <3>1
      <4> HIDE DEF a, b
      <4>3. up[c] \in Seq(UpFrame) /\ Len(up[c]) = 1 /\ up[c][1] = a
        BY <4>1, <4>2
      <4>4. up'[c] = <<a, b>>
        BY <4>1, <4>2, <4>3, OneMore
      <4> QED
        BY <4>4 DEF a, b
    <3>2. CASE up[c] = << >> /\ fileName[c] = picked[s].name
      <4>1. up'[c] = <<ChunkOf(s, 0)>>
        BY <2>2, <3>2, ShortQueues
      <4> QED
        BY <1>5, <3>2, <4>1
    <3> QED
      BY <2>1, <3>1, <3>2
  <2>5. StartOf(s)' = StartOf(s) /\ ChunkOf(s, 0)' = ChunkOf(s, 0)
    BY <1>6 DEF StartOf, ChunkOf
  <2>6. Beginning(c)'
    BY <1>1, <1>5, <1>6, <1>8, <2>1, <2>2, <2>4, <2>5 DEF Beginning, None
  <2> QED
    BY <2>6 DEF Phase
<1>9. CASE Sending(c)
  <2>1. PICK i : i = current[c]
    OBVIOUS
  <2>2. PICK m : m = Len(stored[i])
    OBVIOUS
  <2>3. /\ i # 0 /\ IsUpload(i, s) /\ InOrder(i, s) /\ uploads[i].stage = "writing"
        /\ OnlyOpen(c, i) /\ None(down[c], "audited")
        /\ up[c] = << >> /\ reading[c] = <<Reader(s, m)>>
        /\ page[c].offset = m /\ m < picked[s].size /\ None(down[c], "received")
    BY <1>1, <1>2, <1>9, <2>1, <2>2 DEF Sending
  <2>4. up'[c] = <<ChunkOf(s, m)>> /\ reading'[c] = << >>
    BY <1>7, <2>3, ShortQueues
  <2>5. /\ current'[c] = i /\ stored'[i] = stored[i] /\ uploads'[i] = uploads[i]
        /\ None(down[c], "audited")' /\ None(down[c], "received")'
    BY <1>5, <2>1, <2>3
  <2>6. IsUpload(i, s)' /\ InOrder(i, s)' /\ OnlyOpen(c, i)'
    BY <1>6, <2>3
  <2>7. /\ page'[c].file = s /\ page'[c].offset = m + 1 /\ Len(stored'[current'[c]]) = m
        /\ m < picked'[s].size /\ uploads'[i].stage = "writing"
    BY <1>5, <1>6, <2>2, <2>3, <2>5
  <2>8. Sending(c)'
    BY <2>3, <2>4, <2>5, <2>6, <2>7, <1>4 DEF Sending
  <2> QED
    BY <2>8 DEF Phase
<1> QED
  BY <1>3, <1>8, <1>9

\* UPLOAD_SERVER_RECEIVED_CHUNK: the next chunk is read, or the end is told.
LEMMA ReceivedPhase ==
  ASSUME SP!Inv, WiresOK, Owned, Owned', NEW c \in Channels \ Hasty, Phase(c), ReadReceived(c)
  PROVE  Phase(c)'
<1>1. PICK s : s = page[c].file
  OBVIOUS
<1>2. /\ Takes(c, "received") /\ UNCHANGED <<page, shown>>
      /\ page[c].file # 0 => GoesOn(c)
  BY ReadReceivedDoes
<1>3. /\ down[c] \in Seq(DownFrame) /\ down[c] # << >> /\ Head(down[c]).kind = "received"
      /\ down'[c] = Tail(down[c])
      /\ UNCHANGED <<picked, uploads, stored, current, fileName>>
  BY <1>2 DEF Takes, WiresOK, handler
<1>4. ~None(down[c], "received")
  BY <1>3, TakenFacts
<1>5. Sending(c)
  BY <1>4, PhaseFacts
<1>6. PICK i : i = current[c]
  OBVIOUS
<1>7. PICK m : m = Len(stored[i])
  OBVIOUS
<1>8. /\ s # 0 /\ i # 0 /\ IsUpload(i, s) /\ InOrder(i, s) /\ uploads[i].stage = "writing"
      /\ OnlyOpen(c, i) /\ None(down[c], "audited")
      /\ up[c] = << >> /\ reading[c] = << >>
      /\ page[c].offset = m /\ m <= picked[s].size /\ One(down[c], "received")
  BY <1>1, <1>4, <1>5, <1>6, <1>7 DEF Sending
<1>9. PickedBy(s, c) /\ picked[s].size \in Nat /\ m \in Nat
  BY <1>1, <1>8, PageFacts DEF Owned, OwnWire
<1>10. /\ IsUpload(i, s)' /\ InOrder(i, s)' /\ OnlyOpen(c, i)' /\ picked'[s] = picked[s]
  BY <1>3, <1>8, <1>9, LeavesAlone
<1>11. None(down'[c], "received") /\ None(down'[c], "audited")
  BY <1>3, <1>8, TakenFacts
<1>12. /\ current'[c] = i /\ stored'[i] = stored[i] /\ uploads'[i] = uploads[i]
       /\ page'[c] = page[c]
  BY <1>2, <1>3, <1>6
<1>13. \/ up'[c] = <<CompleteFrame>> /\ reading'[c] = << >> /\ m = picked[s].size
       \/ up'[c] = << >> /\ reading'[c] = <<Reader(s, m)>> /\ m < picked[s].size
  <2>1. CASE m >= picked[s].size
    <3>1. up'[c] = up[c] \o <<CompleteFrame>> /\ reading'[c] = reading[c]
      BY <1>1, <1>2, <1>8, <2>1 DEF GoesOn
    <3>2. CompleteFrame \in UpFrame
      BY FrameTypes
    <3>3. up'[c] = <<CompleteFrame>>
      BY <1>8, <3>1, <3>2, ShortQueues
    <3> QED
      BY <1>8, <1>9, <2>1, <3>1, <3>3
  <2>2. CASE m < picked[s].size
    <3> DEFINE x == Reader(s, m)
    <3>1. up'[c] = up[c] /\ reading'[c] = Append(reading[c], x) /\ x \in Chunk
      BY <1>1, <1>2, <1>8, <2>2 DEF GoesOn
    <3> HIDE DEF x
    <3>2. reading'[c] = <<x>>
      BY <1>8, <3>1, ShortQueues
    <3> QED
      BY <1>8, <2>2, <3>1, <3>2 DEF x
  <2> QED
    BY <1>9, <2>1, <2>2
<1>14. Sending(c)'
  BY <1>1, <1>7, <1>8, <1>10, <1>11, <1>12, <1>13 DEF Sending, CompleteFrame, Reader
<1> QED
  BY <1>14 DEF Phase

\* UPLOAD_SERVER_AUDIT_COMPLETE: the page has no file any more.
LEMMA AuditedPhase ==
  ASSUME SP!Inv, WiresOK, Owned, Owned', NEW c \in Channels \ Hasty, Phase(c), ReadAudited(c)
  PROVE  Phase(c)'
<1>1. /\ Takes(c, "audited") /\ UNCHANGED <<reading, up, shown>>
      /\ page'[c].file = 0 /\ page'[c].offset = 0
  BY ReadAuditedDoes
<1>2. /\ down[c] \in Seq(DownFrame) /\ down[c] # << >> /\ Head(down[c]).kind = "audited"
      /\ down'[c] = Tail(down[c])
      /\ UNCHANGED <<picked, uploads, stored, current, fileName>>
  BY <1>1 DEF Takes, WiresOK, handler
<1>3. ~None(down[c], "audited")
  BY <1>2, TakenFacts
<1>4. Delivered(c)
  BY <1>3, PhaseFacts
<1>5. PICK i \in Files :
        /\ OnlyOpen(c, i) /\ uploads[i].stage \notin {"writing", "received", "lost"}
        /\ One(down[c], "audited")
  BY <1>3, <1>4 DEF Delivered
<1>6. OnlyOpen(c, 0)'
  BY <1>2, <1>5 DEF OnlyOpen, Settled
<1>7. None(down'[c], "received") /\ None(down'[c], "audited")
  BY <1>2, <1>4, <1>5, TakenFacts DEF Delivered, Silent
<1>8. Idle(c)'
  BY <1>1, <1>2, <1>4, <1>6, <1>7 DEF Idle, Delivered, Silent
<1> QED
  BY <1>8 DEF Phase

\* FILE and blob frames leave the file under way alone.
LEMMA OtherFramePhase ==
  ASSUME SP!Inv, WiresOK, Owned, Owned', NEW c \in Channels \ Hasty, Phase(c),
         ReadFile(c) \/ ReadBlob(c)
  PROVE  Phase(c)'
<1>1. /\ Takes(c, "file") \/ Takes(c, "blob")
      /\ UNCHANGED <<reading, up>>
      /\ page'[c].file = page[c].file /\ page'[c].offset = page[c].offset
  BY ReadFileDoes, ReadBlobDoes
<1>2. /\ down[c] \in Seq(DownFrame) /\ down[c] # << >>
      /\ Head(down[c]).kind \notin {"received", "audited"}
      /\ down'[c] = Tail(down[c])
      /\ UNCHANGED <<picked, uploads, stored, current, fileName>>
  BY <1>1 DEF Takes, WiresOK, handler
<1>3. CountsKept(c)
  BY <1>2, TakenFacts DEF CountsKept
<1>4. Leaves(c) /\ DOMAIN uploads' \subseteq Files /\ Rests(c)
  BY <1>1, <1>2, DomainFacts DEF Leaves, Rests
<1> QED
  BY <1>3, <1>4, PhaseKept

\* UPLOAD_CLIENT_START: the handler knows the name.
LEMMA StartPhase ==
  ASSUME SP!Inv, WiresOK, Owned, Owned', NEW c \in Channels \ Hasty, Phase(c), ReadStart(c)
  PROVE  Phase(c)'
<1>1. PICK s : s = page[c].file
  OBVIOUS
<1>2. /\ up[c] # << >> /\ Head(up[c]).kind = "start" /\ up'[c] = Tail(up[c])
      /\ fileName' = [fileName EXCEPT ![c] = Head(up[c]).name]
      /\ UNCHANGED <<picked, page, reading, current, uploads, down, stored>>
  BY ReadStartDoes DEF Pops, client
<1>3. Empty(c) \/ Beginning(c)
  <2>1. Sending(c) => up[c] \in {<<ChunkOf(s, Len(stored[current[c]]))>>, <<CompleteFrame>>, << >>}
    BY <1>1 DEF Sending
  <2>2. \A k : Head(<<ChunkOf(s, k)>>).kind = "chunk" /\ Head(<<CompleteFrame>>).kind = "complete"
    BY DEF ChunkOf, CompleteFrame
  <2> QED
    BY <1>2, <2>1, <2>2, PhaseFacts
<1>4. PickedBy(s, c) /\ picked[s].name \in Names /\ s # 0
  BY <1>1, <1>3, PageFacts DEF Empty, Beginning, Owned, OwnWire, PickedFile
<1>5. /\ Unsent(s) => Unsent(s)'
      /\ \A e : OnlyOpen(c, e) => OnlyOpen(c, e)'
      /\ picked'[s] = picked[s]
  BY <1>2, <1>4, LeavesAlone
<1> DEFINE f == StartOf(s)
           e == CompleteFrame
           g == ChunkOf(s, 0)
<1>6. /\ f \in UpFrame /\ e \in UpFrame /\ g.kind = "chunk"
      /\ e.kind = "complete" /\ f.name = picked[s].name
  BY <1>4, FrameTypes DEF StartOf, ChunkOf
<1>7. f' = f /\ e' = e /\ g' = g
  BY <1>5 DEF StartOf, ChunkOf, CompleteFrame
<1>8. CASE Empty(c)
  <2>1. up[c] \in {<<f, e>>, <<e>>, << >>}
    BY <1>1, <1>8 DEF Empty
  <2> HIDE DEF f, e
  <2>2. up[c] = <<f, e>>
    BY <1>2, <1>6, <2>1
  <2>3. up'[c] = <<e>>
    BY <1>2, <2>2
  <2>4. Empty(c)'
    BY <1>1, <1>2, <1>5, <1>8, <2>3 DEF Empty, e, CompleteFrame
  <2> QED
    BY <2>4 DEF Phase
<1>9. CASE Beginning(c)
  <2>1. up[c] \in {<<f>>, <<f, g>>, <<g>>, << >>}
    BY <1>1, <1>9 DEF Beginning
  <2> HIDE DEF f, g
  <2>2. fileName \in [Channels -> Names \cup {NoName}]
    BY DEF SP!Inv, SP!TypeOK
  <2>3. up[c] \in {<<f>>, <<f, g>>} /\ fileName'[c] = picked[s].name
    <3>1. up[c] # <<g>>
      BY <1>2, <1>6
    <3>2. up[c] \in {<<f>>, <<f, g>>}
      BY <1>2, <2>1, <3>1
    <3>3. Head(up[c]) = f
      BY <3>2
    <3> QED
      BY <1>2, <1>6, <2>2, <3>2, <3>3
  <2>4. up[c] = <<f>> => up'[c] = << >>
    BY <1>2
  <2>5. up[c] = <<f, g>> => up'[c] = <<g>>
    BY <1>2
  <2>6. \/ /\ page[c].offset = 0 /\ reading[c] = <<Reader(s, 0)>> /\ up'[c] = << >>
        \/ /\ page[c].offset = 1 /\ reading[c] = << >> /\ up'[c] = <<g>>
    <3>1. <<f>> # <<f, g>> /\ <<f, g>> # <<g>> /\ <<f, g>> # << >> /\ <<f>> # << >>
      OBVIOUS
    <3>2. up[c] # <<g>> /\ up[c] # << >>
      BY <1>2, <1>6
    <3> QED
      BY <1>1, <1>9, <2>3, <2>4, <2>5, <3>1, <3>2 DEF Beginning, f, g
  <2>7. Beginning(c)'
    BY <1>1, <1>2, <1>5, <1>7, <1>9, <2>3, <2>6 DEF Beginning, g
  <2> QED
    BY <2>7 DEF Phase
<1> QED
  BY <1>3, <1>8, <1>9

\* The first chunk of the file of a page begins its upload.
LEMMA FirstChunkPhase ==
  ASSUME SP!Inv, WiresOK, Owned, Owned', NEW c \in Channels \ Hasty, Phase(c),
         Begins(c), Writes(c, NextNo)
  PROVE  /\ Phase(c)'
         /\ Beginning(c) /\ up[c] = <<ChunkOf(page[c].file, 0)>>
         /\ fileName[c] = picked[page[c].file].name
<1>1. PICK s : s = page[c].file
  OBVIOUS
<1>2. PICK i : i = NextNo
  OBVIOUS
<1>3. /\ current[c] = 0 /\ i \in Files /\ i # 0 /\ i \notin DOMAIN uploads
      /\ DOMAIN uploads' = DOMAIN uploads \cup {i}
      /\ \A j \in DOMAIN uploads : Same(j)
      /\ uploads'[i].by = c /\ uploads'[i].name = fileName[c] /\ uploads'[i].stage = "writing"
      /\ current' = [current EXCEPT ![c] = i]
  BY <1>2 DEF Begins
<1>4. /\ up[c] # << >> /\ Head(up[c]).kind = "chunk" /\ up'[c] = Tail(up[c])
      /\ stored'[i] = Append(stored[i], Head(up[c]).chunk)
      /\ \A j \in Files : j # i => stored'[j] = stored[j]
      /\ down'[c] = Append(down[c], [kind |-> "received"])
      /\ UNCHANGED <<picked, page, reading>>
  BY <1>2 DEF Writes, Pops, client
<1> DEFINE g == ChunkOf(s, 0)
           x == [file |-> s, k |-> 0]
           y == [kind |-> "received"]
<1>5. Beginning(c) /\ up[c] = <<g>> /\ fileName[c] = picked[s].name
  <2>1. Empty(c) \/ Beginning(c)
    BY <1>3, <1>4, PhaseFacts DEF Sending
  <2>2. /\ StartOf(s).kind = "start" /\ CompleteFrame.kind = "complete"
    BY DEF StartOf, CompleteFrame
  <2>3. Head(<<StartOf(s)>>) = StartOf(s) /\ Head(<<CompleteFrame>>) = CompleteFrame
    OBVIOUS
  <2>4. Head(<<StartOf(s), CompleteFrame>>) = StartOf(s) /\ Head(<<StartOf(s), g>>) = StartOf(s)
    OBVIOUS
  <2>5. ~Empty(c)
    BY <1>1, <1>4, <2>2, <2>3, <2>4 DEF Empty
  <2>6. up[c] \notin {<<StartOf(s)>>, <<StartOf(s), g>>}
    BY <1>4, <2>2, <2>3, <2>4
  <2> QED
    BY <1>1, <1>4, <2>1, <2>5, <2>6 DEF Beginning
<1>6. /\ s # 0 /\ page[c].offset = 1 /\ reading[c] = << >> /\ picked[s].size > 0
      /\ OnlyOpen(c, 0) /\ Unsent(s)
      /\ None(down[c], "received") /\ None(down[c], "audited")
  <2>1. up[c] # << >> /\ up[c] # <<StartOf(s)>>
    <3>1. Head(<<StartOf(s)>>).kind = "start"
      BY DEF StartOf
    <3> QED
      BY <1>4, <3>1
  <2> QED
    BY <1>1, <1>5, <2>1 DEF Beginning
<1>7. PickedBy(s, c) /\ picked[s].size \in Nat
  BY <1>1, <1>6, PageFacts DEF Owned, OwnWire
<1>8. Head(up[c]).chunk = x /\ up'[c] = << >>
  <2>1. g.chunk = x
    BY DEF ChunkOf
  <2> HIDE DEF g, x
  <2>2. Head(up[c]) = g /\ up'[c] = << >>
    BY <1>4, <1>5
  <2> QED
    BY <2>1, <2>2
<1>9. stored'[i] = <<x>>
  <2>1. stored[i] = << >>
    BY <1>3 DEF Owned, OwnUploads
  <2>2. x \in Chunk
    BY <1>8 DEF Writes
  <2> HIDE DEF x
  <2> QED
    BY <1>4, <1>8, <2>1, <2>2, ShortQueues
<1>10. /\ Len(stored'[i]) = 1 /\ stored'[i] # << >> /\ stored'[i][1] = x /\ x.file = s
       /\ DOMAIN stored'[i] = {1}
  BY <1>9
<1>11. IsUpload(i, s)'
  <2>1. \A j \in Files : stored'[j] # << >> /\ stored'[j][1].file = s <=> j = i
    BY <1>3, <1>4, <1>6, <1>10 DEF Unsent
  <2> QED
    BY <1>3, <1>4, <1>7, <2>1 DEF IsUpload, PickedBy
<1>12. InOrder(i, s)'
  <2>1. stored'[i] = [k \in DOMAIN stored'[i] |-> [file |-> s, k |-> k - 1]]
    <3>1. <<x>> = [k \in {1} |-> [file |-> s, k |-> k - 1]]
      <4> DEFINE h == [k \in {1} |-> [file |-> s, k |-> k - 1]]
      <4>1. h[1] = x /\ DOMAIN h = {1}
        OBVIOUS
      <4>2. {1} = 1..1
        OBVIOUS
      <4> HIDE DEF h, x
      <4>3. h = [k \in 1..1 |-> x]
        <5>1. h = [k \in {1} |-> h[k]]
          BY <4>1 DEF h
        <5> QED
          BY <4>1, <4>2, <5>1
      <4>4. <<x>> = [k \in 1..1 |-> x]
        OBVIOUS
      <4> QED
        BY <4>3, <4>4 DEF h
    <3> HIDE DEF x
    <3> QED
      BY <1>9, <1>10, <3>1
  <2> QED
    BY <1>3, <1>4, <1>5, <2>1 DEF InOrder
<1>13. OnlyOpen(c, i)'
  <2>1. \A j \in DOMAIN uploads : j # 0
    BY DomainFacts
  <2> QED
    BY <1>3, <1>6, <2>1 DEF OnlyOpen, Settled, Same
<1>14. One(down'[c], "received") /\ None(down'[c], "audited")
  <2>1. y \in DownFrame /\ y.kind = "received" /\ down[c] \in Seq(DownFrame)
    BY FrameTypes DEF WiresOK
  <2>2. down'[c] = Append(down[c], y)
    BY <1>4
  <2> HIDE DEF y
  <2> QED
    BY <1>6, <2>1, <2>2, SentFacts
<1>15. current'[c] = i
  BY <1>3 DEF SP!Inv, SP!TypeOK
<1>16. /\ page'[c].file = s /\ page'[c].offset = 1 /\ reading'[c] = << >> /\ up'[c] = << >>
       /\ Len(stored'[current'[c]]) = 1 /\ 1 <= picked'[s].size
  <2>1. Len(stored'[current'[c]]) = 1
    BY <1>10, <1>15
  <2>2. 1 <= picked[s].size /\ picked' = picked
    BY <1>4, <1>6, <1>7
  <2> HIDE DEF x, y, g
  <2> QED
    BY <1>1, <1>4, <1>6, <1>8, <2>1, <2>2
<1>17. Sending(c)'
  BY <1>3, <1>6, <1>11, <1>12, <1>13, <1>14, <1>15, <1>16 DEF Sending
<1> QED
  BY <1>1, <1>5, <1>17 DEF Phase

\* A further chunk of the file of a page is the next one of its upload.
LEMMA NextChunkPhase ==
  ASSUME SP!Inv, WiresOK, Owned, Owned', NEW c \in Channels \ Hasty, Phase(c),
         Continues(c), Writes(c, current[c])
  PROVE  /\ Phase(c)'
         /\ Sending(c) /\ up[c] = <<ChunkOf(page[c].file, Len(stored[current[c]]))>>
         /\ Len(stored[current[c]]) < picked[page[c].file].size
<1>1. PICK s : s = page[c].file
  OBVIOUS
<1>2. PICK i : i = current[c]
  OBVIOUS
<1>3. PICK m : m = Len(stored[i])
  OBVIOUS
<1>4. /\ i \in DOMAIN uploads /\ i \in Files /\ i # 0 /\ stored[i] \in Seq(Chunk)
      /\ m \in Nat /\ DOMAIN stored[i] = 1..m
  <2>1. i \in DOMAIN uploads /\ i \in Files /\ i # 0
    BY <1>2, CurrentFacts DEF Continues
  <2>2. stored[i] \in Seq(Chunk)
    BY <2>1 DEF WiresOK
  <2> QED
    BY <1>3, <2>1, <2>2, LenProperties
<1>5. /\ DOMAIN uploads' = DOMAIN uploads /\ \A j \in DOMAIN uploads : Same(j)
      /\ current' = current
  BY DEF Continues
<1>6. /\ up[c] # << >> /\ Head(up[c]).kind = "chunk" /\ up'[c] = Tail(up[c])
      /\ stored'[i] = Append(stored[i], Head(up[c]).chunk) /\ Head(up[c]).chunk \in Chunk
      /\ \A j \in Files : j # i => stored'[j] = stored[j]
      /\ down'[c] = Append(down[c], [kind |-> "received"])
      /\ UNCHANGED <<picked, page, reading>>
  BY <1>2 DEF Writes, Pops, client
<1>7. Sending(c)
  BY <1>2, <1>4, <1>6, PhaseFacts DEF Empty, Beginning
<1> DEFINE g == ChunkOf(s, m)
           x == [file |-> s, k |-> m]
           y == [kind |-> "received"]
<1>8. /\ s # 0 /\ IsUpload(i, s) /\ InOrder(i, s) /\ uploads[i].stage = "writing"
      /\ OnlyOpen(c, i) /\ None(down[c], "audited") /\ None(down[c], "received")
      /\ up[c] = <<g>> /\ reading[c] = << >> /\ page[c].offset = m + 1 /\ m < picked[s].size
  <2>1. Head(<<CompleteFrame>>).kind = "complete"
    BY DEF CompleteFrame
  <2>2. up[c] # << >> /\ up[c] # <<CompleteFrame>>
    BY <1>6, <2>1
  <2> QED
    BY <1>1, <1>2, <1>3, <1>7, <2>2 DEF Sending
<1>9. PickedBy(s, c) /\ picked[s].size \in Nat
  BY <1>1, <1>8, PageFacts DEF Owned, OwnWire
<1>10. Head(up[c]).chunk = x /\ up'[c] = << >> /\ x \in Chunk
  <2>1. g.chunk = x
    BY DEF ChunkOf
  <2> HIDE DEF g, x
  <2>2. Head(up[c]) = g /\ up'[c] = << >>
    BY <1>6, <1>8
  <2> QED
    BY <1>6, <2>1, <2>2
<1>11. /\ stored'[i] = Append(stored[i], x)
       /\ stored'[i] \in Seq(Chunk) /\ Len(stored'[i]) = m + 1 /\ stored'[i] # << >>
       /\ DOMAIN stored'[i] = 1..(m + 1)
       /\ \A k \in 1..m : stored'[i][k] = stored[i][k]
       /\ stored'[i][m + 1] = x
  <2>1. stored'[i] = Append(stored[i], x)
    BY <1>6, <1>10
  <2> HIDE DEF x
  <2>2. /\ stored'[i] \in Seq(Chunk) /\ Len(stored'[i]) = m + 1
        /\ \A k \in 1..m : stored'[i][k] = stored[i][k]
        /\ stored'[i][m + 1] = x
    BY <1>3, <1>4, <1>10, <2>1, AppendProperties
  <2> QED
    BY <1>4, <1>10, <2>1, <2>2, LenProperties, AppendProperties
<1>12. stored[i] # << >> /\ stored'[i][1] = stored[i][1]
  <2>1. stored[i] # << >>
    BY <1>4 DEF Owned, OwnUploads
  <2>2. m # 0
    BY <1>3, <1>4, <2>1, EmptySeq
  <2> QED
    BY <1>4, <1>11, <2>1, <2>2
<1>13. IsUpload(i, s)'
  <2>1. \A j \in Files : stored'[j] # << >> /\ stored'[j][1].file = s <=> j = i
    BY <1>6, <1>8, <1>11, <1>12 DEF IsUpload
  <2>2. i \in DOMAIN uploads' /\ uploads'[i].by = picked'[s].by
    BY <1>4, <1>5, <1>6, <1>8 DEF IsUpload, Same
  <2> QED
    BY <2>1, <2>2 DEF IsUpload
<1>14. InOrder(i, s)'
  <2>1. uploads'[i].name = picked'[s].name
    BY <1>4, <1>5, <1>6, <1>8 DEF InOrder, Same
  <2> DEFINE h == [k \in 1..(m + 1) |-> [file |-> s, k |-> k - 1]]
  <2>2. \A k \in 1..(m + 1) : stored'[i][k] = h[k]
    <3>1. \A k \in 1..m : stored'[i][k] = [file |-> s, k |-> k - 1]
      BY <1>4, <1>8, <1>11 DEF InOrder
    <3>2. stored'[i][m + 1] = [file |-> s, k |-> (m + 1) - 1]
      BY <1>4, <1>11
    <3>3. \A k \in 1..(m + 1) : k \in 1..m \/ k = m + 1
      BY <1>4
    <3> QED
      BY <3>1, <3>2, <3>3
  <2>3. stored'[i] = [k \in 1..(m + 1) |-> stored'[i][k]]
    BY <1>11
  <2>4. stored'[i] = h
    BY <2>2, <2>3
  <2> QED
    BY <1>11, <2>1, <2>4 DEF InOrder
<1>15. OnlyOpen(c, i)'
  BY <1>5, <1>8 DEF OnlyOpen, Settled, Same
<1>16. One(down'[c], "received") /\ None(down'[c], "audited")
  <2>1. y \in DownFrame /\ y.kind = "received" /\ down[c] \in Seq(DownFrame)
    BY FrameTypes DEF WiresOK
  <2>2. down'[c] = Append(down[c], y)
    BY <1>6
  <2> HIDE DEF y
  <2> QED
    BY <1>8, <2>1, <2>2, SentFacts
<1>17. /\ current'[c] = i /\ uploads'[i].stage = "writing"
       /\ page'[c].file = s /\ page'[c].offset = m + 1 /\ reading'[c] = << >> /\ up'[c] = << >>
  <2> HIDE DEF x, y, g
  <2> QED
    BY <1>1, <1>2, <1>4, <1>5, <1>6, <1>8, <1>10 DEF Same
<1>18. Len(stored'[current'[c]]) = m + 1 /\ m + 1 <= picked'[s].size
  <2>1. m + 1 <= picked[s].size /\ picked' = picked
    BY <1>4, <1>6, <1>8, <1>9
  <2> QED
    BY <1>11, <1>17, <2>1
<1>19. Sending(c)'
  BY <1>4, <1>8, <1>13, <1>14, <1>15, <1>16, <1>17, <1>18 DEF Sending
<1> QED
  BY <1>1, <1>2, <1>3, <1>7, <1>8, <1>19 DEF Phase

\* UPLOAD_CLIENT_COMPLETE: the server has the file, or has never heard of it.
LEMMA CompletePhase ==
  ASSUME SP!Inv, WiresOK, Owned, Owned', NEW c \in Channels \ Hasty, Phase(c), ReadComplete(c)
  PROVE  /\ Phase(c)'
         /\ current[c] # 0 => /\ Sending(c)
                              /\ Len(stored[current[c]]) = picked[page[c].file].size
<1>1. PICK s : s = page[c].file
  OBVIOUS
<1>2. PICK i : i = current[c]
  OBVIOUS
<1>3. /\ up[c] # << >> /\ Head(up[c]).kind = "complete" /\ up'[c] = Tail(up[c])
      /\ UNCHANGED <<picked, page, reading, down, stored>>
  BY ReadCompleteDoes DEF Pops, client
<1> DEFINE e == CompleteFrame
           f == StartOf(s)
           g(k) == ChunkOf(s, k)
<1>4. e.kind = "complete" /\ f.kind = "start" /\ \A k : g(k).kind = "chunk"
  BY DEF CompleteFrame, StartOf, ChunkOf
<1>5. ~Beginning(c)
  <2>1. Beginning(c) => up[c] \in {<<f>>, <<f, g(0)>>, <<g(0)>>, << >>}
    BY <1>1 DEF Beginning
  <2>2. g(0).kind = "chunk"
    BY <1>4
  <2> DEFINE h == g(0)
  <2>3. h.kind = "chunk" /\ (Beginning(c) => up[c] \in {<<f>>, <<f, h>>, <<h>>, << >>})
    BY <2>1, <2>2
  <2> HIDE DEF e, f, g, h
  <2> QED
    BY <1>3, <1>4, <2>3
<1>6. CASE i = 0
  <2>1. Empty(c)
    BY <1>2, <1>3, <1>5, <1>6, PhaseFacts DEF Sending
  <2>2. up[c] \in {<<f, e>>, <<e>>, << >>}
    BY <1>1, <2>1 DEF Empty
  <2> HIDE DEF e, f, g
  <2>3. up[c] = <<e>>
    BY <1>3, <1>4, <2>2
  <2>4. up'[c] = << >>
    BY <1>3, <2>3
  <2>5. UNCHANGED handler
    BY <1>2, <1>6, ReadCompleteDoes
  <2>6. s # 0 /\ PickedBy(s, c)
    BY <1>1, <2>1 DEF Empty, Owned, OwnWire
  <2>7. Unsent(s)' /\ OnlyOpen(c, 0)' /\ picked'[s] = picked[s]
    BY <1>1, <1>3, <2>1, <2>5, <2>6, LeavesAlone DEF Empty, handler
  <2>8. Empty(c)'
    BY <1>1, <1>3, <2>1, <2>4, <2>5, <2>7 DEF Empty, handler
  <2> QED
    BY <1>2, <1>6, <2>8 DEF Phase
<1>7. CASE i # 0
  <2>1. Sending(c)
    BY <1>2, <1>3, <1>5, <1>7, PhaseFacts DEF Empty
  <2>2. PICK m : m = Len(stored[i])
    OBVIOUS
  <2>3. up[c] # <<g(m)>>
    <3> DEFINE h == g(m)
    <3>1. h.kind = "chunk"
      BY <1>4
    <3> HIDE DEF h
    <3>2. up[c] # <<h>>
      BY <1>3, <3>1
    <3> QED
      BY <3>2 DEF h
  <2>4. /\ s # 0 /\ IsUpload(i, s) /\ OnlyOpen(c, i)
        /\ None(down[c], "audited") /\ None(down[c], "received")
        /\ up[c] = <<e>> /\ reading[c] = << >> /\ m = picked[s].size
    BY <1>1, <1>2, <1>3, <2>1, <2>2, <2>3 DEF Sending
  <2>5. up'[c] = << >>
    <3> HIDE DEF e
    <3> QED
      BY <1>3, <2>4
  <2>6. PICK st \in {"received", "lost"} : Proceeds(i, st)
    BY <1>2, <1>7, ReadCompleteDoes
  <2>7. current'[c] = 0
    BY <1>2, <1>7, ReadCompleteDoes DEF SP!Inv, SP!TypeOK
  <2>8. i \in DOMAIN uploads /\ i \in Files
    BY <2>4, DomainFacts DEF IsUpload
  <2>9. IsUpload(i, s)'
    BY <1>3, <2>4, <2>6 DEF IsUpload, Proceeds
  <2>10. OnlyOpen(c, i)'
    BY <2>4, <2>6 DEF OnlyOpen, Settled, Proceeds, Same
  <2>11. uploads'[i].stage \in {"received", "lost"}
    BY <2>6 DEF Proceeds
  <2>12. Delivered(c)'
    BY <1>1, <1>3, <2>4, <2>5, <2>7, <2>8, <2>9, <2>10, <2>11 DEF Delivered, Silent
  <2> QED
    BY <1>1, <1>2, <2>1, <2>2, <2>4, <2>12 DEF Phase
<1> QED
  BY <1>6, <1>7

\* The task of an upload of a patient page answers it once.
LEMMA TaskPhase ==
  ASSUME SP!Inv, WiresOK, Owned, Owned', NEW c \in open \ Hasty, c \in Channels, Phase(c),
         NEW i \in Files, Task(i)
  PROVE  Phase(c)'
<1>1. i \in DOMAIN uploads /\ DOMAIN uploads \subseteq Files
  BY TaskSends, DomainFacts
<1>2. DOMAIN uploads' = DOMAIN uploads /\ UNCHANGED <<open, fileName, current>>
  BY TaskSends DEF Proceeds
<1>3. UNCHANGED <<client, up, stored, shown>>
  BY TaskSends DEF Sends
<1>4. Rests(c) /\ UNCHANGED <<picked, page, reading>>
  BY <1>2, <1>3 DEF Rests, client
<1>5. down[c] \in Seq(DownFrame)
  BY DEF WiresOK
<1>6. ASSUME uploads[i].by # c \/ uploads[i].stage \in Answered,
             \A j \in DOMAIN uploads : j # i => Same(j),
             uploads'[i].by = uploads[i].by, uploads'[i].name = uploads[i].name,
             uploads[i].by # c \/ uploads'[i].stage \in Answered,
             CountsKept(c)
      PROVE  Phase(c)'
  <2>1. Leaves(c)
    BY <1>2, <1>3, <1>4, <1>6 DEF Leaves, Same
  <2> QED
    BY <1>1, <1>2, <1>4, <1>6, <2>1, PhaseKept
<1>7. CASE /\ \E st \in {"announced", "cast", "done"} : Proceeds(i, st)
           /\ uploads[i].stage \in {"audited", "announced", "cast"}
           /\ \/ \E C : \E x \in DownFrame : x.kind \in {"file", "blob"} /\ Sends(C, x)
              \/ UNCHANGED <<client, up, down, stored, shown>>
  <2>1. CountsKept(c)
    <3>1. CASE \E C : \E x \in DownFrame : x.kind \in {"file", "blob"} /\ Sends(C, x)
      <4>1. PICK C, x : x \in DownFrame /\ x.kind \in {"file", "blob"} /\ Sends(C, x)
        BY <3>1
      <4>2. down'[c] = down[c] \/ down'[c] = Append(down[c], x)
        BY <4>1 DEF Sends
      <4>3. ASSUME NEW kind \in {"received", "audited"}
            PROVE  /\ None(down[c], kind) => None(Append(down[c], x), kind)
                   /\ One(down[c], kind) => One(Append(down[c], x), kind)
        BY <1>5, <4>1, SentFacts
      <4>4. CASE down'[c] = Append(down[c], x)
        BY <4>3, <4>4 DEF CountsKept
      <4>5. CASE down'[c] = down[c]
        BY <4>5 DEF CountsKept
      <4> QED
        BY <4>2, <4>4, <4>5
    <3>2. CASE UNCHANGED <<client, up, down, stored, shown>>
      BY <3>2 DEF CountsKept
    <3> QED
      BY <1>7, <3>1, <3>2
  <2> QED
    BY <1>6, <1>7, <2>1 DEF Proceeds, Answered
<1>8. CASE /\ Proceeds(i, "audited") /\ uploads[i].stage = "received"
           /\ Sends({uploads[i].by}, [kind |-> "audited"])
  <2>1. CASE uploads[i].by # c
    <3>1. down'[c] = down[c]
      BY <1>8, <2>1 DEF Sends
    <3>2. CountsKept(c)
      BY <3>1 DEF CountsKept
    <3> QED
      BY <1>6, <1>8, <2>1, <3>2 DEF Proceeds
  <2>2. CASE uploads[i].by = c
    <3> DEFINE y == [kind |-> "audited"]
    <3>1. y \in DownFrame /\ y.kind = "audited"
      BY FrameTypes
    <3>2. down'[c] = Append(down[c], y)
      BY <1>8, <2>2 DEF Sends
    <3> HIDE DEF y
    <3>3. Delivered(c)
      <4>1. \A e : OnlyOpen(c, e) => e = i
        BY <1>1, <1>8, <2>2 DEF OnlyOpen, Settled
      <4>2. i # 0
        BY <1>1, DomainFacts
      <4> QED
        BY <1>8, <4>1, <4>2 DEF Phase, Idle, Empty, Beginning, Sending
    <3>4. PICK s : s = page[c].file
      OBVIOUS
    <3>5. PICK j \in Files :
            /\ IsUpload(j, s) /\ OnlyOpen(c, j) /\ uploads[j].stage # "writing"
            /\ IF uploads[j].stage \in {"received", "lost"}
               THEN None(down[c], "audited") ELSE One(down[c], "audited")
      BY <3>3, <3>4 DEF Delivered
    <3>6. j = i
      BY <1>1, <1>8, <2>2, <3>5 DEF OnlyOpen, Settled
    <3>7. None(down[c], "audited") /\ None(down[c], "received")
      BY <1>8, <3>3, <3>5, <3>6 DEF Delivered, Silent
    <3>8. One(down'[c], "audited") /\ None(down'[c], "received")
      BY <1>5, <3>1, <3>2, <3>7, SentFacts
    <3>9. IsUpload(i, s)'
      BY <1>3, <1>4, <1>8, <3>5, <3>6 DEF IsUpload, Proceeds
    <3>10. OnlyOpen(c, i)'
      BY <1>8, <3>5, <3>6 DEF OnlyOpen, Settled, Proceeds, Same
    <3>11. uploads'[i].stage = "audited"
      BY <1>8 DEF Proceeds
    <3>12. Delivered(c)'
      BY <1>2, <1>3, <1>4, <3>3, <3>4, <3>8, <3>9, <3>10, <3>11 DEF Delivered, Silent
    <3> QED
      BY <3>12 DEF Phase
  <2> QED
    BY <2>1, <2>2
<1> QED
  BY <1>7, <1>8, TaskSends

\* What channel c and its page do.
Acts(c) ==
  \/ \E n \in Names, size \in 0..MaxChunks : Pick(c, n, size)
  \/ Page(c) \/ Event(c) \/ Disconnect(c)

\* What channel c and its page do leaves another page alone.
LEMMA OthersAlone ==
  ASSUME SP!Inv, WiresOK, Owned, NEW c \in Channels, NEW d \in Channels, d # c, Acts(c)
  PROVE  Leaves(d) /\ Rests(d) /\ down'[d] = down[d]
<1>0. /\ fileName \in [Channels -> Names \cup {NoName}] /\ current \in [Channels -> Nat]
      /\ up \in [Channels -> Seq(UpFrame)] /\ down \in [Channels -> Seq(DownFrame)]
      /\ reading \in [Channels -> Seq(Chunk)]
  <2>1. current \in [Channels -> {0} \cup DOMAIN uploads] /\ fileName \in [Channels -> Names \cup {NoName}]
    BY DEF SP!Inv, SP!TypeOK
  <2>2. DOMAIN uploads \subseteq Nat
    BY DomainFacts DEF Files
  <2> QED
    BY <2>1, <2>2 DEF WiresOK
<1>1. ASSUME NEW n \in Names, NEW size \in 0..MaxChunks, Pick(c, n, size)
      PROVE  Leaves(d) /\ Rests(d) /\ down'[d] = down[d]
  <2>1. Picks(c, n, size)
    BY <1>1, PickDoes
  <2> QED
    BY <2>1 DEF Picks, Leaves, Rests, handler
<1>2. ASSUME UNCHANGED <<handler, picked, stored>>,
             page'[d].file = page[d].file, page'[d].offset = page[d].offset,
             up'[d] = up[d], reading'[d] = reading[d], down'[d] = down[d]
      PROVE  Leaves(d) /\ Rests(d) /\ down'[d] = down[d]
  BY <1>2 DEF Leaves, Rests, handler
<1>3. ASSUME Page(c) PROVE Leaves(d) /\ Rests(d) /\ down'[d] = down[d]
  <2>1. CASE Loaded(c)
    <3>1. PICK r \in DOMAIN reading[c] : Loads(c, r)
      BY <2>1, LoadedDoes
    <3> QED
      BY <1>2, <3>1 DEF Loads
  <2>2. CASE ReadReceived(c)
    BY <1>2, <2>2, ReadReceivedDoes DEF Takes, GoesOn
  <2>3. CASE ReadAudited(c)
    BY <1>2, <2>3, ReadAuditedDoes DEF Takes
  <2>4. CASE ReadFile(c)
    BY <1>2, <2>4, ReadFileDoes DEF Takes
  <2>5. CASE ReadBlob(c)
    BY <1>2, <2>5, ReadBlobDoes DEF Takes
  <2> QED
    BY <1>3, <2>1, <2>2, <2>3, <2>4, <2>5 DEF Page
<1>4. CASE ReadStart(c)
  <2>1. /\ Pops(c, "start")
        /\ fileName' = [fileName EXCEPT ![c] = Head(up[c]).name]
        /\ UNCHANGED <<open, current, uploads, down, stored>>
    BY <1>4, ReadStartDoes
  <2>2. fileName'[d] = fileName[d]
    BY <1>0, <2>1
  <2> QED
    BY <2>1, <2>2 DEF Pops, client, Leaves, Rests
<1>5. CASE ReadChunk(c)
  <2>1. CASE Begins(c) /\ Writes(c, NextNo)
    <3>1. fileName'[d] = fileName[d] /\ current'[d] = current[d]
      BY <1>0, <2>1 DEF Begins
    <3>2. Rests(d) /\ down'[d] = down[d] /\ picked' = picked
      BY <2>1, <3>1 DEF Writes, Pops, client, Rests
    <3>3. \A j \in DOMAIN uploads : j \in Files /\ j # NextNo
      BY <2>1, DomainFacts DEF Begins
    <3>4. \A j \in DOMAIN uploads : Same(j) /\ stored'[j] = stored[j]
      BY <2>1, <3>3 DEF Begins, Writes
    <3> HIDE DEF NextNo
    <3> QED
      BY <2>1, <3>2, <3>4 DEF Begins, Leaves, Same
  <2>2. CASE Continues(c) /\ Writes(c, current[c])
    <3>1. Rests(d) /\ down'[d] = down[d] /\ picked' = picked
      BY <2>2 DEF Continues, Writes, Pops, client, Rests
    <3>2. uploads[current[c]].by = c
      BY <2>2, CurrentFacts DEF Continues
    <3>3. \A j \in DOMAIN uploads : uploads[j].by = d => stored'[j] = stored[j]
      BY <2>2, <3>2, DomainFacts DEF Writes
    <3> QED
      BY <2>2, <3>1, <3>3 DEF Continues, Leaves, Same
  <2> QED
    BY <1>5, <2>1, <2>2, ReadChunkDoes
<1>6. CASE ReadComplete(c)
  <2>1. Pops(c, "complete") /\ UNCHANGED <<down, stored>>
    BY <1>6, ReadCompleteDoes
  <2>2. CASE current[c] = 0
    <3>1. UNCHANGED handler
      BY <1>6, <2>2, ReadCompleteDoes
    <3> QED
      BY <1>2, <2>1, <3>1 DEF Pops, client
  <2>3. CASE current[c] # 0
    <3>1. PICK st \in {"received", "lost"} : Proceeds(current[c], st)
      BY <1>6, <2>3, ReadCompleteDoes
    <3>2. current'[d] = current[d] /\ uploads[current[c]].by = c
      BY <1>0, <1>6, <2>3, ReadCompleteDoes, CurrentFacts
    <3>3. Rests(d) /\ picked' = picked
      BY <2>1, <3>1, <3>2 DEF Pops, client, Proceeds, Rests
    <3> QED
      BY <2>1, <3>1, <3>2, <3>3 DEF Leaves, Proceeds, Same
  <2> QED
    BY <2>2, <2>3
<1>7. CASE RefuseChunk(c) \/ Disconnect(c)
  <2>1. Goes(c)
    BY <1>7, CloseAndCut
  <2> QED
    BY <1>0, <2>1 DEF Goes, Leaves, Rests
<1> QED
  BY <1>1, <1>3, <1>4, <1>5, <1>6, <1>7 DEF Acts, Event

\* Such a step ends no other connection.
LEMMA OpenKept ==
  ASSUME SP!Inv, WiresOK, NEW c \in Channels, Acts(c)
  PROVE  \/ open' = open
         \/ open' = open \ {c} /\ (RefuseChunk(c) \/ Disconnect(c))
<1>1. CASE \E n \in Names, size \in 0..MaxChunks : Pick(c, n, size)
  BY <1>1 DEF Pick, handler
<1>2. CASE Page(c)
  BY <1>2 DEF Page, Loaded, ReadReceived, ReadAudited, ReadFile, ReadBlob, PageReads, handler
<1>3. CASE ReadStart(c)
  BY <1>3, ReadStartDoes
<1>4. CASE ReadChunk(c)
  BY <1>4, ReadChunkDoes DEF Begins, Continues
<1>5. CASE ReadComplete(c)
  BY <1>5, ReadCompleteDoes DEF Proceeds, handler
<1>6. CASE RefuseChunk(c) \/ Disconnect(c)
  BY <1>6, CloseAndCut DEF Goes
<1> QED
  BY <1>1, <1>2, <1>3, <1>4, <1>5, <1>6 DEF Acts, Event

\* What a connected patient page does, and what it is sent.
LEMMA OwnPhase ==
  ASSUME SP!Inv, WiresOK, Owned, Owned', NEW c \in Channels \ Hasty, Phase(c),
         \/ \E n \in Names, size \in 0..MaxChunks : Pick(c, n, size)
         \/ Page(c) \/ ReadStart(c) \/ ReadChunk(c) \/ ReadComplete(c)
  PROVE  Phase(c)'
<1>1. ASSUME NEW n \in Names, NEW size \in 0..MaxChunks, Pick(c, n, size)
      PROVE  Phase(c)'
  BY <1>1, PickDoes, PickPhase
<1>2. CASE Loaded(c)
  BY <1>2, LoadedDoes, LoadedPhase
<1>3. CASE ReadChunk(c)
  BY <1>3, ReadChunkDoes, FirstChunkPhase, NextChunkPhase
<1> QED
  BY <1>1, <1>2, <1>3, ReceivedPhase, AuditedPhase, OtherFramePhase, StartPhase, CompletePhase
     DEF Page

\* Every page is idle initially.
LEMMA PhaseInit == Init => InPhase
<1> SUFFICES ASSUME Init PROVE InPhase
  OBVIOUS
<1>1. /\ uploads = << >> /\ current = [c \in Channels |-> 0] /\ open \subseteq Channels
      /\ page = [c \in Channels |-> [file |-> 0, offset |-> 0, label |-> 0]]
      /\ reading = [c \in Channels |-> << >>]
      /\ up = [c \in Channels |-> << >>] /\ down = [c \in Channels |-> << >>]
  BY DEF Init, Server!Init
<1>2. DOMAIN uploads = {}
  BY <1>1
<1>3. ASSUME NEW c \in Channels PROVE Idle(c)
  <2>1. OnlyOpen(c, 0)
    BY <1>2 DEF OnlyOpen
  <2>2. page[c].file = 0 /\ page[c].offset = 0
    BY <1>1
  <2> QED
    BY <1>1, <2>1, <2>2, NoFrames DEF Idle, Silent
<1> QED
  BY <1>1, <1>3 DEF InPhase, Phase

\* Every step leaves every connected patient page in a phase.
LEMMA PhaseStep ==
  ASSUME SP!Inv, SP!Inv', WiresOK, Owned, Owned', InPhase, [Next]_vars
  PROVE  InPhase'
<1>1. DOMAIN uploads' \subseteq Files /\ open' \subseteq Channels
  <2>1. (DOMAIN uploads \subseteq Files /\ open \subseteq Channels)'
    BY DomainFacts, PTL
  <2> QED
    BY <2>1 DEF Files
<1> SUFFICES ASSUME NEW d \in Channels \ Hasty, d \in open'
             PROVE  Phase(d)'
  BY <1>1 DEF InPhase
<1>2. CASE UNCHANGED vars
  <2>1. d \in open
    BY <1>2 DEF vars, handler
  <2>2. Phase(d)
    BY <2>1 DEF InPhase
  <2>3. Leaves(d) /\ Rests(d) /\ CountsKept(d)
    BY <1>2 DEF vars, handler, client, Leaves, Rests, CountsKept
  <2> QED
    BY <1>1, <2>2, <2>3, PhaseKept
<1>3. ASSUME NEW c \in Channels, Acts(c) PROVE Phase(d)'
  <2>1. open' \subseteq open
    BY <1>3, OpenKept
  <2>2. Phase(d)
    BY <2>1 DEF InPhase
  <2>3. CASE d # c
    <3>1. Leaves(d) /\ Rests(d) /\ down'[d] = down[d]
      BY <1>3, <2>3, OthersAlone
    <3>2. CountsKept(d)
      BY <3>1 DEF CountsKept
    <3> QED
      BY <1>1, <2>2, <3>1, <3>2, PhaseKept
  <2>4. CASE d = c /\ ~(RefuseChunk(c) \/ Disconnect(c))
    BY <1>3, <2>2, <2>4, OwnPhase DEF Acts, Event
  <2>5. CASE d = c /\ (RefuseChunk(c) \/ Disconnect(c))
    <3>1. open' = open \ {c}
      BY <2>5, CloseAndCut DEF Goes
    <3> QED
      BY <2>5, <3>1
  <2> QED
    BY <2>3, <2>4, <2>5
<1>4. ASSUME NEW i \in Files, Task(i) PROVE Phase(d)'
  <2>1. open' = open
    BY <1>4, TaskSends DEF Proceeds
  <2>2. d \in open \ Hasty /\ Phase(d)
    BY <2>1 DEF InPhase
  <2> QED
    BY <1>4, <2>2, TaskPhase
<1> QED
  BY <1>2, <1>3, <1>4 DEF Next, Acts

----------------------------------------------------------------------------
(* Theorems *)

\* The invariant holds initially.
LEMMA InvInit == Init => Inv
<1> SUFFICES ASSUME Init PROVE Inv
  OBVIOUS
<1>1. SP!Init
  BY SameTypes DEF Init
<1>2. SP!Inv
  BY <1>1, SP!TypeInit, SP!StreamInit, SP!DiskInit, SP!SoundInit DEF SP!Inv
<1> QED
  BY <1>2, WiredInit, PhaseInit DEF Inv

\* Every step keeps the invariant.
LEMMA InvStep ==
  ASSUME Inv, [Next]_vars
  PROVE  Inv'
<1>1. SP!Inv /\ WiresOK /\ Owned /\ InPhase
  BY DEF Inv
<1>2. [SP!Next]_(SP!vars)
  BY <1>1, ServerStep
<1>3. SP!Inv'
  BY <1>1, <1>2, SP!TypeStep, SP!StreamStep, SP!DiskStep, SP!SoundStep DEF SP!Inv
<1>4. WiresOK' /\ Owned'
  BY <1>1, WiredStep
<1>5. InPhase'
  BY <1>1, <1>3, <1>4, PhaseStep
<1> QED
  BY <1>3, <1>4, <1>5 DEF Inv

\* The inductive invariant holds.
LEMMA InvariantHolds == Spec => []Inv
BY InvInit, InvStep, PTL DEF Spec

\* Files in flight: every variable of Transfer has its type.
THEOREM TypeCorrect == Spec => []TypeOK
<1>1. Inv => TypeOK
  BY SameTypes DEF Inv, SP!Inv, WiresOK, TypeOK, PickedFile
<1> QED
  BY <1>1, InvariantHolds, PTL

\* The same of the module that the proofs about ChatUpload are instances of.
LEMMA ServerImplemented == Spec => Server!Spec /\ SP!Spec
<1>1. Init => Server!Init /\ SP!Init
  BY SameTypes DEF Init
<1>2. Inv /\ [Next]_vars => [Server!Next]_(Server!vars) /\ [SP!Next]_(SP!vars)
  BY ServerStep DEF Inv
<1> QED
  BY <1>1, <1>2, InvariantHolds, PTL DEF Spec, Server!Spec, SP!Spec

\* Whatever pages do, the handler of ChatRoomWebSocketHandler takes their frames as
\* ChatUpload says: what is proved of ChatUpload holds with these pages.
THEOREM PagesMeetTheHandler == Spec => Server!Spec
BY ServerImplemented, PTL

\* Where chunks and acknowledgements are in the queues of a page.
LEMMA PositionFacts ==
  ASSUME NEW n, NEW x
  PROVE  /\ \A kind : Positions(<< >>, kind) = {}
         /\ \A q, kind : None(q, kind) <=> Positions(q, kind) = {}
         /\ \A q, kind : One(q, kind) => AtMostOne(Positions(q, kind))
         /\ Positions(<<[kind |-> "start", name |-> n]>>, "chunk") = {}
         /\ Positions(<<CompleteFrame>>, "chunk") = {}
         /\ Positions(<<[kind |-> "start", name |-> n], CompleteFrame>>, "chunk") = {}
         /\ AtMostOne(Positions(<<[kind |-> "chunk", chunk |-> x]>>, "chunk"))
         /\ AtMostOne(Positions(<<[kind |-> "start", name |-> n],
                                  [kind |-> "chunk", chunk |-> x]>>, "chunk"))
<1>1. /\ \A kind : Positions(<< >>, kind) = {}
      /\ \A q, kind : None(q, kind) <=> Positions(q, kind) = {}
  BY DEF Positions, None
<1>2. \A q, kind : One(q, kind) => AtMostOne(Positions(q, kind))
  BY DEF Positions, One, AtMostOne
<1> DEFINE a == [kind |-> "start", name |-> n]
           b == [kind |-> "chunk", chunk |-> x]
           e == CompleteFrame
<1>3. a.kind = "start" /\ b.kind = "chunk" /\ e.kind = "complete"
  BY DEF CompleteFrame
<1> HIDE DEF a, b, e
<1>4. /\ Positions(<<a>>, "chunk") = {} /\ Positions(<<e>>, "chunk") = {}
      /\ Positions(<<a, e>>, "chunk") = {}
  <2>1. DOMAIN <<a>> = {1} /\ DOMAIN <<e>> = {1} /\ DOMAIN <<a, e>> = {1, 2}
    OBVIOUS
  <2>2. <<a>>[1] = a /\ <<e>>[1] = e /\ <<a, e>>[1] = a /\ <<a, e>>[2] = e
    OBVIOUS
  <2> QED
    BY <1>3, <2>1, <2>2 DEF Positions
<1>5. AtMostOne(Positions(<<b>>, "chunk"))
  <2>1. DOMAIN <<b>> = {1}
    OBVIOUS
  <2> QED
    BY <2>1 DEF Positions, AtMostOne
<1>6. AtMostOne(Positions(<<a, b>>, "chunk"))
  <2>1. DOMAIN <<a, b>> = {1, 2} /\ <<a, b>>[1] = a
    OBVIOUS
  <2> QED
    BY <1>3, <2>1 DEF Positions, AtMostOne
<1> QED
  BY <1>1, <1>2, <1>4, <1>5, <1>6 DEF a, b, e

\* One of the three places holds one thing, the others none.
LEMMA OneInFlight ==
  ASSUME NEW c,
         LET U == Positions(up[c], "chunk")
             D == Positions(down[c], "received")
             R == DOMAIN reading[c]
         IN  \/ AtMostOne(U) /\ D = {} /\ R = {}
             \/ U = {} /\ AtMostOne(D) /\ R = {}
             \/ U = {} /\ D = {} /\ AtMostOne(R)
  PROVE  AtMostOne(InFlight(c))
BY DEF AtMostOne, InFlight, Unacknowledged

\* utilSendNextChunk: a page whose user waits reads the next chunk only when the last
\* one is acknowledged, so that one chunk is under way at any time.
THEOREM OneChunkInFlight == Spec => []BackPressure
<1>1. ASSUME Inv PROVE BackPressure
  <2> SUFFICES ASSUME NEW c \in Channels \ Hasty PROVE AtMostOne(InFlight(c))
    BY DEF BackPressure
  <2>0. DOMAIN << >> = {} /\ \A x : DOMAIN <<x>> = {1}
    OBVIOUS
  <2>1. CASE c \notin open
    <3>1. up[c] = << >> /\ down[c] = << >> /\ reading[c] = << >>
      BY <1>1, <2>1 DEF Inv, Owned, OwnWire
    <3>2. /\ Positions(up[c], "chunk") = {} /\ Positions(down[c], "received") = {}
          /\ DOMAIN reading[c] = {}
      BY <2>0, <3>1, PositionFacts
    <3> QED
      BY <3>2, OneInFlight DEF AtMostOne
  <2>2. CASE c \in open
    <3>1. Phase(c)
      BY <1>1, <2>2 DEF Inv, InPhase
    <3> DEFINE U == Positions(up[c], "chunk")
               D == Positions(down[c], "received")
               R == DOMAIN reading[c]
    <3>2. CASE Idle(c) \/ Delivered(c)
      <4>1. U = {} /\ D = {} /\ R = {}
        BY <2>0, <3>2, PositionFacts DEF Idle, Delivered, Silent
      <4> QED
        BY <4>1, OneInFlight DEF AtMostOne
    <3>3. CASE Empty(c)
      <4>1. D = {} /\ R = {}
        BY <2>0, <3>3, PositionFacts DEF Empty
      <4>2. U = {}
        BY <3>3, PositionFacts DEF Empty, StartOf
      <4> QED
        BY <4>1, <4>2, OneInFlight DEF AtMostOne
    <3>4. CASE Beginning(c)
      <4>1. D = {}
        BY <3>4, PositionFacts DEF Beginning
      <4>2. PICK s : s = page[c].file
        OBVIOUS
      <4>3. CASE /\ reading[c] = <<Reader(s, 0)>>
                 /\ up[c] = <<StartOf(s)>> \/ up[c] = << >>
        <5>1. AtMostOne(R)
          BY <2>0, <4>3 DEF AtMostOne
        <5>2. U = {}
          BY <4>3, PositionFacts DEF StartOf
        <5> QED
          BY <4>1, <5>1, <5>2, OneInFlight
      <4>4. CASE /\ reading[c] = << >>
                 /\ up[c] = <<StartOf(s), ChunkOf(s, 0)>> \/ up[c] = <<ChunkOf(s, 0)>>
        <5>1. R = {}
          BY <2>0, <4>4
        <5>2. AtMostOne(U)
          BY <4>4, PositionFacts DEF StartOf, ChunkOf
        <5> QED
          BY <4>1, <5>1, <5>2, OneInFlight
      <4> QED
        BY <3>4, <4>2, <4>3, <4>4 DEF Beginning
    <3>5. CASE Sending(c)
      <4>1. PICK s, m : s = page[c].file /\ m = Len(stored[current[c]])
        OBVIOUS
      <4>2. CASE /\ up[c] = << >> /\ reading[c] = <<Reader(s, m)>>
                 /\ None(down[c], "received")
        <5>1. AtMostOne(R)
          BY <2>0, <4>2 DEF AtMostOne
        <5>2. U = {} /\ D = {}
          BY <4>2, PositionFacts
        <5> QED
          BY <5>1, <5>2, OneInFlight
      <4>3. CASE /\ up[c] = <<ChunkOf(s, m)>> /\ reading[c] = << >>
                 /\ None(down[c], "received")
        <5>1. R = {} /\ D = {}
          BY <2>0, <4>3, PositionFacts
        <5>2. AtMostOne(U)
          BY <4>3, PositionFacts DEF ChunkOf
        <5> QED
          BY <5>1, <5>2, OneInFlight
      <4>4. CASE up[c] = << >> /\ reading[c] = << >> /\ One(down[c], "received")
        <5>1. R = {} /\ U = {} /\ AtMostOne(D)
          BY <2>0, <4>4, PositionFacts
        <5> QED
          BY <5>1, OneInFlight
      <4>5. CASE /\ up[c] = <<CompleteFrame>> /\ reading[c] = << >>
                 /\ None(down[c], "received")
        <5>1. R = {} /\ U = {} /\ D = {}
          BY <2>0, <4>5, PositionFacts
        <5> QED
          BY <5>1, OneInFlight DEF AtMostOne
      <4> QED
        BY <3>5, <4>1, <4>2, <4>3, <4>4, <4>5 DEF Sending
    <3> QED
      BY <3>1, <3>2, <3>3, <3>4, <3>5 DEF Phase
  <2> QED
    BY <2>1, <2>2
<1> QED
  BY <1>1, InvariantHolds, PTL

\* onTextResponse moves on whatever this.file is when an acknowledgement arrives:
\* of a page whose user waits, that is the file of the acknowledged chunk.
THEOREM AcksAreOfTheFile == Spec => []AcksMeetTheirFile
<1>1. ASSUME Inv PROVE AcksMeetTheirFile
  <2> SUFFICES ASSUME NEW c \in Channels \ Hasty, Positions(down[c], "received") # {}
               PROVE  current[c] # 0 /\ Last(stored[current[c]]).file = page[c].file
    BY DEF AcksMeetTheirFile
  <2>1. ~None(down[c], "received")
    BY PositionFacts
  <2>2. c \in open
    BY <1>1, <2>1, NoFrames DEF Inv, Owned, OwnWire
  <2>3. Sending(c)
    BY <1>1, <2>1, <2>2, PhaseFacts DEF Inv, InPhase
  <2>4. PICK s, i : s = page[c].file /\ i = current[c]
    OBVIOUS
  <2>5. /\ i # 0 /\ IsUpload(i, s)
        /\ stored[i] = [k \in DOMAIN stored[i] |-> [file |-> s, k |-> k - 1]]
    BY <2>3, <2>4 DEF Sending, InOrder
  <2>6. i \in Files /\ stored[i] # << >>
    BY <1>1, <2>5, DomainFacts DEF Inv, IsUpload
  <2>7. stored[i] \in Seq(Chunk)
    BY <1>1, <2>6 DEF Inv, WiresOK
  <2>8. Len(stored[i]) \in DOMAIN stored[i]
    BY <2>6, <2>7, LenProperties, EmptySeq
  <2>9. Last(stored[i]) = stored[i][Len(stored[i])]
    BY DEF Last
  <2>10. \A k \in DOMAIN stored[i] : stored[i][k].file = s
    BY <2>5
  <2> QED
    BY <2>4, <2>5, <2>8, <2>9, <2>10
<1> QED
  BY <1>1, InvariantHolds, PTL

----------------------------------------------------------------------------
(* Pages and handler keep the promise of FileDelivery *)

\* File s as FileDelivery sees it.
Seen(s) == [by |-> picked[s].by, size |-> picked[s].size, got |-> Got(s), state |-> State(s)]

\* The files as FileDelivery sees them.
Bar == [s \in Patient |-> Seen(s)]

\* The actions of FileDelivery, in terms of what is seen.
LEMMA SeenSteps ==
  /\ Delivery!Init <=> Bar = [f \in {} |-> f]
  /\ \A c, f, size : Delivery!Offer(c, f, size) <=>
       /\ f \notin Patient
       /\ \A g \in Patient : Bar[g].by = c => Bar[g].state = "told"
       /\ Bar' = [g \in Patient \cup {f} |->
                    IF g = f THEN [by |-> c, size |-> size, got |-> 0, state |-> "sending"]
                    ELSE Bar[g]]
  /\ \A f : Delivery!Chunk(f) <=>
       /\ Bar[f].state = "sending" /\ Bar[f].got < Bar[f].size
       /\ Bar' = [Bar EXCEPT ![f].got = @ + 1]
  /\ \A f : Delivery!Deliver(f) <=>
       /\ Bar[f].state = "sending" /\ Bar[f].got = Bar[f].size
       /\ Bar' = [Bar EXCEPT ![f].state = "delivered"]
  /\ \A f : Delivery!Tell(f) <=>
       /\ Bar[f].state = "delivered"
       /\ Bar' = [Bar EXCEPT ![f].state = "told"]
  /\ \A c : Delivery!CutOff(c) <=>
       Bar' = [f \in Patient |->
                 [Bar[f] EXCEPT !.state =
                    IF Bar[f].by = c /\ @ = "sending" THEN "cut off" ELSE @]]
<1>0. DOMAIN Bar = Patient
  BY DEF Bar
<1>1. Delivery!Init <=> Bar = [f \in {} |-> f]
  BY DEF Delivery!Init, Bar, Seen
<1>2. ASSUME NEW c, NEW f, NEW size
      PROVE  Delivery!Offer(c, f, size) <=>
               /\ f \notin Patient
               /\ \A g \in Patient : Bar[g].by = c => Bar[g].state = "told"
               /\ Bar' = [g \in Patient \cup {f} |->
                            IF g = f THEN [by |-> c, size |-> size, got |-> 0, state |-> "sending"]
                            ELSE Bar[g]]
  BY DEF Delivery!Offer, Bar, Seen
<1>3. ASSUME NEW f
      PROVE  Delivery!Chunk(f) <=>
               /\ Bar[f].state = "sending" /\ Bar[f].got < Bar[f].size
               /\ Bar' = [Bar EXCEPT ![f].got = @ + 1]
  BY DEF Delivery!Chunk, Bar, Seen
<1>4. ASSUME NEW f
      PROVE  Delivery!Deliver(f) <=>
               /\ Bar[f].state = "sending" /\ Bar[f].got = Bar[f].size
               /\ Bar' = [Bar EXCEPT ![f].state = "delivered"]
  BY DEF Delivery!Deliver, Bar, Seen
<1>5. ASSUME NEW f
      PROVE  Delivery!Tell(f) <=>
               /\ Bar[f].state = "delivered"
               /\ Bar' = [Bar EXCEPT ![f].state = "told"]
  BY DEF Delivery!Tell, Bar, Seen
<1>6. ASSUME NEW c
      PROVE  Delivery!CutOff(c) <=>
               Bar' = [f \in Patient |->
                         [Bar[f] EXCEPT !.state =
                            IF Bar[f].by = c /\ @ = "sending" THEN "cut off" ELSE @]]
  BY DEF Delivery!CutOff, Bar, Seen
<1> QED
  BY <1>1, <1>2, <1>3, <1>4, <1>5, <1>6

\* The uploads of file s are the same, and none of them changed.
KeepsUploads(s) ==
  /\ s \in DOMAIN picked' /\ picked'[s] = picked[s]
  /\ \A i \in Files : stored'[i] # << >> /\ stored'[i][1].file = s
                        <=> stored[i] # << >> /\ stored[i][1].file = s
  /\ \A i \in Files : stored[i] # << >> /\ stored[i][1].file = s =>
       /\ stored'[i] = stored[i] /\ uploads'[i].name = uploads[i].name
       /\ uploads'[i].stage = "writing" <=> uploads[i].stage = "writing"

\* As many chunks of file s are there as before.
LEMMA GotKept ==
  ASSUME NEW s, KeepsUploads(s)
  PROVE  UploadOf(s)' = UploadOf(s) /\ Got(s)' = Got(s)
<1>1. UploadOf(s)' = UploadOf(s)
  BY DEF KeepsUploads, UploadOf, Files
<1>2. CASE UploadOf(s) = {}
  BY <1>1, <1>2 DEF Got
<1>3. CASE UploadOf(s) # {}
  <2>1. PICK i : i = CHOOSE j \in UploadOf(s) : TRUE
    OBVIOUS
  <2>2. i \in UploadOf(s)
    BY <1>3, <2>1
  <2>3. i = (CHOOSE j \in UploadOf(s) : TRUE)'
    BY <1>1, <2>1
  <2>4. /\ stored'[i] = stored[i] /\ uploads'[i].name = uploads[i].name
        /\ picked'[s] = picked[s]
    BY <2>2 DEF KeepsUploads, UploadOf
  <2>5. Got(s) = IF /\ uploads[i].name = picked[s].name
                    /\ stored[i] = [k \in DOMAIN stored[i] |-> [file |-> s, k |-> k - 1]]
                 THEN Len(stored[i]) ELSE MaxChunks + 1
    BY <1>3, <2>1 DEF Got
  <2>6. Got(s)' = IF /\ uploads'[i].name = picked'[s].name
                     /\ stored'[i] = [k \in DOMAIN stored'[i] |-> [file |-> s, k |-> k - 1]]
                  THEN Len(stored'[i]) ELSE MaxChunks + 1
    BY <1>1, <1>3, <2>3 DEF Got
  <2> QED
    BY <1>1, <2>4, <2>5, <2>6
<1> QED
  BY <1>2, <1>3

\* File s is seen as before.
LEMMA SeenKept ==
  ASSUME NEW s, KeepsUploads(s),
         page'[picked[s].by].file = s <=> page[picked[s].by].file = s,
         \/ page[picked[s].by].file # s
         \/ picked[s].by \in open' <=> picked[s].by \in open
  PROVE  Seen(s)' = Seen(s)
<1>1. UploadOf(s)' = UploadOf(s) /\ Got(s)' = Got(s) /\ picked'[s] = picked[s]
  BY GotKept DEF KeepsUploads
<1>2. (\E i \in UploadOf(s) : uploads[i].stage # "writing")'
        <=> \E i \in UploadOf(s) : uploads[i].stage # "writing"
  BY <1>1 DEF KeepsUploads, UploadOf
<1>3. State(s)' = State(s)
  BY <1>1, <1>2 DEF State
<1> QED
  BY <1>1, <1>3 DEF Seen

\* The uploads of a file stay when its channel is left alone.
LEMMA LeavesUploads ==
  ASSUME SP!Inv, Owned, Owned', DOMAIN uploads' \subseteq Files,
         NEW d \in Channels, Leaves(d), NEW s, PickedBy(s, d)
  PROVE  KeepsUploads(s)
<1>1. picked'[s] = picked[s] /\ s \in DOMAIN picked' /\ picked[s].by = d
  BY DEF Leaves, PickedBy
<1>2. /\ \A j \in Files : stored[j] # << >> <=> j \in DOMAIN uploads
      /\ \A j \in Files : stored'[j] # << >> <=> j \in DOMAIN uploads'
      /\ \A j \in DOMAIN uploads' : picked'[stored'[j][1].file].by = uploads'[j].by
      /\ \A j \in DOMAIN uploads : picked[stored[j][1].file].by = uploads[j].by
  BY DEF Owned, OwnUploads, PickedBy
<1>3. ASSUME NEW j \in Files
      PROVE  /\ stored'[j] # << >> /\ stored'[j][1].file = s
                  <=> stored[j] # << >> /\ stored[j][1].file = s
             /\ stored[j] # << >> /\ stored[j][1].file = s =>
                  /\ stored'[j] = stored[j] /\ uploads'[j].name = uploads[j].name
                  /\ uploads'[j].stage = "writing" <=> uploads[j].stage = "writing"
  <2>1. CASE j \in DOMAIN uploads /\ uploads[j].by = d
    BY <2>1 DEF Leaves, Answered
  <2>2. CASE j \in DOMAIN uploads /\ uploads[j].by # d
    <3>1. j \in DOMAIN uploads' /\ uploads'[j].by # d
      BY <2>2 DEF Leaves
    <3> QED
      BY <1>1, <1>2, <2>2, <3>1
  <2>3. CASE j \notin DOMAIN uploads
    <3>1. stored[j] = << >>
      BY <1>2, <2>3
    <3>2. j \in DOMAIN uploads' => uploads'[j].by # d
      BY <2>3 DEF Leaves
    <3> QED
      BY <1>1, <1>2, <3>1, <3>2
  <2> QED
    BY <2>1, <2>2, <2>3
<1> QED
  BY <1>1, <1>3 DEF KeepsUploads

\* What FileDelivery sees when one file changes, or none.
LEMMA BarKept ==
  ASSUME picked' = picked, \A s \in Patient : Seen(s)' = Seen(s)
  PROVE  Bar' = Bar
BY DEF Bar, Patient

\* What FileDelivery sees when file f changes.
LEMMA BarChanges ==
  ASSUME picked' = picked, NEW f \in Patient,
         \A s \in Patient : s # f => Seen(s)' = Seen(s)
  PROVE  /\ Bar[f] = Seen(f)
         /\ Got(f)' = Got(f) + 1 /\ State(f)' = State(f) => Bar' = [Bar EXCEPT ![f].got = @ + 1]
         /\ \A st : Got(f)' = Got(f) /\ State(f)' = st => Bar' = [Bar EXCEPT ![f].state = st]
<1>1. Patient' = Patient /\ picked'[f] = picked[f]
  BY DEF Patient
<1>2. \A s \in Patient : Bar[s] = Seen(s) /\ Bar'[s] = Seen(s)'
  BY <1>1 DEF Bar
<1>3. DOMAIN Bar = Patient /\ DOMAIN Bar' = Patient
  BY <1>1 DEF Bar
<1>4. /\ Bar = [s \in DOMAIN Bar |-> Bar[s]] /\ Bar' = [s \in DOMAIN Bar' |-> Bar'[s]]
  BY DEF Bar
<1>5. ASSUME NEW r, Seen(f)' = r PROVE Bar' = [Bar EXCEPT ![f] = r]
  BY <1>2, <1>3, <1>4, <1>5
<1>6. ASSUME Got(f)' = Got(f) + 1, State(f)' = State(f)
      PROVE  Bar' = [Bar EXCEPT ![f].got = @ + 1]
  <2>1. Seen(f)' = [Seen(f) EXCEPT !.got = @ + 1]
    <3>1. PICK g : g = Got(f) + 1
      OBVIOUS
    <3>2. Seen(f)' = [Seen(f) EXCEPT !.got = g]
      BY <1>1, <1>6, <3>1 DEF Seen
    <3>3. Seen(f).got = Got(f)
      BY DEF Seen
    <3> QED
      BY <3>1, <3>2, <3>3
  <2> QED
    BY <1>2, <1>5, <2>1
<1>7. ASSUME NEW st, Got(f)' = Got(f), State(f)' = st
      PROVE  Bar' = [Bar EXCEPT ![f].state = st]
  <2>1. Seen(f)' = [Seen(f) EXCEPT !.state = st]
    BY <1>1, <1>7 DEF Seen
  <2> QED
    BY <1>2, <1>5, <2>1
<1> QED
  BY <1>2, <1>6, <1>7

\* What is seen of a file by what its page and its upload are in.
SeenRight ==
  /\ \A s : Unsent(s) => Got(s) = 0
  /\ \A s, i : IsUpload(i, s) /\ InOrder(i, s) => Got(s) = Len(stored[i])
  /\ \A s : page[picked[s].by].file # s => State(s) = "told"
  /\ \A s : page[picked[s].by].file = s /\ picked[s].by \in open =>
       /\ Unsent(s) => State(s) = "sending"
       /\ \A i : IsUpload(i, s) =>
            State(s) = IF uploads[i].stage = "writing" THEN "sending" ELSE "delivered"

\* Got and State are what the phases say.
LEMMA SeenFacts == SP!Inv => SeenRight
<1> SUFFICES ASSUME SP!Inv PROVE SeenRight
  OBVIOUS
<1>1. ASSUME NEW s, Unsent(s) PROVE UploadOf(s) = {}
  BY <1>1 DEF Unsent, UploadOf
<1>2. ASSUME NEW s, NEW i, IsUpload(i, s) PROVE UploadOf(s) = {i}
  BY <1>2, DomainFacts DEF IsUpload, UploadOf
<1>3. ASSUME NEW s, Unsent(s) PROVE Got(s) = 0
  BY <1>1, <1>3 DEF Got
<1>4. ASSUME NEW s, NEW i, IsUpload(i, s), InOrder(i, s) PROVE Got(s) = Len(stored[i])
  <2>1. UploadOf(s) = {i} /\ (CHOOSE j \in UploadOf(s) : TRUE) = i
    BY <1>2, <1>4
  <2> QED
    BY <1>4, <2>1 DEF Got, InOrder
<1>5. ASSUME NEW s, page[picked[s].by].file = s, picked[s].by \in open
      PROVE  /\ Unsent(s) => State(s) = "sending"
             /\ \A i : IsUpload(i, s) =>
                  State(s) = IF uploads[i].stage = "writing" THEN "sending" ELSE "delivered"
  <2>1. Unsent(s) => State(s) = "sending"
    BY <1>1, <1>5 DEF State
  <2>2. ASSUME NEW i, IsUpload(i, s)
        PROVE  State(s) = IF uploads[i].stage = "writing" THEN "sending" ELSE "delivered"
    <3>1. UploadOf(s) = {i}
      BY <1>2, <2>2
    <3> QED
      BY <1>5, <3>1 DEF State
  <2> QED
    BY <2>1, <2>2
<1>6. \A s : page[picked[s].by].file # s => State(s) = "told"
  BY DEF State
<1> QED
  BY <1>3, <1>4, <1>5, <1>6 DEF SeenRight

\* The same after a step.
LEMMA SeenAfter == ASSUME SP!Inv' PROVE SeenRight' /\ DOMAIN uploads' \subseteq Files
<1>1. SeenRight' /\ (DOMAIN uploads \subseteq Files)'
  BY SeenFacts, DomainFacts, PTL
<1> QED
  BY <1>1 DEF Files

\* A patient file is of its page, which is not hasty.
LEMMA PatientFacts ==
  ASSUME WiresOK, Owned, NEW s \in Patient
  PROVE  /\ s \in DOMAIN picked /\ s \in Files /\ s # 0 /\ picked[s] \in PickedFile
         /\ picked[s].by \in Channels \ Hasty /\ PickedBy(s, picked[s].by)
<1>1. s \in DOMAIN picked /\ picked[s].by \notin Hasty
  BY DEF Patient
<1>2. picked[s] \in PickedFile /\ s \in 1..Len(picked) /\ Len(picked) \in Nat
  BY <1>1, LenProperties DEF WiresOK
<1>3. s \in Files /\ s # 0
  BY <1>2 DEF Owned, Files
<1> QED
  BY <1>1, <1>2, <1>3 DEF PickedFile, PickedBy

\* What channel c does changes nothing that is seen of the files of other pages.
LEMMA OthersSeen ==
  ASSUME Inv, Inv', NEW c \in Channels, Acts(c), NEW s \in Patient, picked[s].by # c
  PROVE  Seen(s)' = Seen(s)
<1> DEFINE d == picked[s].by
<1>1. d \in Channels /\ PickedBy(s, d)
  BY PatientFacts DEF Inv
<1> HIDE DEF d
<1>2. Leaves(d) /\ Rests(d)
  BY <1>1, OthersAlone DEF Inv, d
<1>3. KeepsUploads(s)
  BY <1>1, <1>2, SeenAfter, LeavesUploads DEF Inv
<1>4. d \in open' <=> d \in open
  BY OpenKept DEF Inv, d
<1> QED
  BY <1>2, <1>3, <1>4, SeenKept DEF d, Rests

\* A step that neither picks, stores nor ends anything.
LEMMA QuietSeen ==
  ASSUME UNCHANGED <<picked, stored, open>>,
         \A d \in Channels : page'[d].file = page[d].file,
         \A i \in DOMAIN uploads : /\ uploads'[i].name = uploads[i].name
                                   /\ uploads'[i].stage = "writing" <=> uploads[i].stage = "writing",
         WiresOK, Owned
  PROVE  Bar' = Bar
<1> SUFFICES ASSUME NEW s \in Patient PROVE Seen(s)' = Seen(s)
  BY BarKept
<1>1. picked[s].by \in Channels /\ s \in DOMAIN picked
  BY PatientFacts
<1>2. \A i \in Files : stored[i] # << >> => i \in DOMAIN uploads
  BY DEF Owned, OwnUploads
<1>3. KeepsUploads(s)
  BY <1>1, <1>2 DEF KeepsUploads
<1> QED
  BY <1>1, <1>3, SeenKept

\* Hasty pages change nothing that is seen of the files of patient pages.
LEMMA HastySeen ==
  ASSUME Inv, Inv', NEW c \in Channels \cap Hasty, Acts(c)
  PROVE  Bar' = Bar
<1>1. \A s \in Patient : Seen(s)' = Seen(s)
  <2> TAKE s \in Patient
  <2>1. picked[s].by # c
    BY PatientFacts DEF Inv
  <2> QED
    BY <2>1, OthersSeen
<1>2. CASE \E n \in Names, size \in 0..MaxChunks : Pick(c, n, size)
  <2>1. PICK n \in Names, size \in 0..MaxChunks : Pick(c, n, size)
    BY <1>2
  <2>2. Picks(c, n, size)
    BY <2>1, PickDoes DEF Inv
  <2>3. Patient' = Patient
    <3>1. \A s \in DOMAIN picked : picked'[s] = picked[s]
      BY <2>2 DEF Picks
    <3>2. DOMAIN picked' = DOMAIN picked \cup {NextFile} /\ picked'[NextFile].by \in Hasty
          /\ NextFile \notin DOMAIN picked
      BY <2>2 DEF Picks
    <3> HIDE DEF NextFile
    <3> QED
      BY <3>1, <3>2 DEF Patient
  <2> QED
    BY <1>1, <2>3 DEF Bar
<1>3. CASE Page(c) \/ Event(c) \/ Disconnect(c)
  <2>1. picked' = picked
    BY <1>3 DEF Page, Loaded, ReadReceived, ReadAudited, ReadFile, ReadBlob, PageReads, Event,
       ReadStart, ReadChunk, ReadComplete, ServerReads, RefuseChunk, Disconnect, Cut, client
  <2> QED
    BY <1>1, <2>1, BarKept
<1> QED
  BY <1>2, <1>3 DEF Acts

\* A step of a connected patient page changes what is seen of the file of that page only.
LEMMA OwnSeen ==
  ASSUME Inv, Inv', NEW c \in Channels \ Hasty, Acts(c), NEW f, f = page[c].file,
         open' = open, picked' = picked,
         page'[c].file = f \/ page'[c].file = 0,
         \A s \in Patient : s # f => KeepsUploads(s)
  PROVE  \A s \in Patient : s # f => Seen(s)' = Seen(s)
<1> SUFFICES ASSUME NEW s \in Patient, s # f PROVE Seen(s)' = Seen(s)
  OBVIOUS
<1>1. CASE picked[s].by # c
  BY <1>1, OthersSeen
<1>2. CASE picked[s].by = c
  <2>1. page[c].file # s /\ page'[c].file # s
    BY PatientFacts DEF Inv
  <2> QED
    BY <1>2, <2>1, SeenKept
<1> QED
  BY <1>1, <1>2

\* What is known of the file of a connected patient page.
LEMMA OwnFileFacts ==
  ASSUME Inv, NEW c \in open \ Hasty
  PROVE  /\ Phase(c) /\ c \in Channels
         /\ page[c].file # 0 => /\ page[c].file \in Patient /\ picked[page[c].file].by = c
                                /\ picked[page[c].file].size \in Nat
<1>1. Phase(c) /\ c \in Channels
  BY DomainFacts DEF Inv, InPhase
<1>2. WiresOK /\ Owned
  BY DEF Inv
<1>3. page[c].file # 0 => /\ page[c].file \in DOMAIN picked /\ picked[page[c].file].by = c
                          /\ picked[page[c].file].size \in Nat
  BY <1>1, <1>2, PageFacts
<1> QED
  BY <1>1, <1>3 DEF Patient

\* UPLOAD_SERVER_AUDIT_COMPLETE reaches a patient page: the user is told.
LEMMA TellSeen ==
  ASSUME Inv, Inv', NEW c \in Channels \ Hasty, ReadAudited(c)
  PROVE  \E f \in Patient : Delivery!Tell(f)
<1>1. PICK f : f = page[c].file
  OBVIOUS
<1>2. /\ Takes(c, "audited") /\ UNCHANGED <<reading, up, shown>>
      /\ page'[c].file = 0
  BY ReadAuditedDoes DEF Inv
<1>3. /\ c \in open /\ UNCHANGED <<open, uploads, picked, stored>>
  BY <1>2 DEF Takes, handler
<1>4. Phase(c)
  BY <1>3, OwnFileFacts
<1>5. Delivered(c)
  <2>1. down[c] \in Seq(DownFrame) /\ down[c] # << >> /\ Head(down[c]).kind = "audited"
    BY <1>2 DEF Inv, WiresOK, Takes
  <2>2. ~None(down[c], "audited")
    BY <2>1, TakenFacts
  <2> QED
    BY <1>4, <2>2, PhaseFacts
<1>6. f # 0 /\ f \in Patient /\ picked[f].by = c
  BY <1>1, <1>3, <1>5, OwnFileFacts DEF Delivered
<1>7. State(f) = "delivered"
  <2>1. PICK i \in Files : IsUpload(i, f) /\ uploads[i].stage # "writing"
    BY <1>1, <1>5 DEF Delivered
  <2> QED
    BY <1>1, <1>3, <1>6, <2>1, SeenFacts DEF Inv, SeenRight
<1>8. \A s \in Patient : KeepsUploads(s)
  BY <1>3 DEF KeepsUploads, Patient
<1>9. \A s \in Patient : s # f => Seen(s)' = Seen(s)
  BY <1>1, <1>2, <1>3, <1>8, OwnSeen DEF Acts, Page
<1>10. Got(f)' = Got(f)
  BY <1>6, <1>8, GotKept
<1>11. State(f)' = "told"
  <2>1. page'[picked'[f].by].file # f
    BY <1>2, <1>3, <1>6
  <2> QED
    BY <2>1, SeenAfter DEF Inv, SeenRight
<1>12. Bar[f] = Seen(f) /\ Bar' = [Bar EXCEPT ![f].state = "told"]
  BY <1>3, <1>6, <1>9, <1>10, <1>11, BarChanges
<1>13. Bar[f].state = "delivered"
  BY <1>7, <1>12 DEF Seen
<1> QED
  BY <1>6, <1>12, <1>13, SeenSteps

\* The first chunk of a patient page is the first of its file.
LEMMA FirstChunkSeen ==
  ASSUME Inv, Inv', NEW c \in Channels \ Hasty, Acts(c), Begins(c), Writes(c, NextNo)
  PROVE  \E f \in Patient : Delivery!Chunk(f)
<1>1. PICK f, i : f = page[c].file /\ i = NextNo
  OBVIOUS
<1>2. /\ c \in open /\ open' = open /\ UNCHANGED <<picked, page>>
      /\ i \in Files /\ i # 0 /\ i \notin DOMAIN uploads
      /\ DOMAIN uploads' = DOMAIN uploads \cup {i}
      /\ \A j \in DOMAIN uploads : Same(j)
      /\ \A j \in Files : j # i => stored'[j] = stored[j]
      /\ stored'[i] = Append(stored[i], Head(up[c]).chunk) /\ Head(up[c]).chunk \in Chunk
      /\ current'[c] = i
  BY <1>1 DEF Begins, Writes, Pops, client, Inv, SP!Inv, SP!TypeOK
<1>3. /\ Phase(c) /\ Phase(c)'
  BY <1>2, OwnFileFacts DEF Inv, InPhase
<1>4. Beginning(c) /\ up[c] = <<ChunkOf(f, 0)>>
  BY <1>1, <1>3, FirstChunkPhase DEF Inv
<1>5. f # 0 /\ f \in Patient /\ picked[f].by = c /\ picked[f].size > 0 /\ Unsent(f)
  BY <1>1, <1>2, <1>4, OwnFileFacts DEF Beginning
<1>6. stored[i] = << >> /\ \A j \in Files : stored[j] # << >> => j \in DOMAIN uploads
  BY <1>2 DEF Inv, Owned, OwnUploads
<1>7. Len(stored'[i]) = 1 /\ stored'[i][1].file = f
  <2> DEFINE x == Head(up[c]).chunk
  <2>1. x.file = f
    BY <1>4 DEF ChunkOf
  <2>2. x \in Chunk /\ stored'[i] = Append(<< >>, x)
    BY <1>2, <1>6
  <2> HIDE DEF x
  <2>3. stored'[i] = <<x>>
    BY <2>2, ShortQueues
  <2> QED
    BY <2>1, <2>3
<1>8. IsUpload(i, f)' /\ InOrder(i, f)' /\ uploads'[i].stage = "writing"
  <2>1. Sending(c)'
    BY <1>2, <1>3 DEF Phase, Idle, Empty, Beginning, Delivered
  <2> QED
    BY <1>1, <1>2, <2>1 DEF Sending
<1>9. Got(f) = 0 /\ State(f) = "sending"
  BY <1>1, <1>2, <1>5, SeenFacts DEF Inv, SeenRight
<1>10. Got(f)' = 1 /\ State(f)' = "sending"
  <2>1. page'[picked'[f].by].file = f /\ picked'[f].by \in open'
    BY <1>1, <1>2, <1>5
  <2> QED
    BY <1>7, <1>8, <2>1, SeenAfter DEF Inv, SeenRight
<1>11. ASSUME NEW s \in Patient, s # f PROVE KeepsUploads(s)
  BY <1>2, <1>6, <1>7, <1>11 DEF KeepsUploads, Same, Patient
<1>12. \A s \in Patient : s # f => Seen(s)' = Seen(s)
  BY <1>1, <1>2, <1>11, OwnSeen
<1>13. Bar[f] = Seen(f) /\ Bar' = [Bar EXCEPT ![f].got = @ + 1]
  BY <1>2, <1>5, <1>9, <1>10, <1>12, BarChanges
<1>14. Bar[f].state = "sending" /\ Bar[f].got < Bar[f].size
  BY <1>5, <1>9, <1>13 DEF Seen
<1> QED
  BY <1>5, <1>13, <1>14, SeenSteps

\* The upload and the file of a patient page while the server takes chunks.
LEMMA SendingSeen ==
  ASSUME Inv, NEW c \in open \ Hasty, Sending(c)
  PROVE  LET f == page[c].file
             i == current[c]
         IN  /\ f # 0 /\ f \in Patient /\ picked[f].by = c
             /\ i \in Files /\ i \in DOMAIN uploads /\ uploads[i].stage = "writing"
             /\ stored[i] # << >> /\ stored[i] \in Seq(Chunk) /\ stored[i][1].file = f
             /\ Got(f) = Len(stored[i]) /\ State(f) = "sending"
<1>1. PICK f, i : f = page[c].file /\ i = current[c]
  OBVIOUS
<1>2. f # 0 /\ f \in Patient /\ picked[f].by = c
  BY <1>1, OwnFileFacts DEF Sending
<1>3. IsUpload(i, f) /\ InOrder(i, f) /\ uploads[i].stage = "writing"
  BY <1>1 DEF Sending
<1>4. i \in Files /\ i \in DOMAIN uploads
  BY <1>3, DomainFacts DEF Inv, IsUpload
<1>5. stored[i] # << >> /\ stored[i] \in Seq(Chunk) /\ stored[i][1].file = f
  BY <1>3, <1>4 DEF IsUpload, Inv, WiresOK
<1>6. Got(f) = Len(stored[i]) /\ State(f) = "sending"
  BY <1>1, <1>2, <1>3, SeenFacts DEF Inv, SeenRight
<1> QED
  BY <1>1, <1>2, <1>3, <1>4, <1>5, <1>6

\* A further chunk of a patient page is the next of its file.
LEMMA NextChunkSeen ==
  ASSUME Inv, Inv', NEW c \in Channels \ Hasty, Acts(c), Continues(c), Writes(c, current[c])
  PROVE  \E f \in Patient : Delivery!Chunk(f)
<1>1. PICK f, i : f = page[c].file /\ i = current[c]
  OBVIOUS
<1>2. /\ c \in open /\ UNCHANGED <<open, current, picked, page>> /\ i # 0
      /\ DOMAIN uploads' = DOMAIN uploads /\ \A j \in DOMAIN uploads : Same(j)
      /\ \A j \in Files : j # i => stored'[j] = stored[j]
      /\ stored'[i] = Append(stored[i], Head(up[c]).chunk) /\ Head(up[c]).chunk \in Chunk
  BY <1>1 DEF Continues, Writes, Pops, client
<1>3. Phase(c) /\ Phase(c)'
  BY <1>2, OwnFileFacts DEF Inv, InPhase
<1>4. Sending(c) /\ Len(stored[i]) < picked[f].size
  BY <1>1, <1>3, NextChunkPhase DEF Inv
<1>5. /\ f # 0 /\ f \in Patient /\ picked[f].by = c
      /\ i \in Files /\ i \in DOMAIN uploads /\ uploads[i].stage = "writing"
      /\ stored[i] # << >> /\ stored[i] \in Seq(Chunk) /\ stored[i][1].file = f
      /\ Got(f) = Len(stored[i]) /\ State(f) = "sending"
  BY <1>1, <1>2, <1>4, SendingSeen
<1>6. Len(stored'[i]) = Len(stored[i]) + 1 /\ stored'[i] # << >> /\ stored'[i][1].file = f
  <2> DEFINE x == Head(up[c]).chunk
  <2>1. x \in Chunk /\ stored'[i] = Append(stored[i], x)
    BY <1>2
  <2> HIDE DEF x
  <2>2. 1 \in DOMAIN stored[i] /\ 1 \in 1..Len(stored[i])
    BY <1>5, LenProperties, EmptySeq
  <2> QED
    BY <1>5, <2>1, <2>2, AppendProperties, AppendFacts
<1>7. IsUpload(i, f)' /\ InOrder(i, f)' /\ uploads'[i].stage = "writing"
  <2>1. Sending(c)'
    BY <1>1, <1>2, <1>3 DEF Phase, Idle, Empty, Beginning, Delivered
  <2> QED
    BY <1>1, <1>2, <2>1 DEF Sending
<1>8. Got(f)' = Got(f) + 1 /\ State(f)' = State(f)
  <2>1. page'[picked'[f].by].file = f /\ picked'[f].by \in open'
    BY <1>1, <1>2, <1>5
  <2> QED
    BY <1>5, <1>6, <1>7, <2>1, SeenAfter DEF Inv, SeenRight
<1>9. \A j \in Files : stored[j] # << >> => j \in DOMAIN uploads
  BY DEF Inv, Owned, OwnUploads
<1>10. ASSUME NEW s \in Patient, s # f PROVE KeepsUploads(s)
  BY <1>2, <1>5, <1>6, <1>9, <1>10 DEF KeepsUploads, Same, Patient
<1>11. \A s \in Patient : s # f => Seen(s)' = Seen(s)
  BY <1>1, <1>2, <1>10, OwnSeen
<1>12. Bar[f] = Seen(f) /\ Bar' = [Bar EXCEPT ![f].got = @ + 1]
  BY <1>2, <1>5, <1>8, <1>11, BarChanges
<1>13. Bar[f].state = "sending" /\ Bar[f].got < Bar[f].size
  BY <1>4, <1>5, <1>12 DEF Seen
<1> QED
  BY <1>5, <1>12, <1>13, SeenSteps

\* UPLOAD_CLIENT_COMPLETE of a patient page: the server has the whole file.
LEMMA DeliverSeen ==
  ASSUME Inv, Inv', NEW c \in Channels \ Hasty, ReadComplete(c), current[c] # 0
  PROVE  \E f \in Patient : Delivery!Deliver(f)
<1>1. PICK f, i : f = page[c].file /\ i = current[c]
  OBVIOUS
<1>2. /\ c \in open /\ current' = [current EXCEPT ![c] = 0]
      /\ Pops(c, "complete") /\ UNCHANGED <<down, stored>>
      /\ \E st \in {"received", "lost"} : Proceeds(i, st)
  BY <1>1, ReadCompleteDoes DEF Inv
<1>3. UNCHANGED <<open, picked, page>>
  BY <1>2 DEF Pops, client, Proceeds
<1>4. Phase(c)
  BY <1>2, OwnFileFacts
<1>5. Sending(c) /\ Len(stored[i]) = picked[f].size
  BY <1>1, <1>4, CompletePhase DEF Inv
<1>6. /\ f # 0 /\ f \in Patient /\ picked[f].by = c
      /\ i \in Files /\ i \in DOMAIN uploads /\ uploads[i].stage = "writing"
      /\ stored[i] # << >> /\ stored[i][1].file = f
      /\ Got(f) = Len(stored[i]) /\ State(f) = "sending"
  BY <1>1, <1>2, <1>5, SendingSeen
<1>7. IsUpload(i, f) /\ InOrder(i, f)
  BY <1>1, <1>5 DEF Sending
<1>8. uploads'[i].stage # "writing" /\ uploads'[i].name = uploads[i].name /\ IsUpload(i, f)'
  BY <1>2, <1>3, <1>7 DEF Proceeds, IsUpload
<1>9. InOrder(i, f)'
  BY <1>2, <1>3, <1>7, <1>8 DEF InOrder
<1>10. Got(f)' = Got(f) /\ State(f)' = "delivered"
  <2>1. page'[picked'[f].by].file = f /\ picked'[f].by \in open'
    BY <1>1, <1>2, <1>3, <1>6
  <2>2. stored' = stored
    BY <1>2
  <2> QED
    BY <1>6, <1>8, <1>9, <2>1, <2>2, SeenAfter DEF Inv, SeenRight
<1>11. \A j \in Files : stored[j] # << >> => j \in DOMAIN uploads
  BY DEF Inv, Owned, OwnUploads
<1>12. ASSUME NEW s \in Patient, s # f PROVE KeepsUploads(s)
  BY <1>2, <1>3, <1>6, <1>11, <1>12 DEF KeepsUploads, Same, Proceeds, Patient
<1>13. \A s \in Patient : s # f => Seen(s)' = Seen(s)
  BY <1>1, <1>3, <1>12, OwnSeen DEF Acts, Event
<1>14. Bar[f] = Seen(f) /\ Bar' = [Bar EXCEPT ![f].state = "delivered"]
  BY <1>3, <1>6, <1>10, <1>13, BarChanges
<1>15. Bar[f].state = "sending" /\ Bar[f].got = Bar[f].size
  BY <1>5, <1>6, <1>14 DEF Seen
<1> QED
  BY <1>6, <1>14, <1>15, SeenSteps

\* A pick on a patient page offers the file.
LEMMA OfferSeen ==
  ASSUME Inv, Inv', NEW c \in Channels \ Hasty, NEW n \in Names, NEW size \in 0..MaxChunks,
         Pick(c, n, size)
  PROVE  \E f \in Files : Delivery!Offer(c, f, size)
<1>1. PICK f : f = NextFile
  OBVIOUS
<1>2. Picks(c, n, size)
  BY PickDoes DEF Inv
<1>3. /\ c \in open /\ page[c].file = 0 /\ UNCHANGED <<open, uploads, stored>>
      /\ f \in Files /\ f \notin DOMAIN picked
      /\ DOMAIN picked' = DOMAIN picked \cup {f}
      /\ \A s \in DOMAIN picked : picked'[s] = picked[s]
      /\ picked'[f] = [by |-> c, name |-> n, size |-> size]
      /\ page'[c].file = f
  BY <1>1, <1>2 DEF Picks, handler
<1>4. picked'[f].by = c /\ picked'[f].size = size
  BY <1>3
<1>5. Patient' = Patient \cup {f} /\ f \notin Patient
  BY <1>3, <1>4 DEF Patient
<1>6. ASSUME NEW s \in Patient PROVE Seen(s)' = Seen(s) /\ KeepsUploads(s)
  <2>1. KeepsUploads(s)
    BY <1>3 DEF KeepsUploads, Patient
  <2>2. CASE picked[s].by # c
    BY <2>1, <2>2, OthersSeen DEF Acts
  <2>3. CASE picked[s].by = c
    <3>1. page[c].file # s /\ page'[c].file # s
      BY <1>3, <1>5, PatientFacts DEF Inv
    <3> QED
      BY <2>1, <2>3, <3>1, SeenKept
  <2> QED
    BY <2>1, <2>2, <2>3
<1>7. ASSUME NEW s \in Patient, picked[s].by = c PROVE State(s) = "told"
  <2>1. page[picked[s].by].file # s
    BY <1>3, <1>7, PatientFacts DEF Inv
  <2> QED
    BY <2>1, SeenFacts DEF Inv, SeenRight
<1>8. Got(f)' = 0 /\ State(f)' = "sending"
  <2>1. Unsent(f)'
    <3> SUFFICES ASSUME NEW j \in Files, stored[j] # << >> PROVE stored[j][1].file # f
      BY <1>3 DEF Unsent, Files
    <3> QED
      BY <1>3 DEF Inv, Owned, OwnUploads, PickedBy
  <2>2. page'[picked'[f].by].file = f /\ picked'[f].by \in open'
    BY <1>3, <1>4
  <2> QED
    BY <2>1, <2>2, SeenAfter DEF Inv, SeenRight
<1>9. Seen(f)' = [by |-> c, size |-> size, got |-> 0, state |-> "sending"]
  BY <1>4, <1>8 DEF Seen
<1>10. /\ Bar' = [s \in Patient' |-> Seen(s)'] /\ \A s \in Patient : Bar[s] = Seen(s)
  BY DEF Bar
<1>11. Bar' = [g \in Patient \cup {f} |->
                 IF g = f THEN [by |-> c, size |-> size, got |-> 0, state |-> "sending"]
                 ELSE Bar[g]]
  BY <1>5, <1>6, <1>9, <1>10
<1>12. \A g \in Patient : Bar[g].by = c => Bar[g].state = "told"
  <2>1. \A g \in Patient : Bar[g].by = picked[g].by /\ Bar[g].state = State(g)
    BY DEF Bar, Seen
  <2> QED
    BY <1>7, <2>1
<1>13. Delivery!Offer(c, f, size)
  BY <1>5, <1>11, <1>12, SeenSteps
<1> QED
  BY <1>3, <1>13

\* The end of a connection cuts off what its page was sending.
LEMMA CutOffSeen ==
  ASSUME Inv, Inv', NEW c \in Channels, RefuseChunk(c) \/ Disconnect(c)
  PROVE  Delivery!CutOff(c)
<1>1. c \in open /\ open' = open \ {c} /\ UNCHANGED <<uploads, picked, page, stored>>
  BY CloseAndCut DEF Goes
<1>2. \A s \in Patient : KeepsUploads(s)
  BY <1>1 DEF KeepsUploads, Patient
<1>3. \A s \in Patient : Bar[s] = Seen(s) /\ Seen(s).by = picked[s].by /\ Seen(s).state = State(s)
  BY DEF Bar, Seen
<1>4. ASSUME NEW s \in Patient
      PROVE  Seen(s)' = [Seen(s) EXCEPT !.state =
                           IF picked[s].by = c /\ State(s) = "sending" THEN "cut off" ELSE State(s)]
  <2>1. CASE picked[s].by # c
    <3>1. Seen(s)' = Seen(s)
      BY <2>1, OthersSeen DEF Acts, Event
    <3> QED
      BY <2>1, <3>1 DEF Seen
  <2>2. CASE picked[s].by = c
    <3>1. UploadOf(s)' = UploadOf(s) /\ Got(s)' = Got(s)
      BY <1>2, GotKept
    <3>2. State(s)' = IF State(s) = "sending" THEN "cut off" ELSE State(s)
      BY <1>1, <2>2, <3>1 DEF State
    <3>3. PICK st : st = IF State(s) = "sending" THEN "cut off" ELSE State(s)
      OBVIOUS
    <3>4. Seen(s)' = [Seen(s) EXCEPT !.state = st]
      <4>1. picked'[s] = picked[s] /\ Got(s)' = Got(s) /\ State(s)' = st
        BY <1>1, <3>1, <3>2, <3>3
      <4> QED
        BY <4>1 DEF Seen
    <3> QED
      BY <2>2, <3>3, <3>4
  <2> QED
    BY <2>1, <2>2
<1>5. Bar' = [s \in Patient |-> Seen(s)']
  BY <1>1 DEF Bar, Patient
<1>6. Bar' = [f \in Patient |->
                [Bar[f] EXCEPT !.state =
                   IF Bar[f].by = c /\ @ = "sending" THEN "cut off" ELSE @]]
  <2>1. ASSUME NEW s \in Patient
        PROVE  Seen(s)' = [Bar[s] EXCEPT !.state =
                             IF Bar[s].by = c /\ @ = "sending" THEN "cut off" ELSE @]
    BY <1>3, <1>4
  <2> QED
    BY <1>5, <2>1
<1> QED
  BY <1>6, SeenSteps

\* Every step is a step of FileDelivery, or changes nothing that it sees.
LEMMA DeliveryStep ==
  ASSUME Inv, Inv', [Next]_vars
  PROVE  Delivery!Next \/ Bar' = Bar
<1>0. Patient \subseteq Files
  BY PatientFacts DEF Inv
<1>1. /\ \A f \in Patient : Delivery!Chunk(f) \/ Delivery!Deliver(f) \/ Delivery!Tell(f)
           => Delivery!Next
      /\ \A c \in Channels : Delivery!CutOff(c) => Delivery!Next
      /\ \A c \in Channels, f \in Files, size \in 0..MaxChunks :
           Delivery!Offer(c, f, size) => Delivery!Next
  BY DEF Delivery!Next
<1>2. CASE UNCHANGED vars
  <2>1. UNCHANGED <<picked, stored, open, uploads, page>>
    BY <1>2 DEF vars, handler, client
  <2> QED
    BY <2>1, QuietSeen DEF Inv
<1>3. ASSUME NEW c \in Channels \cap Hasty, Acts(c) PROVE Delivery!Next \/ Bar' = Bar
  BY <1>3, HastySeen
<1>4. ASSUME NEW c \in Channels \ Hasty, Acts(c) PROVE Delivery!Next \/ Bar' = Bar
  <2>1. CASE \E n \in Names, size \in 0..MaxChunks : Pick(c, n, size)
    BY <1>1, <2>1, OfferSeen
  <2>2. ASSUME UNCHANGED <<handler, picked, stored>>,
               \A d \in Channels : page'[d].file = page[d].file
        PROVE  Bar' = Bar
    BY <2>2, QuietSeen DEF Inv, handler
  <2>3. CASE Loaded(c)
    <3>1. PICK r \in DOMAIN reading[c] : Loads(c, r)
      BY <2>3, LoadedDoes DEF Inv
    <3> QED
      BY <2>2, <3>1 DEF Loads
  <2>4. CASE ReadReceived(c)
    <3>1. UNCHANGED <<handler, picked, stored, page>>
      BY <2>4, ReadReceivedDoes DEF Inv, Takes
    <3> QED
      BY <2>2, <3>1
  <2>5. CASE ReadAudited(c)
    BY <1>1, <2>5, TellSeen
  <2>6. CASE ReadFile(c)
    BY <2>2, <2>6, ReadFileDoes DEF Inv, Takes
  <2>7. CASE ReadBlob(c)
    <3>1. UNCHANGED <<handler, picked, stored, page>>
      BY <2>7, ReadBlobDoes DEF Inv, Takes
    <3> QED
      BY <2>2, <3>1
  <2>8. CASE ReadStart(c)
    <3>1. UNCHANGED <<open, uploads, stored, picked, page>>
      BY <2>8, ReadStartDoes DEF Inv, Pops, client
    <3> QED
      BY <3>1, QuietSeen DEF Inv
  <2>9. CASE ReadChunk(c)
    <3>1. \/ Begins(c) /\ Writes(c, NextNo)
          \/ Continues(c) /\ Writes(c, current[c])
      BY <2>9, ReadChunkDoes DEF Inv
    <3> QED
      BY <1>1, <1>4, <3>1, FirstChunkSeen, NextChunkSeen
  <2>10. CASE ReadComplete(c)
    <3>1. CASE current[c] # 0
      BY <1>1, <2>10, <3>1, DeliverSeen
    <3>2. CASE current[c] = 0
      <4>1. UNCHANGED <<handler, picked, stored, page>>
        BY <2>10, <3>2, ReadCompleteDoes DEF Inv, Pops, client
      <4> QED
        BY <2>2, <4>1
    <3> QED
      BY <3>1, <3>2
  <2>11. CASE RefuseChunk(c) \/ Disconnect(c)
    BY <1>1, <2>11, CutOffSeen
  <2> QED
    BY <1>4, <2>1, <2>3, <2>4, <2>5, <2>6, <2>7, <2>8, <2>9, <2>10, <2>11
       DEF Acts, Page, Event
<1>5. ASSUME NEW i \in Files, Task(i) PROVE Bar' = Bar
  <2>1. UNCHANGED <<client, up, stored, shown>>
    BY <1>5, TaskSends DEF Inv, Sends
  <2>2. PICK st : st # "writing" /\ Proceeds(i, st) /\ uploads[i].stage # "writing"
    BY <1>5, TaskSends DEF Inv
  <2> QED
    BY <2>1, <2>2, QuietSeen DEF Inv, Proceeds, Same, client
<1> QED
  BY <1>2, <1>3, <1>4, <1>5 DEF Next, Acts

\* Page and handler together keep the promise of FileDelivery to the user who waits:
\* the chunks arrive in order, under the picked name and all of them before the server
\* says so, the user is told after that, and picks the next file after that.
THEOREM DeliversFiles == Spec => DeliversInOrder
<1>1. Init => Delivery!Init
  <2> SUFFICES ASSUME Init PROVE Bar = [f \in {} |-> f]
    BY SeenSteps
  <2>1. Patient = {}
    BY DEF Init, Patient
  <2> QED
    BY <2>1 DEF Bar
<1>2. Inv /\ Inv' /\ [Next]_vars => [Delivery!Next]_Bar
  BY DeliveryStep
<1> QED
  BY <1>1, <1>2, InvariantHolds, PTL DEF Spec, DeliversInOrder, Delivery!Spec, Bar, Seen
=============================================================================
