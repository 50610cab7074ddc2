----------------------------- MODULE ChatUpload -----------------------------
(***************************************************************************)
(* The file side of ChatRoomWebSocketHandler: a client uploads a file over *)
(* its WebSocket, a task audits it, broadcasts it to the room and deletes  *)
(* it.  Files are kept under <temp dir>/<caller id>/<file name>, a path    *)
(* HttpFileUploadHandler writes too; MyAuthenticator gives every user the  *)
(* same caller id, so a path is a file name here.                          *)
(*                                                                         *)
(* An event loop handles one frame of its channel at a time; the task of   *)
(* an upload runs on a thread of its own and interleaves, file operation   *)
(* by file operation, with the event loops and the HTTP workers.  A path   *)
(* leads to an inode, and streams hold on to the inode: opening a file     *)
(* that is there truncates it, deleting it leaves open streams writing to  *)
(* a file nobody finds.                                                    *)
(***************************************************************************)
EXTENDS Naturals, Sequences

CONSTANTS Channels,    \* WebSocket connections with a known caller
          Names,       \* file names
          Requests,    \* HTTP uploads
          FileOf,      \* the file name of each
          NoName, NoFile, Directory,   \* no name set; nothing, a directory at a path
          MaxUploads,  \* bound: files whose first chunk is accepted
          MaxChunks,   \* bound: chunks of a file
          BigSize      \* FIVE_MB, in chunks

ASSUME ChatUploadAssumption ==
  /\ MaxUploads \in Nat /\ MaxChunks \in Nat /\ BigSize \in Nat
  /\ NoName \notin Names
  /\ FileOf \in [Requests -> Names]
  /\ Requests \cap Nat = {}
  /\ NoFile \notin Nat \cup Requests
  /\ Directory \notin Nat \cup Requests \cup {NoFile}

VARIABLES
  open,     \* the channels that are open
  fileName, \* TARGET_FILE_NAME_KEY
  current,  \* the upload whose TARGET_FILE, FILE_STREAM and FILE_CHANNEL are set, or 0
  uploads,  \* the uploads, in the order of their first chunk
  dir,      \* what each path leads to
  content,  \* the chunks in each inode
  http      \* how far each HTTP upload is

vars == <<open, fileName, current, uploads, dir, content, http>>

----------------------------------------------------------------------------
(* Types *)

\* An inode is named after the upload or the request that created it, a chunk
\* after the upload or the request that wrote it.
Inodes == 1..MaxUploads \cup Requests
Bytes  == Seq(Inodes)

\* An upload: its stream is open while "writing"; its task is queued when
\* "received", has answered when "audited", has called onFileReceived and sent
\* the FILE frame when "announced", the binary frame when "cast"; a "lost"
\* upload gets no task.  `sent` counts its chunks, `ack` is the size last
\* reported, `seen` what onFileReceived found, `binary` what the room got.
\* The code has no `disturbed`: somebody else changed its path or its inode.
Upload == [by : Channels, name : Names, inode : Inodes,
           stage : {"writing", "received", "audited", "announced", "cast", "done", "lost"},
           sent : Nat, ack : Nat, seen : Bytes, binary : Bytes, disturbed : BOOLEAN]

TypeOK ==
  /\ open \subseteq Channels
  /\ fileName \in [Channels -> Names \cup {NoName}]
  /\ uploads \in Seq(Upload)
  /\ current \in [Channels -> {0} \cup DOMAIN uploads]
  /\ dir \in [Names -> Inodes \cup {NoFile, Directory}]
  /\ content \in [Inodes -> Bytes]
  /\ http \in [Requests -> {"received", "prepared", "moved"}]

\* The bytes a reader of path n finds; File.length() of a missing file is 0.
Read(n) == IF dir[n] \in Inodes THEN content[dir[n]] ELSE << >>

\* The bytes upload i sent.
Own(i) == [k \in 1..uploads[i].sent |-> i]

Live(i) == uploads[i].stage \notin {"done", "lost"}

\* The uploads after somebody other than i has changed what S stands for.
Disturb(i, S) ==
  [j \in DOMAIN uploads |->
     [uploads[j] EXCEPT !.disturbed = @ \/ (j # i /\ Live(j) /\ j \in S)]]

OnPath(n)   == {j \in DOMAIN uploads : uploads[j].name = n}
OnInode(x)  == {j \in DOMAIN uploads : uploads[j].inode = x}

Init ==
  /\ open = Channels
  /\ fileName = [c \in Channels |-> NoName]
  /\ current = [c \in Channels |-> 0]
  /\ uploads = << >>
  /\ dir = [n \in Names |-> NoFile]
  /\ content = [x \in Inodes |-> << >>]
  /\ http = [h \in Requests |-> "received"]

\* The channel closes and its attributes go with it; a stream that only they
\* knew stays open, and what it has written stays on the disk.
Close(c) ==
  /\ open' = open \ {c}
  /\ fileName' = [fileName EXCEPT ![c] = NoName]
  /\ current' = [current EXCEPT ![c] = 0]
  /\ UNCHANGED <<uploads, dir, content, http>>

----------------------------------------------------------------------------
(* Frames *)

\* Mutant: a name, and not an open stream, tells where an upload begins.
BetweenFilesByName(c) == c \in open /\ fileName[c] # NoName

\* No stream is open: a binary frame starts a file.
BetweenFiles(c) == c \in open /\ current[c] = 0

\* UPLOAD_CLIENT_START remembers the name of the file that will come.
Start(c, n) ==
  /\ c \in open
  /\ fileName' = [fileName EXCEPT ![c] = n]
  /\ UNCHANGED <<open, current, uploads, dir, content, http>>

\* A first chunk with no name, or whose path is a directory: the exception
\* closes the channel.
RefuseFirstChunk(c) ==
  /\ BetweenFiles(c)
  /\ fileName[c] \notin {n \in Names : dir[n] # Directory}
  /\ Close(c)

\* Mutant: the stream is opened only if the file is there.
OpenedExisting(n, i) == dir[n]

\* The inode behind path n once upload i has opened it.
Opened(n, i) == IF dir[n] = NoFile THEN i ELSE dir[n]

\* Mutant: the stream is opened to append.
FirstBytesAppended(x, i) == Append(content[x], i)

\* What the first chunk of upload i makes of inode x: a file that is there is
\* truncated.
FirstBytes(x, i) == <<i>>

\* A first chunk opens the file and is written.
FirstChunk(c) ==
  LET n == fileName[c]
      i == Len(uploads) + 1
      x == Opened(n, i)
  IN  /\ BetweenFiles(c)
      /\ n # NoName /\ dir[n] # Directory
      /\ i <= MaxUploads
      /\ fileName' = [fileName EXCEPT ![c] = NoName]
      /\ dir' = [dir EXCEPT ![n] = x]
      /\ content' = [content EXCEPT ![x] = FirstBytes(x, i)]
      /\ uploads' = Append(Disturb(i, OnPath(n) \cup OnInode(x)),
           [by |-> c, name |-> n, inode |-> x, stage |-> "writing", sent |-> 1,
            ack |-> 1, seen |-> << >>, binary |-> << >>, disturbed |-> FALSE])
      /\ current' = [current EXCEPT ![c] = i]
      /\ UNCHANGED <<open, http>>

\* Upload i writes a chunk at the end of its inode and reports the size.
Write(i) ==
  LET x == uploads[i].inode
  IN  /\ uploads[i].sent < MaxChunks
      /\ content' = [content EXCEPT ![x] = Append(@, i)]
      /\ uploads' = [Disturb(i, OnInode(x)) EXCEPT
           ![i].sent = @ + 1, ![i].ack = Len(content[x]) + 1]

\* A further binary frame, or a continuation frame that is not the last.
NextChunk(c) ==
  /\ c \in open /\ current[c] # 0
  /\ Write(current[c])
  /\ UNCHANGED <<open, fileName, current, dir, http>>

\* A continuation frame of no upload closes the channel.
RefuseContinuation(c) ==
  /\ BetweenFiles(c)
  /\ Close(c)

\* Mutant: only a small file gets a task.
StageOfReceivedSmall(n) ==
  IF dir[n] # NoFile /\ Len(Read(n)) < BigSize THEN "received" ELSE "lost"

\* fileUploadOnReceivedFullFile: the stream is closed; the task is submitted
\* only if something exists at the path.
StageOfReceived(n) == IF dir[n] # NoFile THEN "received" ELSE "lost"

\* UPLOAD_CLIENT_COMPLETE; without an upload nothing happens.
Complete(c) ==
  /\ c \in open /\ current[c] # 0
  /\ uploads' = [uploads EXCEPT ![current[c]].stage =
                   StageOfReceived(uploads[current[c]].name)]
  /\ current' = [current EXCEPT ![c] = 0]
  /\ UNCHANGED <<open, fileName, dir, content, http>>

\* The peer goes away.  Nothing closes the stream of an unfinished upload.
Disconnect(c) ==
  /\ c \in open
  /\ Close(c)

----------------------------------------------------------------------------
(* The task of a received file *)

\* The audit passes everything; the client is told.
Audit(i) ==
  /\ uploads[i].stage = "received"
  /\ uploads' = [uploads EXCEPT ![i].stage = "audited"]
  /\ UNCHANGED <<open, fileName, current, dir, content, http>>

\* onFileReceived looks at the file, the room gets the message and the FILE frame.
Announce(i) ==
  /\ uploads[i].stage = "audited"
  /\ uploads' = [uploads EXCEPT ![i].stage = "announced",
                                ![i].seen = Read(uploads[i].name)]
  /\ UNCHANGED <<open, fileName, current, dir, content, http>>

\* Mutant: the limit is off by one.
SmallOffByOne(n) == Len(Read(n)) + 1 < BigSize /\ dir[n] \in Inodes

\* The file at path n is shorter than FIVE_MB and can be opened.
Small(n) == Len(Read(n)) < BigSize /\ dir[n] \in Inodes

\* A small file goes out as one binary frame.  A big one, and one that cannot
\* be opened, goes nowhere and stays.
Cast(i) ==
  LET n == uploads[i].name
  IN  /\ uploads[i].stage = "announced"
      /\ uploads' = [uploads EXCEPT
           ![i].stage = IF Small(n) THEN "cast" ELSE "done",
           ![i].binary = IF Small(n) THEN Read(n) ELSE @]
      /\ UNCHANGED <<open, fileName, current, dir, content, http>>

\* Mutant: the broadcast file is left on the disk.
DeleteForgotten(i) ==
  /\ uploads[i].stage = "cast"
  /\ uploads' = [uploads EXCEPT ![i].stage = "done"]
  /\ UNCHANGED <<open, fileName, current, dir, content, http>>

\* deleteIfExists, whatever is at the path by now.
Delete(i) ==
  LET n == uploads[i].name
  IN  /\ uploads[i].stage = "cast"
      /\ dir' = [dir EXCEPT ![n] = NoFile]
      /\ uploads' = [Disturb(i, OnPath(n)) EXCEPT ![i].stage = "done"]
      /\ UNCHANGED <<open, fileName, current, content, http>>

----------------------------------------------------------------------------
(* HttpFileUploadHandler.onFileUploaded *)

\* mkdirs() makes a directory of the destination itself, if nothing is there.
Prepare(h) ==
  /\ http[h] = "received"
  /\ http' = [http EXCEPT ![h] = "prepared"]
  /\ dir' = [dir EXCEPT ![FileOf[h]] = IF @ = NoFile THEN Directory ELSE @]
  /\ UNCHANGED <<open, fileName, current, uploads, content>>

\* Files.move with REPLACE_EXISTING, over the empty directory or over a file.
Move(h) ==
  /\ http[h] = "prepared"
  /\ http' = [http EXCEPT ![h] = "moved"]
  /\ dir' = [dir EXCEPT ![FileOf[h]] = h]
  /\ content' = [content EXCEPT ![h] = <<h>>]
  /\ uploads' = Disturb(0, OnPath(FileOf[h]))
  /\ UNCHANGED <<open, fileName, current>>

Next ==
  \/ \E c \in Channels :
       \/ \E n \in Names : Start(c, n)
       \/ RefuseFirstChunk(c) \/ FirstChunk(c) \/ NextChunk(c) \/ RefuseContinuation(c)
       \/ Complete(c) \/ Disconnect(c)
  \/ \E i \in DOMAIN uploads : Audit(i) \/ Announce(i) \/ Cast(i) \/ Delete(i)
  \/ \E h \in Requests : Prepare(h) \/ Move(h)

Spec == Init /\ [][Next]_vars

----------------------------------------------------------------------------
(* What the handler keeps true *)

Announced(i) == uploads[i].stage \in {"announced", "cast", "done"}

\* A file whose path and inode nobody else touched meanwhile is never damaged:
\* what onFileReceived and the room got is what its client sent, chunk for
\* chunk, and the client was told the right size.
LosslessUnlessDisturbed ==
  \A i \in DOMAIN uploads :
    ~uploads[i].disturbed =>
      /\ uploads[i].ack = uploads[i].sent
      /\ Announced(i) => uploads[i].seen = Own(i)
      /\ uploads[i].binary \in {<< >>, Own(i)}

\* Such a file is never dropped in silence when its client says COMPLETE.
AnsweredUnlessDisturbed ==
  \A i \in DOMAIN uploads : uploads[i].stage = "lost" => uploads[i].disturbed

\* While a connection lives, every stream it opened is the one its attributes
\* hold: none is left open and forgotten by a second upload.
NoOrphanStream ==
  \A i \in DOMAIN uploads :
    uploads[i].stage = "writing" /\ uploads[i].by \in open => current[uploads[i].by] = i

\* A broadcast file is off the disk when its task ends, and stays off.
BroadcastFileIsGone ==
  \A i \in DOMAIN uploads :
    uploads[i].stage = "done" /\ uploads[i].binary # << >> /\ ~uploads[i].disturbed
      => \A n \in Names : dir[n] # uploads[i].inode

\* A task that ends has broadcast its file, unless the file was disturbed or big.
FinishedIsBroadcast ==
  \A i \in DOMAIN uploads :
    uploads[i].stage = "done" /\ ~uploads[i].disturbed /\ uploads[i].sent < BigSize
      => uploads[i].binary = Own(i)

----------------------------------------------------------------------------
(* What a comment promises and the code does not keep *)

\* onFileReceived is the "business callback hook after successful lossless
\* transfer and disk write": the file it is given holds what the client sent.
LosslessAtCallback ==
  \A i \in DOMAIN uploads : Announced(i) => uploads[i].seen = Own(i)
=============================================================================
