-------------------------- MODULE ChatUploadProofs --------------------------
(***************************************************************************)
(* Proofs about ChatUpload, for any channels, names and HTTP requests, any *)
(* number of uploads and any size of files.                                *)
(***************************************************************************)
EXTENDS ChatUpload, SequenceTheorems, TLAPS

USE ChatUploadAssumption

----------------------------------------------------------------------------
(* The inductive invariant *)

\* Every number of an upload is the name of an inode.
UploadsBounded == Len(uploads) <= MaxUploads

\* The attributes of a channel hold an upload of its own that is not over.
StreamsOwned ==
  \A c \in Channels : current[c] # 0 =>
    /\ uploads[current[c]].by = c
    /\ uploads[current[c]].stage = "writing"

\* An inode that somebody knows was created.
Created(x) == IF x \in Nat THEN x <= Len(uploads) ELSE http[x] = "moved"

\* What is on the disk or was: the next inode to be created is a new one, and an
\* inode has one path at most.
DiskInv ==
  /\ \A n \in Names : dir[n] \in Inodes => Created(dir[n])
  /\ \A i \in DOMAIN uploads : Created(uploads[i].inode)
  /\ \A n, m \in Names : dir[n] = dir[m] /\ dir[n] \in Inodes => n = m

\* The path of upload i leads to its inode, which holds what its client sent.
Intact(i) ==
  /\ dir[uploads[i].name] = uploads[i].inode
  /\ content[uploads[i].inode] = Own(i)

\* What the room got of upload i, by how far its task is.
Delivered(i) ==
  LET u == uploads[i]
  IN  /\ u.stage # "lost"
      /\ u.stage \in {"writing", "received", "audited", "announced"} => u.binary = << >>
      /\ u.stage = "cast" => u.binary = Own(i)
      /\ u.stage = "done" =>
           /\ u.binary \in {<< >>, Own(i)}
           /\ u.sent < BigSize => u.binary = Own(i)
           /\ u.binary # << >> => \A n \in Names : dir[n] # u.inode

\* What holds of an upload that nobody disturbed.
Sound(i) ==
  /\ uploads[i].ack = uploads[i].sent
  /\ Live(i) => Intact(i)
  /\ Announced(i) => uploads[i].seen = Own(i)
  /\ Delivered(i)

SoundInv == \A i \in DOMAIN uploads : ~uploads[i].disturbed => Sound(i)

Inv == TypeOK /\ UploadsBounded /\ StreamsOwned /\ NoOrphanStream /\ DiskInv /\ SoundInv

----------------------------------------------------------------------------
(* Data *)

\* What TypeOK says of the sequence of uploads.
LEMMA UploadFacts ==
  ASSUME TypeOK
  PROVE  /\ Len(uploads) \in Nat /\ DOMAIN uploads = 1..Len(uploads)
         /\ \A j \in DOMAIN uploads : uploads[j] \in Upload
BY DEF TypeOK

\* Inodes and the other things a path may lead to are different.
LEMMA PathKinds ==
  /\ NoFile \notin Inodes /\ Directory \notin Inodes /\ NoFile # Directory
  /\ \A x \in Inodes : x \in Nat => x \in 1..MaxUploads
  /\ \A h \in Requests : h \in Inodes /\ h \notin Nat
  /\ \A x \in Inodes : x \notin Nat => x \in Requests
  /\ 1..MaxUploads \subseteq Inodes
BY DEF Inodes

\* The chunks an upload has sent, when they are n.
Chunks(i, n) == [k \in 1..n |-> i]

\* They are bytes, and one more chunk makes one more of them.
LEMMA ChunksFacts ==
  ASSUME NEW i \in Inodes, NEW n \in Nat
  PROVE  /\ Chunks(i, n) \in Bytes /\ Len(Chunks(i, n)) = n
         /\ Append(Chunks(i, n), i) = Chunks(i, n + 1)
<1>1. Chunks(i, n) \in Bytes /\ Len(Chunks(i, n)) = n
  BY IsASeq DEF Chunks, Bytes
<1>2. Chunks(i, n + 1) \in Bytes /\ Len(Chunks(i, n + 1)) = n + 1
  BY IsASeq DEF Chunks, Bytes
<1> DEFINE s == Append(Chunks(i, n), i)
<1>3. /\ s \in Seq(Inodes) /\ Len(s) = n + 1
      /\ \A k \in 1..n : s[k] = Chunks(i, n)[k]
      /\ s[n + 1] = i
  BY <1>1, AppendProperties DEF Bytes
<1>4. \A k \in 1..(n + 1) : s[k] = Chunks(i, n + 1)[k]
  BY <1>3 DEF Chunks
<1> HIDE DEF s
<1>5. s = Chunks(i, n + 1)
  BY <1>2, <1>3, <1>4, SeqEqual DEF Bytes
<1> QED
  BY <1>1, <1>5 DEF s

\* The first chunk.
LEMMA OneChunk ==
  ASSUME NEW i \in Inodes
  PROVE  <<i>> \in Bytes /\ <<i>> = Chunks(i, 1)
<1>1. <<i>> \in Bytes /\ Len(<<i>>) = 1 /\ <<i>>[1] = i
  BY DEF Bytes
<1>2. Chunks(i, 1) \in Bytes /\ Len(Chunks(i, 1)) = 1
  BY ChunksFacts
<1>3. Chunks(i, 1)[1] = i
  BY DEF Chunks
<1> QED
  BY <1>1, <1>2, <1>3, SeqEqual DEF Bytes

\* Of upload j a step changes nothing but `disturbed`.
Kept(j) ==
  /\ uploads'[j].by = uploads[j].by /\ uploads'[j].name = uploads[j].name
  /\ uploads'[j].inode = uploads[j].inode /\ uploads'[j].stage = uploads[j].stage
  /\ uploads'[j].sent = uploads[j].sent /\ uploads'[j].ack = uploads[j].ack
  /\ uploads'[j].seen = uploads[j].seen /\ uploads'[j].binary = uploads[j].binary

\* An upload that is undisturbed after somebody else changed S was undisturbed
\* before, and is none of S if it goes on.
LEMMA DisturbFacts ==
  ASSUME TypeOK, NEW i, NEW S
  PROVE  /\ Disturb(i, S) \in Seq(Upload)
         /\ Len(Disturb(i, S)) = Len(uploads) /\ DOMAIN Disturb(i, S) = DOMAIN uploads
         /\ \A j \in DOMAIN uploads :
              LET d == Disturb(i, S)[j]
                  u == uploads[j]
              IN  /\ d.by = u.by /\ d.name = u.name /\ d.inode = u.inode /\ d.stage = u.stage
                  /\ d.sent = u.sent /\ d.ack = u.ack /\ d.seen = u.seen /\ d.binary = u.binary
                  /\ ~d.disturbed => ~u.disturbed /\ (j = i \/ ~Live(j) \/ j \notin S)
<1> DEFINE b(j) == j # i /\ Live(j) /\ j \in S
           d(j) == [uploads[j] EXCEPT !.disturbed = @ \/ b(j)]
<1>1. \A j \in DOMAIN uploads :
        LET u == uploads[j]
        IN  /\ d(j) \in Upload
            /\ d(j).by = u.by /\ d(j).name = u.name /\ d(j).inode = u.inode
            /\ d(j).stage = u.stage /\ d(j).sent = u.sent /\ d(j).ack = u.ack
            /\ d(j).seen = u.seen /\ d(j).binary = u.binary
            /\ ~d(j).disturbed => ~u.disturbed /\ ~b(j)
  <2> SUFFICES ASSUME NEW j \in DOMAIN uploads
               PROVE  LET u == uploads[j]
                      IN  /\ d(j) \in Upload
                          /\ d(j).by = u.by /\ d(j).name = u.name /\ d(j).inode = u.inode
                          /\ d(j).stage = u.stage /\ d(j).sent = u.sent /\ d(j).ack = u.ack
                          /\ d(j).seen = u.seen /\ d(j).binary = u.binary
                          /\ ~d(j).disturbed => ~u.disturbed /\ ~b(j)
    OBVIOUS
  <2>1. uploads[j] \in Upload
    BY UploadFacts
  <2> HIDE DEF b
  <2> QED
    BY <2>1 DEF Upload
<1>2. Disturb(i, S) = [j \in DOMAIN uploads |-> d(j)]
  BY DEF Disturb
<1> HIDE DEF d
<1>3. Disturb(i, S) \in Seq(Upload) /\ Len(Disturb(i, S)) = Len(uploads)
  BY <1>1, <1>2, UploadFacts, IsASeq
<1> QED
  BY <1>1, <1>2, <1>3

----------------------------------------------------------------------------
(* Type correctness, and what the actions do to the uploads *)

\* Upload j is undisturbed after a step only if it was before it.
Calm(j) == ~uploads'[j].disturbed => ~uploads[j].disturbed

\* The number of the next upload.
NextNo == Len(uploads) + 1

\* A first chunk adds an upload, which is the next one; whoever else was at the
\* path or the inode and goes on is disturbed.
Begins(c, n, x) ==
  /\ n = fileName[c] /\ x = Opened(n, NextNo)
  /\ NextNo \in 1..MaxUploads /\ dir[n] # Directory
  /\ c \in open /\ current[c] = 0
  /\ fileName' = [fileName EXCEPT ![c] = NoName]
  /\ dir' = [dir EXCEPT ![n] = x]
  /\ content' = [content EXCEPT ![x] = <<NextNo>>]
  /\ current' = [current EXCEPT ![c] = NextNo]
  /\ UNCHANGED <<open, http>>
  /\ uploads' \in Seq(Upload) /\ Len(uploads') = NextNo
  /\ \A j \in DOMAIN uploads :
       /\ Kept(j) /\ Calm(j)
       /\ ~uploads'[j].disturbed =>
            ~Live(j) \/ (uploads[j].name # n /\ uploads[j].inode # x)
  /\ uploads'[NextNo] = [by |-> c, name |-> n, inode |-> x, stage |-> "writing", sent |-> 1,
       ack |-> 1, seen |-> << >>, binary |-> << >>, disturbed |-> FALSE]

\* A first chunk, typed.
LEMMA FirstChunkFacts ==
  ASSUME TypeOK, UploadsBounded, NEW c \in Channels, FirstChunk(c)
  PROVE  \E n \in Names, x \in Inodes : Begins(c, n, x)
<1> DEFINE n == fileName[c]
           x == Opened(n, NextNo)
           S == OnPath(n) \cup OnInode(x)
           new == [by |-> c, name |-> n, inode |-> x, stage |-> "writing", sent |-> 1,
                   ack |-> 1, seen |-> << >>, binary |-> << >>, disturbed |-> FALSE]
           d == Disturb(NextNo, S)
<1>1. /\ c \in open /\ current[c] = 0
      /\ n # NoName /\ dir[n] # Directory /\ NextNo <= MaxUploads
      /\ fileName' = [fileName EXCEPT ![c] = NoName]
      /\ dir' = [dir EXCEPT ![n] = x]
      /\ content' = [content EXCEPT ![x] = <<NextNo>>]
      /\ uploads' = Append(d, new)
      /\ current' = [current EXCEPT ![c] = NextNo]
      /\ UNCHANGED <<open, http>>
  BY DEF FirstChunk, BetweenFiles, FirstBytes, NextNo
<1>2. n \in Names /\ NextNo \in 1..MaxUploads
  BY <1>1, UploadFacts DEF TypeOK, NextNo
<1>3. x \in Inodes
  BY <1>1, <1>2, PathKinds DEF Opened, TypeOK
<1>4. new \in Upload
  BY <1>2, <1>3 DEF Upload, Bytes
<1> HIDE DEF n, x, new
<1>5. /\ d \in Seq(Upload) /\ Len(d) = Len(uploads) /\ DOMAIN d = 1..Len(uploads)
      /\ \A j \in DOMAIN uploads :
           /\ d[j].by = uploads[j].by /\ d[j].name = uploads[j].name
           /\ d[j].inode = uploads[j].inode /\ d[j].stage = uploads[j].stage
           /\ d[j].sent = uploads[j].sent /\ d[j].ack = uploads[j].ack
           /\ d[j].seen = uploads[j].seen /\ d[j].binary = uploads[j].binary
           /\ ~d[j].disturbed => ~uploads[j].disturbed /\ (j = NextNo \/ ~Live(j) \/ j \notin S)
  BY DisturbFacts, UploadFacts
<1> HIDE DEF d
<1>6. /\ uploads' \in Seq(Upload) /\ Len(uploads') = NextNo /\ uploads'[NextNo] = new
      /\ \A j \in DOMAIN uploads : uploads'[j] = d[j]
  BY <1>1, <1>4, <1>5, UploadFacts, AppendProperties DEF NextNo
<1>7. \A j \in DOMAIN uploads : j # NextNo
  BY UploadFacts DEF NextNo
<1>8. \A j \in DOMAIN uploads : uploads[j].name = n \/ uploads[j].inode = x => j \in S
  BY DEF OnPath, OnInode
<1> HIDE DEF S
<1>9. \A j \in DOMAIN uploads :
        /\ Kept(j) /\ Calm(j)
        /\ ~uploads'[j].disturbed =>
             ~Live(j) \/ (uploads[j].name # n /\ uploads[j].inode # x)
  BY <1>5, <1>6, <1>7, <1>8 DEF Kept, Calm
<1>10. n = fileName[c] /\ x = Opened(n, NextNo) 
  BY DEF n, x
<1> USE <1>2, <1>3
<1> WITNESS n \in Names, x \in Inodes
<1> QED
  BY <1>1, <1>2, <1>6, <1>9, <1>10 DEF new, Begins

\* An action that changes upload i only.
LEMMA ChangeFacts ==
  ASSUME TypeOK, NEW i \in DOMAIN uploads, NEW u \in Upload, NEW q \in Seq(Upload),
         Len(q) = Len(uploads), uploads' = [q EXCEPT ![i] = u]
  PROVE  /\ uploads' \in Seq(Upload) /\ Len(uploads') = Len(uploads)
         /\ DOMAIN uploads' = DOMAIN uploads
         /\ uploads'[i] = u
         /\ \A j \in DOMAIN uploads : j # i => uploads'[j] = q[j]
BY UploadFacts, ExceptSeq

\* A chunk is added to the inode of upload i and counted; whoever else goes on
\* with that inode is disturbed.
LEMMA WriteFacts ==
  ASSUME TypeOK, NEW i \in DOMAIN uploads, Write(i)
  PROVE  /\ uploads[i].inode \in Inodes /\ uploads[i].sent \in Nat
         /\ content' = [content EXCEPT ![uploads[i].inode] = Append(@, i)]
         /\ uploads' \in Seq(Upload) /\ Len(uploads') = Len(uploads)
         /\ DOMAIN uploads' = DOMAIN uploads
         /\ Calm(i)
         /\ uploads'[i].by = uploads[i].by /\ uploads'[i].name = uploads[i].name
         /\ uploads'[i].inode = uploads[i].inode /\ uploads'[i].stage = uploads[i].stage
         /\ uploads'[i].seen = uploads[i].seen /\ uploads'[i].binary = uploads[i].binary
         /\ uploads'[i].sent = uploads[i].sent + 1
         /\ uploads'[i].ack = Len(content[uploads[i].inode]) + 1
         /\ \A j \in DOMAIN uploads : j # i =>
              /\ Kept(j) /\ Calm(j)
              /\ ~uploads'[j].disturbed => ~Live(j) \/ uploads[j].inode # uploads[i].inode
<1> DEFINE x == uploads[i].inode
           S == OnInode(x)
           d == Disturb(i, S)
           a == Len(content[x]) + 1
           n == d[i].sent + 1
           new == [d[i] EXCEPT !.sent = n, !.ack = a]
<1>1. /\ content' = [content EXCEPT ![x] = Append(@, i)]
      /\ uploads' = [d EXCEPT ![i].sent = @ + 1, ![i].ack = a]
  BY DEF Write
<1>2. uploads[i] \in Upload
  BY UploadFacts
<1>3. x \in Inodes /\ uploads[i].sent \in Nat
  BY <1>2 DEF Upload
<1>4. a \in Nat
  BY <1>3 DEF TypeOK, Bytes
<1>5. \A j \in DOMAIN uploads : uploads[j].inode = x => j \in S
  BY DEF OnInode
<1> HIDE DEF a, x, S
<1>6. /\ d \in Seq(Upload) /\ Len(d) = Len(uploads) /\ DOMAIN d = DOMAIN uploads
      /\ \A j \in DOMAIN uploads :
           /\ d[j].by = uploads[j].by /\ d[j].name = uploads[j].name
           /\ d[j].inode = uploads[j].inode /\ d[j].stage = uploads[j].stage
           /\ d[j].sent = uploads[j].sent /\ d[j].ack = uploads[j].ack
           /\ d[j].seen = uploads[j].seen /\ d[j].binary = uploads[j].binary
           /\ ~d[j].disturbed => ~uploads[j].disturbed /\ (j = i \/ ~Live(j) \/ j \notin S)
  BY DisturbFacts
<1> HIDE DEF d
<1>7. d[i] \in Upload /\ n \in Nat
  BY <1>3, <1>6
<1> HIDE DEF n
<1>8. /\ new \in Upload
      /\ new.by = d[i].by /\ new.name = d[i].name /\ new.inode = d[i].inode
      /\ new.stage = d[i].stage /\ new.seen = d[i].seen /\ new.binary = d[i].binary
      /\ new.sent = n /\ new.ack = a /\ new.disturbed = d[i].disturbed
  BY <1>4, <1>7 DEF Upload
<1>9. uploads' = [d EXCEPT ![i] = new]
  BY <1>1 DEF n
<1> HIDE DEF new
<1>10. /\ uploads' \in Seq(Upload) /\ Len(uploads') = Len(uploads)
       /\ DOMAIN uploads' = DOMAIN uploads /\ uploads'[i] = new
       /\ \A j \in DOMAIN uploads : j # i => uploads'[j] = d[j]
  BY <1>6, <1>8, <1>9, ChangeFacts
<1>11. \A j \in DOMAIN uploads : j # i =>
         /\ Kept(j) /\ Calm(j)
         /\ ~uploads'[j].disturbed => ~Live(j) \/ uploads[j].inode # x
  BY <1>5, <1>6, <1>10 DEF Kept, Calm
<1> QED
  BY <1>1, <1>3, <1>6, <1>8, <1>10, <1>11 DEF Calm, a, n, x

Stages == {"writing", "received", "audited", "announced", "cast", "done", "lost"}

\* An action that sets of upload i the stage, and maybe what was seen and sent.
LEMMA StageFacts ==
  ASSUME TypeOK, NEW i \in DOMAIN uploads, NEW q \in Seq(Upload), Len(q) = Len(uploads),
         NEW st \in Stages,
         NEW seen \in Bytes, NEW binary \in Bytes,
         uploads' = [q EXCEPT ![i] = [@ EXCEPT !.stage = st, !.seen = seen, !.binary = binary]]
  PROVE  /\ uploads' \in Seq(Upload) /\ Len(uploads') = Len(uploads)
         /\ DOMAIN uploads' = DOMAIN uploads
         /\ uploads'[i].by = q[i].by /\ uploads'[i].name = q[i].name
         /\ uploads'[i].inode = q[i].inode /\ uploads'[i].sent = q[i].sent
         /\ uploads'[i].ack = q[i].ack /\ uploads'[i].disturbed = q[i].disturbed
         /\ uploads'[i].stage = st
         /\ uploads'[i].seen = seen /\ uploads'[i].binary = binary
         /\ \A j \in DOMAIN uploads : j # i => uploads'[j] = q[j]
<1> DEFINE new == [q[i] EXCEPT !.stage = st, !.seen = seen, !.binary = binary]
<1>1. DOMAIN q = DOMAIN uploads /\ q[i] \in Upload
  BY UploadFacts
<1>2. /\ new \in Upload
      /\ new.by = q[i].by /\ new.name = q[i].name /\ new.inode = q[i].inode
      /\ new.sent = q[i].sent /\ new.ack = q[i].ack /\ new.disturbed = q[i].disturbed
      /\ new.stage = st /\ new.seen = seen /\ new.binary = binary
  BY <1>1 DEF Upload, Stages
<1>3. uploads' = [q EXCEPT ![i] = new]
  BY <1>1
<1> HIDE DEF new
<1> QED
  BY <1>2, <1>3, ChangeFacts

\* The same, as the actions see it: upload i gets on to stage st.
Advances(i, st, seen, binary) ==
  /\ uploads' \in Seq(Upload) /\ Len(uploads') = Len(uploads)
  /\ DOMAIN uploads' = DOMAIN uploads
  /\ uploads'[i].by = uploads[i].by /\ uploads'[i].name = uploads[i].name
  /\ uploads'[i].inode = uploads[i].inode /\ uploads'[i].sent = uploads[i].sent
  /\ uploads'[i].ack = uploads[i].ack
  /\ uploads'[i].stage = st /\ uploads'[i].seen = seen /\ uploads'[i].binary = binary
  /\ Calm(i)
  /\ \A j \in DOMAIN uploads : j # i => Kept(j) /\ Calm(j)

\* An upload moves on, and no other.
LEMMA AdvanceFacts ==
  ASSUME TypeOK, NEW i \in DOMAIN uploads,
         NEW st \in Stages,
         NEW seen \in Bytes, NEW binary \in Bytes,
         uploads' = [uploads EXCEPT ![i] =
                       [@ EXCEPT !.stage = st, !.seen = seen, !.binary = binary]]
  PROVE  Advances(i, st, seen, binary)
<1> DEFINE new == [uploads[i] EXCEPT !.stage = st, !.seen = seen, !.binary = binary]
<1>1. uploads[i] \in Upload /\ uploads \in Seq(Upload)
  BY UploadFacts DEF TypeOK
<1>2. /\ new \in Upload
      /\ new.by = uploads[i].by /\ new.name = uploads[i].name /\ new.inode = uploads[i].inode
      /\ new.sent = uploads[i].sent /\ new.ack = uploads[i].ack
      /\ new.disturbed = uploads[i].disturbed
      /\ new.stage = st /\ new.seen = seen /\ new.binary = binary
  BY <1>1 DEF Upload, Stages
<1>3. uploads' = [uploads EXCEPT ![i] = new]
  BY <1>1
<1> HIDE DEF new
<1>4. /\ uploads' \in Seq(Upload) /\ Len(uploads') = Len(uploads)
      /\ DOMAIN uploads' = DOMAIN uploads
      /\ uploads'[i] = new
      /\ \A j \in DOMAIN uploads : j # i => uploads'[j] = uploads[j]
  BY <1>1, <1>2, <1>3, ChangeFacts
<1> QED
  BY <1>2, <1>4 DEF Advances, Kept, Calm

\* The bytes at a path are bytes.
LEMMA ReadBytes == ASSUME TypeOK, NEW n \in Names PROVE Read(n) \in Bytes
BY DEF TypeOK, Read, Bytes

\* UPLOAD_CLIENT_COMPLETE moves the current upload on.
LEMMA CompleteFacts ==
  ASSUME TypeOK, NEW c \in Channels, Complete(c)
  PROVE  LET i == current[c]
         IN  /\ c \in open /\ i \in DOMAIN uploads /\ i # 0
             /\ Advances(i, StageOfReceived(uploads[i].name), uploads[i].seen, uploads[i].binary)
             /\ current' = [current EXCEPT ![c] = 0]
             /\ UNCHANGED <<open, fileName, dir, content, http>>
<1> DEFINE i == current[c]
           st == StageOfReceived(uploads[i].name)
<1>1. /\ c \in open /\ i \in DOMAIN uploads /\ i # 0
      /\ current' = [current EXCEPT ![c] = 0]
      /\ UNCHANGED <<open, fileName, dir, content, http>>
      /\ uploads' = [uploads EXCEPT ![i].stage = st]
  BY DEF Complete, TypeOK
<1>2. st \in Stages
  BY DEF StageOfReceived, Stages
<1>3. uploads[i] \in Upload
  BY <1>1, UploadFacts
<1> HIDE DEF i, st
<1>4. uploads' = [uploads EXCEPT ![i] =
        [@ EXCEPT !.stage = st, !.seen = uploads[i].seen, !.binary = uploads[i].binary]]
  BY <1>1, <1>3 DEF Upload
<1>5. uploads[i].seen \in Bytes /\ uploads[i].binary \in Bytes
  BY <1>3 DEF Upload
<1> DEFINE seen == uploads[i].seen
           binary == uploads[i].binary
<1> HIDE DEF seen, binary
<1>6. Advances(i, st, seen, binary)
  BY <1>1, <1>2, <1>4, <1>5, AdvanceFacts DEF seen, binary
<1> QED
  BY <1>1, <1>6 DEF i, st, seen, binary

\* The audit moves the upload on.
LEMMA AuditFacts ==
  ASSUME TypeOK, NEW i \in DOMAIN uploads, Audit(i)
  PROVE  Advances(i, "audited", uploads[i].seen, uploads[i].binary)
<1>1. uploads[i] \in Upload
  BY UploadFacts
<1>2. uploads' = [uploads EXCEPT ![i] =
        [@ EXCEPT !.stage = "audited", !.seen = uploads[i].seen, !.binary = uploads[i].binary]]
  BY <1>1 DEF Audit, Upload
<1>3. uploads[i].seen \in Bytes /\ uploads[i].binary \in Bytes /\ "audited" \in Stages
  BY <1>1 DEF Upload, Stages
<1> QED
  BY <1>2, <1>3, AdvanceFacts

\* The FILE frame moves the upload on.
LEMMA AnnounceFacts ==
  ASSUME TypeOK, NEW i \in DOMAIN uploads, Announce(i)
  PROVE  Advances(i, "announced", Read(uploads[i].name), uploads[i].binary)
<1>1. uploads[i] \in Upload
  BY UploadFacts
<1>2. uploads[i].binary \in Bytes /\ Read(uploads[i].name) \in Bytes /\ "announced" \in Stages
  BY <1>1, ReadBytes DEF Upload, Stages
<1> DEFINE b == Read(uploads[i].name)
<1> HIDE DEF b
<1>3. uploads' = [uploads EXCEPT ![i].stage = "announced", ![i].seen = b]
  BY DEF Announce, b
<1>4. uploads' = [uploads EXCEPT ![i] =
        [@ EXCEPT !.stage = "announced", !.seen = b, !.binary = uploads[i].binary]]
  BY <1>1, <1>3 DEF Upload
<1> QED
  BY <1>2, <1>4, AdvanceFacts DEF b

\* The broadcast moves the upload on.
LEMMA CastFacts ==
  ASSUME TypeOK, NEW i \in DOMAIN uploads, Cast(i)
  PROVE  LET n == uploads[i].name
         IN  Advances(i, IF Small(n) THEN "cast" ELSE "done", uploads[i].seen,
                      IF Small(n) THEN Read(n) ELSE uploads[i].binary)
<1> DEFINE n == uploads[i].name
           st == IF Small(n) THEN "cast" ELSE "done"
           b == IF Small(n) THEN Read(n) ELSE uploads[i].binary
<1>1. uploads[i] \in Upload
  BY UploadFacts
<1>2. st \in Stages /\ uploads[i].seen \in Bytes /\ b \in Bytes
  BY <1>1, ReadBytes DEF Upload, Stages
<1>3. uploads' = [uploads EXCEPT ![i].stage = st, ![i].binary = b]
  BY DEF Cast
<1> HIDE DEF st, b
<1>4. uploads' = [uploads EXCEPT ![i] =
        [@ EXCEPT !.stage = st, !.seen = uploads[i].seen, !.binary = b]]
  BY <1>1, <1>3 DEF Upload
<1>5. Advances(i, st, uploads[i].seen, b)
  BY <1>2, <1>4, AdvanceFacts
<1> QED
  BY <1>5 DEF st, b

\* Whoever else goes on at that path is disturbed.
LEMMA DeleteFacts ==
  ASSUME TypeOK, NEW i \in DOMAIN uploads, Delete(i)
  PROVE  /\ Advances(i, "done", uploads[i].seen, uploads[i].binary)
         /\ \A j \in DOMAIN uploads : j # i /\ ~uploads'[j].disturbed =>
              ~Live(j) \/ uploads[j].name # uploads[i].name
<1> DEFINE S == OnPath(uploads[i].name)
           d == Disturb(i, S)
<1>1. \A j \in DOMAIN uploads : uploads[j].name = uploads[i].name => j \in S
  BY DEF OnPath
<1>2. uploads' = [d EXCEPT ![i].stage = "done"]
  BY DEF Delete
<1> HIDE DEF S
<1>3. /\ d \in Seq(Upload) /\ Len(d) = Len(uploads) /\ DOMAIN d = DOMAIN uploads
      /\ \A j \in DOMAIN uploads :
           /\ d[j].by = uploads[j].by /\ d[j].name = uploads[j].name
           /\ d[j].inode = uploads[j].inode /\ d[j].stage = uploads[j].stage
           /\ d[j].sent = uploads[j].sent /\ d[j].ack = uploads[j].ack
           /\ d[j].seen = uploads[j].seen /\ d[j].binary = uploads[j].binary
           /\ ~d[j].disturbed => ~uploads[j].disturbed /\ (j = i \/ ~Live(j) \/ j \notin S)
  BY DisturbFacts
<1> HIDE DEF d
<1>4. d[i] \in Upload
  BY <1>3
<1>5. d[i].seen \in Bytes /\ d[i].binary \in Bytes /\ "done" \in Stages
  BY <1>4 DEF Upload, Stages
<1>6. uploads' = [d EXCEPT ![i] =
        [@ EXCEPT !.stage = "done", !.seen = d[i].seen, !.binary = d[i].binary]]
  BY <1>2, <1>3, <1>4 DEF Upload
<1>7. /\ uploads' \in Seq(Upload) /\ Len(uploads') = Len(uploads)
      /\ DOMAIN uploads' = DOMAIN uploads
      /\ uploads'[i].by = d[i].by /\ uploads'[i].name = d[i].name
      /\ uploads'[i].inode = d[i].inode /\ uploads'[i].sent = d[i].sent
      /\ uploads'[i].ack = d[i].ack /\ uploads'[i].disturbed = d[i].disturbed
      /\ uploads'[i].stage = "done"
      /\ uploads'[i].seen = d[i].seen /\ uploads'[i].binary = d[i].binary
      /\ \A j \in DOMAIN uploads : j # i => uploads'[j] = d[j]
  BY <1>3, <1>5, <1>6, StageFacts
<1> QED
  BY <1>1, <1>3, <1>7 DEF Advances, Kept, Calm

\* Whoever goes on at that path is disturbed.
LEMMA MoveFacts ==
  ASSUME TypeOK, NEW h \in Requests, Move(h)
  PROVE  /\ uploads' \in Seq(Upload) /\ Len(uploads') = Len(uploads)
         /\ DOMAIN uploads' = DOMAIN uploads
         /\ \A j \in DOMAIN uploads :
              /\ Kept(j) /\ Calm(j)
              /\ ~uploads'[j].disturbed => ~Live(j) \/ uploads[j].name # FileOf[h]
<1> DEFINE S == OnPath(FileOf[h])
           d == Disturb(0, S)
<1>1. \A j \in DOMAIN uploads : uploads[j].name = FileOf[h] => j \in S
  BY DEF OnPath
<1>2. uploads' = d
  BY DEF Move
<1> HIDE DEF S
<1>3. /\ d \in Seq(Upload) /\ Len(d) = Len(uploads) /\ DOMAIN d = DOMAIN uploads
      /\ \A j \in DOMAIN uploads :
           /\ d[j].by = uploads[j].by /\ d[j].name = uploads[j].name
           /\ d[j].inode = uploads[j].inode /\ d[j].stage = uploads[j].stage
           /\ d[j].sent = uploads[j].sent /\ d[j].ack = uploads[j].ack
           /\ d[j].seen = uploads[j].seen /\ d[j].binary = uploads[j].binary
           /\ ~d[j].disturbed => ~uploads[j].disturbed /\ (j = 0 \/ ~Live(j) \/ j \notin S)
  BY DisturbFacts
<1> HIDE DEF d
<1>4. \A j \in DOMAIN uploads : j # 0
  BY UploadFacts
<1> QED
  BY <1>1, <1>2, <1>3, <1>4 DEF Kept, Calm

\* The steps of the system, as far as the proofs tell them apart.
LEMMA Steps ==
  ASSUME TypeOK, Next
  PROVE  \/ \E c \in Channels : Close(c)
         \/ \E c \in Channels, n \in Names : Start(c, n)
         \/ \E c \in Channels : FirstChunk(c)
         \/ \E c \in Channels :
              /\ c \in open /\ current[c] # 0 /\ current[c] \in DOMAIN uploads
              /\ Write(current[c])
              /\ UNCHANGED <<open, fileName, current, dir, http>>
         \/ \E c \in Channels : Complete(c)
         \/ \E i \in DOMAIN uploads : Audit(i) \/ Announce(i) \/ Cast(i) \/ Delete(i)
         \/ \E h \in Requests : Prepare(h) \/ Move(h)
<1>1. \A c \in Channels : NextChunk(c) =>
        /\ c \in open /\ current[c] # 0 /\ current[c] \in DOMAIN uploads
        /\ Write(current[c])
        /\ UNCHANGED <<open, fileName, current, dir, http>>
  BY DEF NextChunk, TypeOK
<1>2. \A c \in Channels : RefuseFirstChunk(c) \/ RefuseContinuation(c) \/ Disconnect(c) => Close(c)
  BY DEF RefuseFirstChunk, RefuseContinuation, Disconnect
<1> QED
  BY <1>1, <1>2 DEF Next

\* The empty server is well typed.
LEMMA TypeInit == Init => TypeOK /\ UploadsBounded
<1> SUFFICES ASSUME Init PROVE TypeOK /\ UploadsBounded
  OBVIOUS
<1>1. uploads \in Seq(Upload) /\ Len(uploads) = 0
  BY DEF Init
<1>2. content \in [Inodes -> Bytes]
  BY DEF Init, Bytes
<1> QED
  BY <1>1, <1>2 DEF Init, TypeOK, UploadsBounded

\* Every step keeps the types.
LEMMA TypeStep == TypeOK /\ UploadsBounded /\ [Next]_vars => TypeOK' /\ UploadsBounded'
<1> SUFFICES ASSUME TypeOK, UploadsBounded, [Next]_vars PROVE TypeOK' /\ UploadsBounded'
  OBVIOUS
<1>1. ASSUME NEW c \in Channels, Close(c) PROVE TypeOK' /\ UploadsBounded'
  BY <1>1 DEF Close, TypeOK, UploadsBounded
<1>2. ASSUME NEW c \in Channels, NEW n \in Names, Start(c, n) PROVE TypeOK' /\ UploadsBounded'
  BY <1>2 DEF Start, TypeOK, UploadsBounded
<1>3. ASSUME NEW c \in Channels, FirstChunk(c) PROVE TypeOK' /\ UploadsBounded'
  <2>1. PICK n \in Names, x \in Inodes : Begins(c, n, x)
    BY <1>3, FirstChunkFacts
  <2>2. NextNo \in Inodes /\ <<NextNo>> \in Bytes
    BY <2>1, PathKinds, OneChunk DEF Begins
  <2>3. DOMAIN uploads' = 1..NextNo /\ DOMAIN uploads \subseteq DOMAIN uploads'
        /\ NextNo \in DOMAIN uploads'
    BY <2>1, UploadFacts DEF NextNo, Begins
  <2>4. current' \in [Channels -> {0} \cup DOMAIN uploads']
    BY <2>1, <2>3 DEF TypeOK, Begins
  <2>5. dir' \in [Names -> Inodes \cup {NoFile, Directory}]
    BY <2>1 DEF TypeOK, Begins
  <2>6. content' \in [Inodes -> Bytes]
    BY <2>1, <2>2 DEF TypeOK, Begins
  <2>7. open' \subseteq Channels /\ http' \in [Requests -> {"received", "prepared", "moved"}]
        /\ fileName' \in [Channels -> Names \cup {NoName}]
    BY <2>1 DEF TypeOK, Begins
  <2> QED
    BY <2>1, <2>4, <2>5, <2>6, <2>7 DEF TypeOK, Begins, UploadsBounded
<1>4. ASSUME NEW c \in Channels, current[c] \in DOMAIN uploads, Write(current[c]),
             UNCHANGED <<open, fileName, current, dir, http>>
      PROVE  TypeOK' /\ UploadsBounded'
  <2> DEFINE i == current[c]
             x == uploads[i].inode
  <2>1. /\ i \in DOMAIN uploads /\ x \in Inodes /\ content' = [content EXCEPT ![x] = Append(@, i)]
        /\ uploads' \in Seq(Upload) /\ Len(uploads') = Len(uploads)
        /\ DOMAIN uploads' = DOMAIN uploads
    BY <1>4, WriteFacts
  <2>2. i \in Inodes
    BY <2>1, UploadFacts, PathKinds DEF UploadsBounded
  <2>3. Append(content[x], i) \in Bytes
    BY <2>1, <2>2, AppendProperties DEF TypeOK, Bytes
  <2> HIDE DEF i, x
  <2>4. content' \in [Inodes -> Bytes]
    BY <2>1, <2>3 DEF TypeOK
  <2> QED
    BY <1>4, <2>1, <2>4 DEF TypeOK, UploadsBounded
<1>5. ASSUME NEW c \in Channels, Complete(c) PROVE TypeOK' /\ UploadsBounded'
  <2>1. /\ uploads' \in Seq(Upload) /\ Len(uploads') = Len(uploads)
        /\ DOMAIN uploads' = DOMAIN uploads
        /\ current' = [current EXCEPT ![c] = 0]
        /\ UNCHANGED <<open, fileName, dir, content, http>>
    BY <1>5, CompleteFacts DEF Advances
  <2>2. current' \in [Channels -> {0} \cup DOMAIN uploads']
    BY <2>1 DEF TypeOK
  <2> QED
    BY <2>1, <2>2 DEF TypeOK, UploadsBounded
<1>6. ASSUME NEW i \in DOMAIN uploads, Audit(i) \/ Announce(i) \/ Cast(i) \/ Delete(i)
      PROVE  TypeOK' /\ UploadsBounded'
  <2>1. /\ uploads' \in Seq(Upload) /\ Len(uploads') = Len(uploads)
        /\ DOMAIN uploads' = DOMAIN uploads
    BY <1>6, AuditFacts, AnnounceFacts, CastFacts, DeleteFacts DEF Advances
  <2>2. /\ UNCHANGED <<open, fileName, current, content, http>>
        /\ dir' = dir \/ dir' = [dir EXCEPT ![uploads[i].name] = NoFile]
    BY <1>6 DEF Audit, Announce, Cast, Delete
  <2>3. dir' \in [Names -> Inodes \cup {NoFile, Directory}]
    BY <2>2 DEF TypeOK
  <2> QED
    BY <2>1, <2>2, <2>3 DEF TypeOK, UploadsBounded
<1>7. ASSUME NEW h \in Requests, Prepare(h) PROVE TypeOK' /\ UploadsBounded'
  BY <1>7 DEF Prepare, TypeOK, UploadsBounded
<1>8. ASSUME NEW h \in Requests, Move(h) PROVE TypeOK' /\ UploadsBounded'
  <2>1. /\ uploads' \in Seq(Upload) /\ Len(uploads') = Len(uploads)
        /\ DOMAIN uploads' = DOMAIN uploads
    BY <1>8, MoveFacts
  <2>2. h \in Inodes /\ <<h>> \in Bytes
    BY PathKinds, OneChunk
  <2>3. /\ UNCHANGED <<open, fileName, current>>
        /\ http' = [http EXCEPT ![h] = "moved"]
        /\ dir' = [dir EXCEPT ![FileOf[h]] = h]
        /\ content' = [content EXCEPT ![h] = <<h>>]
    BY <1>8 DEF Move
  <2> QED
    BY <2>1, <2>2, <2>3 DEF TypeOK, UploadsBounded
<1>9. CASE UNCHANGED vars
  BY <1>9 DEF vars, TypeOK, UploadsBounded
<1> QED
  BY <1>1, <1>2, <1>3, <1>4, <1>5, <1>6, <1>7, <1>8, <1>9, Steps

----------------------------------------------------------------------------
(* Streams *)

\* No stream is open at first.
LEMMA StreamInit == Init => StreamsOwned /\ NoOrphanStream
BY DEF Init, StreamsOwned, NoOrphanStream

\* Every step keeps the streams with their channels.
LEMMA StreamStep ==
  TypeOK /\ UploadsBounded /\ StreamsOwned /\ NoOrphanStream /\ [Next]_vars
    => StreamsOwned' /\ NoOrphanStream'
<1> SUFFICES ASSUME TypeOK, UploadsBounded, StreamsOwned, NoOrphanStream, [Next]_vars
             PROVE  StreamsOwned' /\ NoOrphanStream'
  OBVIOUS
<1>a. current \in [Channels -> {0} \cup DOMAIN uploads]
  BY DEF TypeOK
\* A step that keeps owners and stages, and no channel opens or takes an upload.
<1>b. ASSUME DOMAIN uploads' = DOMAIN uploads, open' \subseteq open,
             \A j \in DOMAIN uploads : uploads'[j].by = uploads[j].by
                                       /\ uploads'[j].stage = uploads[j].stage,
             \A d \in Channels : current'[d] = current[d] \/ (current'[d] = 0 /\ d \notin open')
      PROVE  StreamsOwned' /\ NoOrphanStream'
  <2>1. StreamsOwned'
    BY <1>a, <1>b DEF StreamsOwned
  <2>2. \A j \in DOMAIN uploads : uploads[j].by \in Channels
    BY UploadFacts DEF Upload
  <2>3. NoOrphanStream'
    BY <1>b, <2>2 DEF NoOrphanStream
  <2> QED
    BY <2>1, <2>3
<1>1. ASSUME NEW c \in Channels, Close(c) PROVE StreamsOwned' /\ NoOrphanStream'
  <2>1. /\ uploads' = uploads /\ open' = open \ {c}
        /\ \A d \in Channels : current'[d] = IF d = c THEN 0 ELSE current[d]
    BY <1>1, <1>a DEF Close
  <2> QED
    BY <1>b, <2>1
<1>2. ASSUME NEW c \in Channels, NEW n \in Names, Start(c, n)
      PROVE  StreamsOwned' /\ NoOrphanStream'
  BY <1>2, <1>b DEF Start
<1>3. ASSUME NEW c \in Channels, FirstChunk(c) PROVE StreamsOwned' /\ NoOrphanStream'
  <2>1. PICK n \in Names, x \in Inodes : Begins(c, n, x)
    BY <1>3, FirstChunkFacts
  <2>2. /\ \A d \in Channels : current'[d] = IF d = c THEN NextNo ELSE current[d]
        /\ c \in open /\ current[c] = 0 /\ open' = open
    BY <1>a, <2>1 DEF Begins
  <2>3. /\ DOMAIN uploads' = DOMAIN uploads \cup {NextNo} /\ NextNo \notin DOMAIN uploads
        /\ uploads'[NextNo].by = c /\ uploads'[NextNo].stage = "writing"
        /\ \A j \in DOMAIN uploads : uploads'[j].by = uploads[j].by
                                     /\ uploads'[j].stage = uploads[j].stage
    BY <2>1, UploadFacts DEF Begins, Kept, NextNo
  <2>4. StreamsOwned'
    BY <1>a, <2>2, <2>3 DEF StreamsOwned
  <2>5. \A j \in DOMAIN uploads : uploads[j].by \in Channels /\ j # 0
    BY UploadFacts DEF Upload
  <2>6. NoOrphanStream'
    BY <2>2, <2>3, <2>5 DEF NoOrphanStream
  <2> QED
    BY <2>4, <2>6
<1>4. ASSUME NEW c \in Channels, current[c] \in DOMAIN uploads, Write(current[c]),
             UNCHANGED <<open, fileName, current, dir, http>>
      PROVE  StreamsOwned' /\ NoOrphanStream'
  <2>1. /\ DOMAIN uploads' = DOMAIN uploads
        /\ \A j \in DOMAIN uploads : uploads'[j].by = uploads[j].by
                                     /\ uploads'[j].stage = uploads[j].stage
    BY <1>4, WriteFacts DEF Kept
  <2> QED
    BY <1>4, <1>b, <2>1
\* A step that takes upload i, which no channel holds any more, away from "writing".
<1>c. ASSUME NEW i \in DOMAIN uploads, DOMAIN uploads' = DOMAIN uploads, open' = open,
             \A j \in DOMAIN uploads : uploads'[j].by = uploads[j].by
                                       /\ (j # i => uploads'[j].stage = uploads[j].stage),
             uploads'[i].stage # "writing",
             \A d \in Channels : current'[d] # i,
             \A d \in Channels : current'[d] = current[d] \/ (current'[d] = 0 /\ current[d] = i)
      PROVE  StreamsOwned' /\ NoOrphanStream'
  <2>1. StreamsOwned'
    BY <1>a, <1>c DEF StreamsOwned
  <2>2. \A j \in DOMAIN uploads : uploads[j].by \in Channels
    BY UploadFacts DEF Upload
  <2>3. NoOrphanStream'
    BY <1>c, <2>2 DEF NoOrphanStream
  <2> QED
    BY <2>1, <2>3
<1>5. ASSUME NEW c \in Channels, Complete(c) PROVE StreamsOwned' /\ NoOrphanStream'
  <2> DEFINE i == current[c]
  <2>1. /\ c \in open /\ i \in DOMAIN uploads /\ i # 0
        /\ Advances(i, StageOfReceived(uploads[i].name), uploads[i].seen, uploads[i].binary)
        /\ current' = [current EXCEPT ![c] = 0]
        /\ open' = open
    BY <1>5, CompleteFacts
  <2>2. /\ DOMAIN uploads' = DOMAIN uploads /\ uploads'[i].stage # "writing"
        /\ \A j \in DOMAIN uploads : uploads'[j].by = uploads[j].by
                                     /\ (j # i => uploads'[j].stage = uploads[j].stage)
    BY <2>1 DEF Advances, Kept, StageOfReceived
  <2>3. \A d \in Channels : current[d] = i => d = c
    BY <2>1 DEF StreamsOwned
  <2>4. \A d \in Channels : current'[d] = IF d = c THEN 0 ELSE current[d]
    BY <1>a, <2>1
  <2> HIDE DEF i
  <2> QED
    BY <1>c, <2>1, <2>2, <2>3, <2>4 DEF i
<1>6. ASSUME NEW i \in DOMAIN uploads, Audit(i) \/ Announce(i) \/ Cast(i) \/ Delete(i)
      PROVE  StreamsOwned' /\ NoOrphanStream'
  <2>1. /\ DOMAIN uploads' = DOMAIN uploads /\ uploads'[i].stage # "writing"
        /\ \A j \in DOMAIN uploads : uploads'[j].by = uploads[j].by
                                     /\ (j # i => uploads'[j].stage = uploads[j].stage)
    BY <1>6, AuditFacts, AnnounceFacts, CastFacts, DeleteFacts DEF Advances, Kept
  <2>2. UNCHANGED <<open, current>> /\ uploads[i].stage # "writing"
    BY <1>6 DEF Audit, Announce, Cast, Delete
  <2>3. \A d \in Channels : current[d] # i
    BY <2>2, UploadFacts DEF StreamsOwned
  <2> QED
    BY <1>c, <2>1, <2>2, <2>3
<1>7. ASSUME NEW h \in Requests, Prepare(h) PROVE StreamsOwned' /\ NoOrphanStream'
  BY <1>7, <1>b DEF Prepare
<1>8. ASSUME NEW h \in Requests, Move(h) PROVE StreamsOwned' /\ NoOrphanStream'
  <2>1. /\ DOMAIN uploads' = DOMAIN uploads /\ UNCHANGED <<open, current>>
        /\ \A j \in DOMAIN uploads : uploads'[j].by = uploads[j].by
                                     /\ uploads'[j].stage = uploads[j].stage
    BY <1>8, MoveFacts DEF Kept, Move
  <2> QED
    BY <1>b, <2>1
<1>9. CASE UNCHANGED vars
  BY <1>9 DEF vars, StreamsOwned, NoOrphanStream
<1> QED
  BY <1>1, <1>2, <1>3, <1>4, <1>5, <1>6, <1>7, <1>8, <1>9, Steps

----------------------------------------------------------------------------
(* The disk *)

\* The disk is empty at first.
LEMMA DiskInit == Init => DiskInv
BY PathKinds DEF Init, DiskInv

\* What was created stays created.
LEMMA CreatedStays ==
  ASSUME TypeOK, Len(uploads') \in Nat, Len(uploads) <= Len(uploads'),
         \A h \in Requests : http[h] = "moved" => http'[h] = "moved"
  PROVE  \A x \in Inodes : Created(x) => Created(x)'
BY UploadFacts, PathKinds DEF Created

\* Every step keeps what is said of the disk.
LEMMA DiskStep == TypeOK /\ UploadsBounded /\ DiskInv /\ [Next]_vars => DiskInv'
<1> SUFFICES ASSUME TypeOK, UploadsBounded, DiskInv, [Next]_vars PROVE DiskInv'
  OBVIOUS
<1>a. dir \in [Names -> Inodes \cup {NoFile, Directory}] /\ \A j \in DOMAIN uploads :
        uploads[j].inode \in Inodes /\ uploads[j].name \in Names
  BY UploadFacts DEF TypeOK, Upload
\* A step that keeps inodes and at most takes files from paths.
<1>b. ASSUME DOMAIN uploads' = DOMAIN uploads, Len(uploads') = Len(uploads),
             \A j \in DOMAIN uploads : uploads'[j].inode = uploads[j].inode,
             \A h \in Requests : http[h] = "moved" => http'[h] = "moved",
             \A n \in Names : dir'[n] = dir[n] \/ dir'[n] \in {NoFile, Directory}
      PROVE  DiskInv'
  <2>1. \A x \in Inodes : Created(x) => Created(x)'
    BY <1>b, CreatedStays, UploadFacts
  <2>2. \A n \in Names : dir'[n] \in Inodes => dir'[n] = dir[n]
    BY <1>b, PathKinds
  <2> QED
    BY <1>a, <1>b, <2>1, <2>2 DEF DiskInv
<1>1. ASSUME NEW c \in Channels, Close(c) PROVE DiskInv'
  BY <1>1, <1>b DEF Close
<1>2. ASSUME NEW c \in Channels, NEW n \in Names, Start(c, n) PROVE DiskInv'
  BY <1>2, <1>b DEF Start
<1>3. ASSUME NEW c \in Channels, FirstChunk(c) PROVE DiskInv'
  <2>1. PICK n \in Names, x \in Inodes : Begins(c, n, x)
    BY <1>3, FirstChunkFacts
  <2>2. /\ DOMAIN uploads' = DOMAIN uploads \cup {NextNo} /\ NextNo \notin DOMAIN uploads
        /\ Len(uploads') = NextNo /\ NextNo \in Nat /\ Len(uploads) < NextNo
        /\ uploads'[NextNo].inode = x
        /\ \A j \in DOMAIN uploads : uploads'[j].inode = uploads[j].inode
        /\ http' = http
    BY <2>1, UploadFacts DEF Begins, Kept, NextNo
  <2>3. \A y \in Inodes : Created(y) => Created(y)'
    BY <2>2, CreatedStays, UploadFacts
  <2>4. /\ \A m \in Names : dir'[m] = IF m = n THEN x ELSE dir[m]
        /\ \/ dir[n] = NoFile /\ x = NextNo
           \/ dir[n] \in Inodes /\ x = dir[n]
    BY <1>a, <2>1 DEF Begins, Opened
  <2>5. Created(x)'
    <3>1. CASE dir[n] = NoFile /\ x = NextNo
      BY <2>2, <3>1 DEF Created
    <3>2. CASE dir[n] \in Inodes /\ x = dir[n]
      BY <2>3, <3>2 DEF DiskInv
    <3> QED
      BY <2>4, <3>1, <3>2
  <2>6. \A m \in Names \ {n} : dir[m] # x
    <3>1. CASE dir[n] = NoFile /\ x = NextNo
      <4>1. ~Created(NextNo)
        BY <2>2, UploadFacts DEF Created
      <4> QED
        BY <3>1, <4>1 DEF DiskInv
    <3>2. CASE dir[n] \in Inodes /\ x = dir[n]
      BY <3>2 DEF DiskInv
    <3> QED
      BY <2>4, <3>1, <3>2
  <2> QED
    BY <1>a, <2>2, <2>3, <2>4, <2>5, <2>6 DEF DiskInv
<1>4. ASSUME NEW c \in Channels, current[c] \in DOMAIN uploads, Write(current[c]),
             UNCHANGED <<open, fileName, current, dir, http>>
      PROVE  DiskInv'
  <2>1. /\ DOMAIN uploads' = DOMAIN uploads /\ Len(uploads') = Len(uploads)
        /\ \A j \in DOMAIN uploads : uploads'[j].inode = uploads[j].inode
    BY <1>4, WriteFacts DEF Kept
  <2> QED
    BY <1>4, <1>b, <2>1
<1>5. ASSUME NEW c \in Channels, Complete(c) PROVE DiskInv'
  <2>1. /\ DOMAIN uploads' = DOMAIN uploads /\ Len(uploads') = Len(uploads)
        /\ \A j \in DOMAIN uploads : uploads'[j].inode = uploads[j].inode
        /\ UNCHANGED <<dir, http>>
    BY <1>5, CompleteFacts DEF Advances, Kept
  <2> QED
    BY <1>b, <2>1
<1>6. ASSUME NEW i \in DOMAIN uploads, Audit(i) \/ Announce(i) \/ Cast(i) \/ Delete(i)
      PROVE  DiskInv'
  <2>1. /\ DOMAIN uploads' = DOMAIN uploads /\ Len(uploads') = Len(uploads)
        /\ \A j \in DOMAIN uploads : uploads'[j].inode = uploads[j].inode
    BY <1>6, AuditFacts, AnnounceFacts, CastFacts, DeleteFacts DEF Advances, Kept
  <2>2. /\ http' = http
        /\ dir' = dir \/ dir' = [dir EXCEPT ![uploads[i].name] = NoFile]
    BY <1>6 DEF Audit, Announce, Cast, Delete
  <2>3. \A n \in Names : dir'[n] = dir[n] \/ dir'[n] \in {NoFile, Directory}
    BY <1>a, <2>2
  <2> QED
    BY <1>b, <2>1, <2>2, <2>3
<1>7. ASSUME NEW h \in Requests, Prepare(h) PROVE DiskInv'
  <2>1. /\ uploads' = uploads
        /\ http[h] = "received" /\ \A g \in Requests : g # h => http'[g] = http[g]
        /\ \A n \in Names : dir'[n] = dir[n] \/ dir'[n] = Directory
    BY <1>7, <1>a DEF Prepare, TypeOK
  <2> QED
    BY <1>b, <2>1
<1>8. ASSUME NEW h \in Requests, Move(h) PROVE DiskInv'
  <2>1. /\ DOMAIN uploads' = DOMAIN uploads /\ Len(uploads') = Len(uploads)
        /\ \A j \in DOMAIN uploads : uploads'[j].inode = uploads[j].inode
    BY <1>8, MoveFacts DEF Kept
  <2>2. /\ http[h] = "prepared" /\ http'[h] = "moved"
        /\ \A g \in Requests : g # h => http'[g] = http[g]
        /\ FileOf[h] \in Names
        /\ \A n \in Names : dir'[n] = IF n = FileOf[h] THEN h ELSE dir[n]
    BY <1>8, <1>a DEF Move, TypeOK
  <2>3. \A x \in Inodes : Created(x) => Created(x)'
    BY <2>1, <2>2, CreatedStays, UploadFacts
  <2>4. h \in Inodes /\ ~Created(h) /\ Created(h)'
    BY <2>2, PathKinds DEF Created
  <2>5. \A n \in Names : dir[n] # h
    BY <2>4 DEF DiskInv
  <2> QED
    BY <1>a, <2>1, <2>2, <2>3, <2>4, <2>5 DEF DiskInv
<1>9. CASE UNCHANGED vars
  BY <1>9, <1>b DEF vars
<1> QED
  BY <1>1, <1>2, <1>3, <1>4, <1>5, <1>6, <1>7, <1>8, <1>9, Steps

----------------------------------------------------------------------------
(* What holds of an upload that nobody disturbed *)

\* There is no upload at first.
LEMMA SoundInit == Init => SoundInv
BY DEF Init, SoundInv

\* An upload that a step does not concern.
LEMMA SoundKept ==
  ASSUME TypeOK, NEW j \in DOMAIN uploads, Kept(j), Sound(j),
         Live(j) => /\ dir'[uploads[j].name] = dir[uploads[j].name]
                    /\ content'[uploads[j].inode] = content[uploads[j].inode],
         ~Live(j) => \A n \in Names : dir'[n] = uploads[j].inode => dir[n] = uploads[j].inode
  PROVE  Sound(j)'
<1>1. Own(j)' = Own(j)
  BY DEF Own, Kept
<1>2. (Live(j) <=> Live(j)') /\ (Announced(j) <=> Announced(j)')
  BY DEF Live, Announced, Kept
<1>3. Live(j)' => Intact(j)'
  BY <1>1, <1>2 DEF Sound, Intact, Kept
<1>4. uploads[j].stage = "done" => ~Live(j)
  BY DEF Live
<1>5. Delivered(j)'
  BY <1>1, <1>4 DEF Sound, Delivered, Kept
<1> QED
  BY <1>1, <1>2, <1>3, <1>5 DEF Sound, Kept

\* The bytes of a live undisturbed upload, and how many they are.
LEMMA IntactFacts ==
  ASSUME TypeOK, UploadsBounded, NEW i \in DOMAIN uploads, Intact(i)
  PROVE  /\ i \in Inodes /\ uploads[i].sent \in Nat
         /\ Own(i) = Chunks(i, uploads[i].sent)
         /\ dir[uploads[i].name] \in Inodes
         /\ Read(uploads[i].name) = Own(i) /\ Len(Own(i)) = uploads[i].sent
         /\ Small(uploads[i].name) <=> uploads[i].sent < BigSize
         /\ StageOfReceived(uploads[i].name) = "received"
<1>1. uploads[i] \in Upload /\ i \in 1..MaxUploads
  BY UploadFacts DEF UploadsBounded
<1>2. i \in Inodes /\ uploads[i].sent \in Nat /\ uploads[i].inode \in Inodes
  BY <1>1, PathKinds DEF Upload
<1>3. Own(i) = Chunks(i, uploads[i].sent)
  BY DEF Own, Chunks
<1>4. Len(Own(i)) = uploads[i].sent
  BY <1>2, <1>3, ChunksFacts
<1>5. dir[uploads[i].name] = uploads[i].inode /\ content[uploads[i].inode] = Own(i)
  BY DEF Intact
<1>6. Read(uploads[i].name) = Own(i)
  BY <1>2, <1>5 DEF Read
<1>7. StageOfReceived(uploads[i].name) = "received"
  BY <1>2, <1>5, PathKinds DEF StageOfReceived
<1> QED
  BY <1>2, <1>3, <1>4, <1>5, <1>6, <1>7 DEF Small

\* An upload whose own task or client takes it to another stage.
LEMMA SoundAdvanced ==
  ASSUME TypeOK, UploadsBounded, NEW i \in DOMAIN uploads, Sound(i),
         NEW st, NEW seen, NEW binary, Advances(i, st, seen, binary),
         st # "lost", st \in {"audited", "received"} => binary = << >>,
         st \in {"announced", "cast", "done"} => seen = Own(i),
         st = "announced" => binary = << >>,
         st = "cast" => binary = Own(i),
         st = "done" => /\ binary \in {<< >>, Own(i)}
                        /\ uploads[i].sent < BigSize => binary = Own(i)
                        /\ binary # << >> => \A n \in Names : dir'[n] # uploads[i].inode,
         st # "writing", Live(i), st # "done" => dir' = dir, content' = content
  PROVE  Sound(i)'
<1>1. Own(i)' = Own(i)
  BY DEF Own, Advances
<1>2. Intact(i)
  BY DEF Sound
<1>3. Live(i)' => Intact(i)'
  BY <1>1, <1>2 DEF Live, Intact, Advances
<1>4. Delivered(i)'
  BY <1>1 DEF Delivered, Advances
<1>5. Announced(i)' => uploads'[i].seen = Own(i)'
  BY <1>1 DEF Announced, Advances
<1> QED
  BY <1>3, <1>4, <1>5 DEF Sound, Advances

\* Every step keeps what is said of the contents.
LEMMA SoundStep ==
  TypeOK /\ UploadsBounded /\ StreamsOwned /\ DiskInv /\ SoundInv /\ [Next]_vars => SoundInv'
<1> SUFFICES ASSUME TypeOK, UploadsBounded, StreamsOwned, DiskInv, SoundInv, [Next]_vars
             PROVE  SoundInv'
  OBVIOUS
<1>a. dir \in [Names -> Inodes \cup {NoFile, Directory}] /\ content \in [Inodes -> Bytes]
  BY DEF TypeOK
<1>b. \A j \in DOMAIN uploads : uploads[j].inode \in Inodes /\ uploads[j].name \in Names
  BY UploadFacts DEF Upload
\* A step that touches no upload, no content and no path to a file.
<1>c. ASSUME uploads' = uploads, content' = content,
             \A n \in Names : dir'[n] = dir[n] \/ (dir[n] = NoFile /\ dir'[n] = Directory)
      PROVE  SoundInv'
  <2> SUFFICES ASSUME NEW j \in DOMAIN uploads, ~uploads[j].disturbed PROVE Sound(j)'
    BY <1>c DEF SoundInv
  <2>1. Sound(j) /\ Kept(j)
    BY <1>c DEF SoundInv, Kept
  <2>2. Live(j) => dir[uploads[j].name] = uploads[j].inode
    BY <2>1 DEF Sound, Intact
  <2>3. Live(j) => dir'[uploads[j].name] = dir[uploads[j].name]
    BY <1>b, <1>c, <2>2, PathKinds
  <2>4. \A n \in Names : dir'[n] = uploads[j].inode => dir[n] = uploads[j].inode
    BY <1>b, <1>c, PathKinds
  <2> QED
    BY <1>c, <2>1, <2>3, <2>4, SoundKept
<1>1. ASSUME NEW c \in Channels, Close(c) PROVE SoundInv'
  BY <1>1, <1>c DEF Close
<1>2. ASSUME NEW c \in Channels, NEW n \in Names, Start(c, n) PROVE SoundInv'
  BY <1>2, <1>c DEF Start
<1>3. ASSUME NEW c \in Channels, FirstChunk(c) PROVE SoundInv'
  <2>1. PICK n \in Names, x \in Inodes : Begins(c, n, x)
    BY <1>3, FirstChunkFacts
  <2>2. /\ DOMAIN uploads' = DOMAIN uploads \cup {NextNo} /\ NextNo \notin DOMAIN uploads
        /\ NextNo \in Inodes /\ NextNo \in Nat /\ Len(uploads) < NextNo
    BY <2>1, UploadFacts, PathKinds DEF Begins, NextNo
  <2>3. /\ \A m \in Names : dir'[m] = IF m = n THEN x ELSE dir[m]
        /\ \A y \in Inodes : content'[y] = IF y = x THEN <<NextNo>> ELSE content[y]
        /\ \/ dir[n] = NoFile /\ x = NextNo
           \/ dir[n] \in Inodes /\ x = dir[n]
    BY <1>a, <2>1 DEF Begins, Opened
  <2>4. ASSUME NEW i, i = NextNo PROVE Sound(i)'
    <3> DEFINE u == uploads'[i]
    <3>1. /\ u.name = n /\ u.inode = x /\ u.stage = "writing" /\ u.sent = 1 /\ u.ack = 1
          /\ u.binary = << >>
      BY <2>1, <2>4 DEF Begins
    <3>2. Own(i)' = Chunks(i, 1)
      BY <3>1 DEF Own, Chunks
    <3>3. <<i>> = Chunks(i, 1)
      BY <2>2, <2>4, OneChunk
    <3>4. Intact(i)'
      BY <2>3, <2>4, <3>1, <3>2, <3>3 DEF Intact
    <3>5. Delivered(i)' /\ ~Announced(i)'
      BY <3>1 DEF Delivered, Announced
    <3> QED
      BY <3>1, <3>4, <3>5 DEF Sound
  <2>5. ASSUME NEW j \in DOMAIN uploads, ~uploads'[j].disturbed PROVE Sound(j)'
    <3>1. /\ Kept(j) /\ ~uploads[j].disturbed
          /\ ~Live(j) \/ (uploads[j].name # n /\ uploads[j].inode # x)
      BY <2>1, <2>5 DEF Begins, Calm
    <3>2. Sound(j)
      BY <3>1 DEF SoundInv
    <3>3. uploads[j].inode # NextNo
      BY <1>b, <2>2, UploadFacts DEF DiskInv, Created
    <3>4. \A m \in Names : dir'[m] = uploads[j].inode => dir[m] = uploads[j].inode
      BY <2>3, <3>3
    <3> QED
      BY <1>b, <2>3, <3>1, <3>2, <3>4, SoundKept
  <2> QED
    BY <2>2, <2>4, <2>5 DEF SoundInv
<1>4. ASSUME NEW c \in Channels, NEW i \in DOMAIN uploads, i = current[c], i # 0,
             Write(i), UNCHANGED <<open, fileName, current, dir, http>>
      PROVE  SoundInv'
  <2> DEFINE x == uploads[i].inode
  <2>1. /\ i \in DOMAIN uploads /\ DOMAIN uploads' = DOMAIN uploads
        /\ x \in Inodes /\ content' = [content EXCEPT ![x] = Append(@, i)]
        /\ Calm(i)
        /\ uploads'[i].name = uploads[i].name /\ uploads'[i].inode = x
        /\ uploads'[i].stage = uploads[i].stage /\ uploads'[i].binary = uploads[i].binary
        /\ uploads'[i].sent = uploads[i].sent + 1
        /\ uploads'[i].ack = Len(content[x]) + 1
        /\ \A j \in DOMAIN uploads : j # i =>
             /\ Kept(j) /\ Calm(j)
             /\ ~uploads'[j].disturbed => ~Live(j) \/ uploads[j].inode # x
    BY <1>4, WriteFacts
  <2>2. uploads[i].stage = "writing" /\ dir' = dir
    BY <1>4 DEF StreamsOwned
  <2>3. \A y \in Inodes : content'[y] = IF y = x THEN Append(content[x], i) ELSE content[y]
    BY <1>a, <2>1
  <2>4. ASSUME ~uploads'[i].disturbed PROVE Sound(i)'
    <3>1. Sound(i) /\ Live(i) /\ Intact(i)
      BY <2>1, <2>2, <2>4 DEF SoundInv, Calm, Sound, Live
    <3>2. /\ i \in Inodes /\ uploads[i].sent \in Nat /\ content[x] = Own(i)
          /\ Own(i) = Chunks(i, uploads[i].sent) /\ Len(Own(i)) = uploads[i].sent
      BY <2>1, <3>1, IntactFacts DEF Intact
    <3>3. content'[x] = Chunks(i, uploads[i].sent + 1)
      <4>1. Append(Chunks(i, uploads[i].sent), i) = Chunks(i, uploads[i].sent + 1)
        BY <3>2, ChunksFacts
      <4> HIDE DEF x
      <4> QED
        BY <2>1, <2>3, <3>2, <4>1
    <3>4. Own(i)' = Chunks(i, uploads[i].sent + 1)
      BY <2>1 DEF Own, Chunks
    <3>5. Intact(i)'
      BY <2>1, <2>2, <3>1, <3>3, <3>4 DEF Intact
    <3>6. Delivered(i)' /\ ~Announced(i)'
      BY <2>1, <2>2, <3>1 DEF Delivered, Announced, Sound
    <3> QED
      BY <2>1, <3>2, <3>5, <3>6 DEF Sound
  <2>5. ASSUME NEW j \in DOMAIN uploads, j # i, ~uploads'[j].disturbed PROVE Sound(j)'
    <3>1. /\ Kept(j) /\ ~uploads[j].disturbed
          /\ ~Live(j) \/ uploads[j].inode # x
      BY <2>1, <2>5 DEF Calm
    <3>2. Sound(j)
      BY <3>1 DEF SoundInv
    <3> HIDE DEF x
    <3> QED
      BY <1>b, <2>2, <2>3, <3>1, <3>2, SoundKept
  <2> QED
    BY <2>1, <2>4, <2>5 DEF SoundInv
\* A step in which upload i gets on and the others do not.
<1>d. ASSUME NEW i \in DOMAIN uploads, NEW st, NEW seen, NEW binary,
             Advances(i, st, seen, binary), dir' = dir, content' = content,
             ~uploads[i].disturbed /\ Sound(i) => Sound(i)'
      PROVE  SoundInv'
  <2> SUFFICES ASSUME NEW j \in DOMAIN uploads, ~uploads'[j].disturbed PROVE Sound(j)'
    BY <1>d DEF SoundInv, Advances
  <2>1. ~uploads[j].disturbed /\ Sound(j)
    BY <1>d DEF Advances, Calm, SoundInv
  <2>2. CASE j # i
    <3>1. Kept(j)
      BY <1>d, <2>2 DEF Advances
    <3> QED
      BY <1>d, <2>1, <3>1, SoundKept
  <2> QED
    BY <1>d, <2>1, <2>2
<1>5. ASSUME NEW c \in Channels, NEW i \in DOMAIN uploads, i = current[c], Complete(c)
      PROVE  SoundInv'
  <2> DEFINE st == StageOfReceived(uploads[i].name)
             seen == uploads[i].seen
             binary == uploads[i].binary
  <2>1. /\ i \in DOMAIN uploads /\ i # 0 /\ Advances(i, st, seen, binary)
        /\ dir' = dir /\ content' = content
    BY <1>5, CompleteFacts
  <2>2. uploads[i].stage = "writing"
    BY <1>5, <2>1 DEF StreamsOwned
  <2> HIDE DEF st
  <2>3. Live(i)
    BY <2>2 DEF Live
  <2>4. ASSUME Sound(i) PROVE Sound(i)'
    <3>1. st = "received" /\ binary = << >>
      BY <2>1, <2>2, <2>3, <2>4, IntactFacts DEF Sound, Delivered, st
    <3> HIDE DEF seen, binary
    <3> QED
      BY <2>1, <2>3, <2>4, <3>1, SoundAdvanced
  <2> HIDE DEF seen, binary
  <2> QED
    BY <1>d, <2>1, <2>4
<1>6. ASSUME NEW i \in DOMAIN uploads, Audit(i) PROVE SoundInv'
  <2> DEFINE seen == uploads[i].seen
             binary == uploads[i].binary
  <2>1. Advances(i, "audited", seen, binary) /\ dir' = dir /\ content' = content
    BY <1>6, AuditFacts DEF Audit
  <2>2. uploads[i].stage = "received" /\ Live(i)
    BY <1>6 DEF Audit, Live
  <2>3. ASSUME Sound(i) PROVE Sound(i)'
    <3>1. binary = << >>
      BY <2>2, <2>3 DEF Sound, Delivered
    <3> HIDE DEF seen, binary
    <3> QED
      BY <2>1, <2>2, <2>3, <3>1, SoundAdvanced
  <2> HIDE DEF seen, binary
  <2> QED
    BY <1>d, <2>1, <2>3
<1>7. ASSUME NEW i \in DOMAIN uploads, Announce(i) PROVE SoundInv'
  <2> DEFINE seen == Read(uploads[i].name)
             binary == uploads[i].binary
  <2>1. Advances(i, "announced", seen, binary) /\ dir' = dir /\ content' = content
    BY <1>7, AnnounceFacts DEF Announce
  <2>2. uploads[i].stage = "audited" /\ Live(i)
    BY <1>7 DEF Announce, Live
  <2>3. ASSUME Sound(i) PROVE Sound(i)'
    <3>1. binary = << >> /\ seen = Own(i)
      BY <2>2, <2>3, IntactFacts DEF Sound, Delivered
    <3> HIDE DEF seen, binary
    <3> QED
      BY <2>1, <2>2, <2>3, <3>1, SoundAdvanced
  <2> HIDE DEF seen, binary
  <2> QED
    BY <1>d, <2>1, <2>3
<1>8. ASSUME NEW i \in DOMAIN uploads, Cast(i) PROVE SoundInv'
  <2> DEFINE n == uploads[i].name
             st == IF Small(n) THEN "cast" ELSE "done"
             seen == uploads[i].seen
             binary == IF Small(n) THEN Read(n) ELSE uploads[i].binary
  <2>1. Advances(i, st, seen, binary) /\ dir' = dir /\ content' = content
    BY <1>8, CastFacts DEF Cast
  <2>2. uploads[i].stage = "announced" /\ Live(i) /\ Announced(i)
    BY <1>8 DEF Cast, Live, Announced
  <2>3. ASSUME Sound(i) PROVE Sound(i)'
    <3>1. /\ uploads[i].binary = << >> /\ seen = Own(i) /\ Read(n) = Own(i)
          /\ Small(n) <=> uploads[i].sent < BigSize
      BY <2>2, <2>3, IntactFacts DEF Sound, Delivered
    <3>2. /\ st \in {"cast", "done"}
          /\ st = "cast" => binary = Own(i)
          /\ st = "done" => binary = << >> /\ ~(uploads[i].sent < BigSize)
      BY <3>1
    <3> HIDE DEF st, seen, binary
    <3> QED
      BY <2>1, <2>2, <2>3, <3>1, <3>2, SoundAdvanced
  <2> HIDE DEF st, seen, binary
  <2> QED
    BY <1>d, <2>1, <2>3
<1>9. ASSUME NEW i \in DOMAIN uploads, Delete(i) PROVE SoundInv'
  <2> DEFINE n == uploads[i].name
             seen == uploads[i].seen
             binary == uploads[i].binary
  <2>1. /\ Advances(i, "done", seen, binary) /\ content' = content
        /\ \A j \in DOMAIN uploads : j # i /\ ~uploads'[j].disturbed =>
             ~Live(j) \/ uploads[j].name # n
        /\ \A m \in Names : dir'[m] = IF m = n THEN NoFile ELSE dir[m]
    BY <1>9, <1>a, DeleteFacts DEF Delete
  <2>2. uploads[i].stage = "cast" /\ Live(i) /\ Announced(i)
    BY <1>9 DEF Delete, Live, Announced
  <2>3. ASSUME Sound(i) PROVE Sound(i)'
    <3>1. binary = Own(i) /\ seen = Own(i) /\ dir[n] = uploads[i].inode
      BY <2>2, <2>3 DEF Sound, Delivered, Intact
    <3>2. \A m \in Names : dir'[m] # uploads[i].inode
      BY <1>b, <2>1, <3>1, PathKinds DEF DiskInv
    <3> HIDE DEF seen, binary
    <3> QED
      BY <2>1, <2>2, <2>3, <3>1, <3>2, SoundAdvanced
  <2>4. ASSUME NEW j \in DOMAIN uploads, j # i, ~uploads'[j].disturbed PROVE Sound(j)'
    <3>1. Kept(j) /\ ~uploads[j].disturbed /\ (~Live(j) \/ uploads[j].name # n)
      BY <2>1, <2>4 DEF Advances, Calm
    <3>2. Sound(j)
      BY <3>1 DEF SoundInv
    <3>3. \A m \in Names : dir'[m] = uploads[j].inode => dir[m] = uploads[j].inode
      BY <1>b, <2>1, PathKinds
    <3> HIDE DEF n
    <3> QED
      BY <1>b, <2>1, <3>1, <3>2, <3>3, SoundKept
  <2>5. DOMAIN uploads' = DOMAIN uploads /\ Calm(i)
    BY <2>1 DEF Advances
  <2> QED
    BY <2>3, <2>4, <2>5 DEF SoundInv, Calm
<1>10. ASSUME NEW h \in Requests, Prepare(h) PROVE SoundInv'
  BY <1>10, <1>a, <1>c DEF Prepare
<1>11. ASSUME NEW h \in Requests, Move(h) PROVE SoundInv'
  <2>1. /\ DOMAIN uploads' = DOMAIN uploads
        /\ \A j \in DOMAIN uploads :
             /\ Kept(j) /\ Calm(j)
             /\ ~uploads'[j].disturbed => ~Live(j) \/ uploads[j].name # FileOf[h]
    BY <1>11, MoveFacts
  <2>2. /\ \A n \in Names : dir'[n] = IF n = FileOf[h] THEN h ELSE dir[n]
        /\ \A x \in Inodes : x # h => content'[x] = content[x]
        /\ http[h] = "prepared"
    BY <1>11, <1>a DEF Move
  <2>3. \A j \in DOMAIN uploads : uploads[j].inode # h
    BY <2>2, PathKinds DEF DiskInv, Created
  <2> SUFFICES ASSUME NEW j \in DOMAIN uploads, ~uploads'[j].disturbed PROVE Sound(j)'
    BY <2>1 DEF SoundInv
  <2>4. Kept(j) /\ Sound(j) /\ (~Live(j) \/ uploads[j].name # FileOf[h])
    BY <2>1 DEF SoundInv, Calm
  <2> QED
    BY <1>b, <2>2, <2>3, <2>4, SoundKept
<1>12. CASE UNCHANGED vars
  BY <1>12, <1>c DEF vars
<1>13. \A c \in Channels : Complete(c) => current[c] \in DOMAIN uploads
  BY CompleteFacts
<1> QED
  BY <1>1, <1>2, <1>3, <1>4, <1>5, <1>6, <1>7, <1>8, <1>9, <1>10, <1>11, <1>12, <1>13, Steps

----------------------------------------------------------------------------
(* Theorems *)

\* The parts are inductive together.
LEMMA InvariantHolds == Spec => []Inv
<1>1. Init => Inv
  BY TypeInit, StreamInit, DiskInit, SoundInit DEF Inv
<1>2. Inv /\ [Next]_vars => Inv'
  BY TypeStep, StreamStep, DiskStep, SoundStep DEF Inv
<1> QED
  BY <1>1, <1>2, PTL DEF Spec

\* The state of the uploads is well typed, for any channels, names and requests.
THEOREM TypeCorrect == Spec => []TypeOK
BY InvariantHolds, PTL DEF Inv

\* While a connection lives its attributes hold every stream it opened.
THEOREM NoStreamForgotten == Spec => []NoOrphanStream
BY InvariantHolds, PTL DEF Inv

\* What onFileReceived and the room get of an upload is what its client sent,
\* chunk for chunk, and the client was told the right size, unless somebody
\* else changed its path or its inode meanwhile.
THEOREM Lossless == Spec => []LosslessUnlessDisturbed
<1>1. Inv => LosslessUnlessDisturbed
  <2> SUFFICES ASSUME Inv, NEW i \in DOMAIN uploads, ~uploads[i].disturbed
               PROVE  /\ uploads[i].ack = uploads[i].sent
                      /\ Announced(i) => uploads[i].seen = Own(i)
                      /\ uploads[i].binary \in {<< >>, Own(i)}
    BY DEF LosslessUnlessDisturbed
  <2>1. Sound(i)
    BY DEF Inv, SoundInv
  <2>2. uploads[i] \in Upload
    BY UploadFacts DEF Inv
  <2> QED
    BY <2>1, <2>2 DEF Sound, Delivered, Upload
<1> QED
  BY <1>1, InvariantHolds, PTL

\* fileUploadOnReceivedFullFile drops no such file in silence.
THEOREM NeverDropped == Spec => []AnsweredUnlessDisturbed
<1>1. Inv => AnsweredUnlessDisturbed
  BY DEF Inv, SoundInv, Sound, Delivered, AnsweredUnlessDisturbed
<1> QED
  BY <1>1, InvariantHolds, PTL

\* deleteIfExists takes a broadcast file off the disk for good.
THEOREM BroadcastIsDeleted == Spec => []BroadcastFileIsGone
<1>1. Inv => BroadcastFileIsGone
  BY DEF Inv, SoundInv, Sound, Delivered, BroadcastFileIsGone
<1> QED
  BY <1>1, InvariantHolds, PTL

\* The room gets every such file shorter than FIVE_MB.
THEOREM SmallFilesAreBroadcast == Spec => []FinishedIsBroadcast
<1>1. Inv => FinishedIsBroadcast
  BY DEF Inv, SoundInv, Sound, Delivered, FinishedIsBroadcast
<1> QED
  BY <1>1, InvariantHolds, PTL
=============================================================================
