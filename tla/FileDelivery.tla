---------------------------- MODULE FileDelivery ----------------------------
(***************************************************************************)
(* What sending files over a chat connection promises the user who waits   *)
(* for one file before picking the next: the file reaches the server chunk *)
(* for chunk and in order, it is complete before the user is told so, and  *)
(* a client sends one file at a time.                                      *)
(***************************************************************************)
EXTENDS Naturals

CONSTANTS Channels, MaxChunks,
          Numbers  \* the numbers that picked files get

VARIABLE files  \* the picked files, by their number

File == [by : Channels, size : 0..MaxChunks, got : 0..MaxChunks,
         state : {"sending", "delivered", "told", "cut off"}]

Init == files = [f \in {} |-> f]

\* The user picks a file once the last one is told of.
Offer(c, f, size) ==
  /\ f \notin DOMAIN files
  /\ \A g \in DOMAIN files : files[g].by = c => files[g].state = "told"
  /\ files' = [g \in DOMAIN files \cup {f} |->
                 IF g = f THEN [by |-> c, size |-> size, got |-> 0, state |-> "sending"]
                 ELSE files[g]]

\* The server gets the next chunk.
Chunk(f) ==
  /\ files[f].state = "sending" /\ files[f].got < files[f].size
  /\ files' = [files EXCEPT ![f].got = @ + 1]

\* The server knows that the file is whole.
Deliver(f) ==
  /\ files[f].state = "sending" /\ files[f].got = files[f].size
  /\ files' = [files EXCEPT ![f].state = "delivered"]

\* The user is told.
Tell(f) ==
  /\ files[f].state = "delivered"
  /\ files' = [files EXCEPT ![f].state = "told"]

\* The connection ends: what is under way stays where it is.
CutOff(c) ==
  files' = [f \in DOMAIN files |->
              [files[f] EXCEPT !.state =
                 IF files[f].by = c /\ @ = "sending" THEN "cut off" ELSE @]]

Next ==
  \/ \E c \in Channels :
       CutOff(c) \/ \E f \in Numbers, size \in 0..MaxChunks : Offer(c, f, size)
  \/ \E f \in DOMAIN files : Chunk(f) \/ Deliver(f) \/ Tell(f)

Spec == Init /\ [][Next]_files
=============================================================================
