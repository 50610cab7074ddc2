---------------------------- MODULE MCChatUpload ----------------------------
(* ChatUpload with two clients, two HTTP uploads at most, and short files. *)
EXTENDS ChatUpload, TLC

CONSTANT a  \* a file name

\* Every HTTP upload brings a file of that name.
MCFileOf == [h \in Requests |-> a]

\* Clients are interchangeable; used where no liveness is checked.
ChannelSymmetry == Permutations(Channels)
=============================================================================
