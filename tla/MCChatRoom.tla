----------------------------- MODULE MCChatRoom -----------------------------
(* ChatRoom with two clients, two rooms and a handful of tasks. *)
EXTENDS ChatRoom, TLC

\* Clients are interchangeable; used where no liveness is checked.
ChannelSymmetry == Permutations(Channels)
=============================================================================
