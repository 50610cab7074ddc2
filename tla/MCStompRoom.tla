----------------------------- MODULE MCStompRoom -----------------------------
(* StompRoom with two clients and a handful of frames. *)
EXTENDS StompRoom, TLC

\* Clients are interchangeable.
ChannelSymmetry == Permutations(Channels)
=============================================================================
