----------------------------- MODULE MCTransfer -----------------------------
(* Transfer with chat pages only: nobody uploads over HTTP. *)
EXTENDS Transfer, TLC

MCFileOf == << >>
=============================================================================
