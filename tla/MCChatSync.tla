----------------------------- MODULE MCChatSync -----------------------------
(* Small instances of ChatSync for TLC. *)
EXTENDS ChatSync
=============================================================================
