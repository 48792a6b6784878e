------------------------- MODULE MCServerProcesses -------------------------
(* Small instances of ServerProcesses for TLC. *)
EXTENDS ServerProcesses
=============================================================================
