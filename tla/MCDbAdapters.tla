--------------------------- MODULE MCDbAdapters ---------------------------
(* Small instances of DbAdapters for TLC. *)
EXTENDS DbAdapters
=============================================================================
