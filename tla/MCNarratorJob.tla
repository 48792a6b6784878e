-------------------------- MODULE MCNarratorJob --------------------------
(* Small instances of NarratorJob for TLC. *)
EXTENDS NarratorJob
=============================================================================
