--------------------------- MODULE MCShellCommand ---------------------------
(* Small instances of ShellCommand for TLC. *)
EXTENDS ShellCommand

\* A total timeout longer than the inactivity timeout: output keeps the call
\* alive past the first, not past the second.
McTimeouts == {<<1, 2>>}
=============================================================================
