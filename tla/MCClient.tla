------------------------------ MODULE MCClient ------------------------------
(* Small instances of Client for TLC. *)
EXTENDS Client, TLC

CONSTANTS foreman, viewer

\* Workers of one foreman.
MCAccount == [p \in Procs |-> IF p \in Workers THEN foreman ELSE p]
MCViewers == {foreman, viewer}
=============================================================================
