--------------------------- MODULE MCOwnedProcess ---------------------------
(* OwnedProcess for TLC: a leader and the processes it may fork. *)
EXTENDS OwnedProcess
=============================================================================
