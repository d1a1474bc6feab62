-------------------------- MODULE MCNativeSession --------------------------
(* NativeSession for TLC. *)
EXTENDS NativeSession, TLC
CONSTANTS r0, r1
MCRanks == {r0, r1}
MCBodies == SessionBodies
=============================================================================
