--------------------------- MODULE MCGuardedSession ---------------------------
(* Instances of GuardedSession for TLC. *)
EXTENDS GuardedSession, TLC
=============================================================================
