-------------------------- MODULE MCCallControlLink --------------------------
(* Model-checking instance of CallControlLink. *)
EXTENDS CallControlLink, TLC

\* Blocks are only compared with each other.
BlockSymmetry == Permutations(Blocks)
=============================================================================
