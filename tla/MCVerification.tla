--------------------------- MODULE MCVerification ---------------------------
(* Instances of Verification. *)
EXTENDS Verification, TLC

CONSTANTS c1, bodyX, bodyY

\* The responses are interchangeable.
Symmetry == Permutations(Contents)
=============================================================================
