---------------------------- MODULE MCAnchoring ----------------------------
(* Instances of Anchoring. *)
EXTENDS Anchoring

CONSTANTS c1, c2
=============================================================================
