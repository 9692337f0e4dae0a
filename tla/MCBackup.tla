------------------------------ MODULE MCBackup ------------------------------
(* Instances of Backup. *)
EXTENDS Backup

CONSTANTS x, y
=============================================================================
