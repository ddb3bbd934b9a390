------------------------------ MODULE MCDeletion ------------------------------
(* Deletion has no sets to choose: the world is in the schema.               *)
EXTENDS Deletion
=============================================================================
