------------------------------ MODULE MCNode ------------------------------
(* Small bounds for module Node.                                           *)
EXTENDS Node
=============================================================================
