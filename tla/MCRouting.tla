----------------------------- MODULE MCRouting ------------------------------
(* Instances of Routing for TLC; the values are in the .cfg files. *)
EXTENDS Routing
=============================================================================
