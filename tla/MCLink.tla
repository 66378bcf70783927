------------------------------- MODULE MCLink -------------------------------
(* Instances of Link for TLC; the values are in the .cfg files. *)
EXTENDS Link
=============================================================================
