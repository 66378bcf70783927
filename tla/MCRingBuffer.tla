----------------------------- MODULE MCRingBuffer -----------------------------
(* Instances of RingBuffer for TLC; the values are in the .cfg files. *)
EXTENDS RingBuffer
=============================================================================
