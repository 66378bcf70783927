---------------------------- MODULE MCResampler -----------------------------
(* Instances of Resampler for TLC; the values are in the .cfg files. *)
EXTENDS Resampler
=============================================================================
