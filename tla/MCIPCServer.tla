----------------------------- MODULE MCIPCServer -----------------------------
(* Instances of IPCServer for TLC; the values are in the .cfg files. *)
EXTENDS IPCServer

\* Connections are interchangeable in the safety runs.
ConnSymmetry == Permutations(Conns)
=============================================================================
