---------------------------- MODULE MCUSBCapture ----------------------------
(* Instances of USBCapture for TLC; the values are in the .cfg files. *)
EXTENDS USBCapture
=============================================================================
