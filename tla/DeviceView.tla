------------------------------ MODULE DeviceView ------------------------------
(***************************************************************************)
(* What the plug-in promises a CoreAudio client, without saying how: the   *)
(* one device shows a channel map (none: there is no device), it follows   *)
(* the map that is wanted, and on the way from one real map to another it  *)
(* never disappears (GLA_Driver.h:165-177).                                *)
(***************************************************************************)
EXTENDS Integers, Sequences

CONSTANT Maps

VARIABLES want, shown

view == <<want, shown>>

Nothing == << >>
Filler  == <<0>>          \* the map of the stub device

Init == want = Nothing /\ shown = Nothing

\* A new map is wanted only when the last one is shown.
Want == shown = want /\ want' \in Maps \cup {Filler} /\ UNCHANGED shown

Show == shown # want /\ shown' = want /\ UNCHANGED want

\* The device goes away only for the empty map and to be replaced by the stub.
Hide == want \in {Nothing, Filler} /\ shown # Nothing /\ shown' = Nothing /\ UNCHANGED want

\* The plug-in is restarted.
Lose == want' = Nothing /\ shown' = Nothing

Next == Want \/ Show \/ Hide \/ Lose

Spec == Init /\ [][Next]_view /\ WF_view(Show)
=============================================================================
