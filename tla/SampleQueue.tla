----------------------------- MODULE SampleQueue -----------------------------
(***************************************************************************)
(* What the ring buffer of one channel promises its two users: a bounded   *)
(* queue of samples.  A write first reserves room for as many samples as   *)
(* fit and later adds them all at once; a read takes what is there when it *)
(* starts, pads it with silence, and frees the room later; a reset starts  *)
(* again.  A sample is its position in the stream, from 1; silence is 0.   *)
(***************************************************************************)
EXTENDS Integers, Sequences

CONSTANTS Capacity, MaxFrames

VARIABLES queue,     \* the samples written and not yet taken
          accepted,  \* the number of samples added since the last reset
          reserved,  \* room promised to the write in progress
          held,      \* room not yet freed by the read in progress
          got        \* what the last read returned

state == <<queue, accepted, reserved, held, got>>

Smaller(a, b) == IF a < b THEN a ELSE b

Init == queue = << >> /\ accepted = 0 /\ reserved = 0 /\ held = 0 /\ got = << >>

Reserve == \E frames \in 0..MaxFrames :
  /\ reserved = 0
  /\ reserved' = Smaller(frames, Capacity - Len(queue) - held)
  /\ UNCHANGED <<queue, accepted, held, got>>

Put ==
  /\ queue' = queue \o [k \in 1..reserved |-> accepted + k]
  /\ accepted' = accepted + reserved
  /\ reserved' = 0
  /\ UNCHANGED <<held, got>>

Take == \E frames \in 0..MaxFrames :
  /\ held = 0
  /\ held' = Smaller(frames, Len(queue))
  /\ got' = [k \in 1..frames |-> IF k <= held' THEN queue[k] ELSE 0]
  /\ queue' = SubSeq(queue, held' + 1, Len(queue))
  /\ UNCHANGED <<accepted, reserved>>

Free == held' = 0 /\ UNCHANGED <<queue, accepted, reserved, got>>

Clear == /\ reserved = 0 /\ held = 0
         /\ queue' = << >> /\ accepted' = 0
         /\ UNCHANGED <<reserved, held, got>>

Next == Reserve \/ Put \/ Take \/ Free \/ Clear

Spec == Init /\ [][Next]_state
=============================================================================
