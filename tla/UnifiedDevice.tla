---------------------------- MODULE UnifiedDevice ----------------------------
(***************************************************************************)
(* The data of the one CoreAudio device (driver/GLA_UnifiedDevice.h) and   *)
(* the operations on it, as values: who calls them, and when, is Driver's. *)
(*                                                                         *)
(* A channel map is a sequence of entity ids, one per channel (0: not      *)
(* annotated); names and stream positions do not matter here.  A set of    *)
(* FIFOs (FifoVec) is a number, fresh each time one is allocated; 0 is     *)
(* "none".  A FIFO pointer names the set it points into and a slot.        *)
(***************************************************************************)
EXTENDS Integers, Sequences

CONSTANT DefaultRate      \* the source rate a new FIFO assumes (48000)

NoMap == << >>
Stub  == <<0>>            \* "GLA (unconfigured)"

\* One channel with entity id 0: what the driver takes for the stub.
IsStub(m) == Len(m) = 1 /\ m[1] = 0

Null     == [rings |-> 0, slot |-> 0]
NoDevice == [rings |-> 0, handler |-> 0, entries |-> NoMap, rates |-> << >>]

\* The resamplers of n new FIFOs, all set to the default source rate.
NewRates(n) == [i \in 1..n |-> DefaultRate]

\* The constructor; init() is what gives a device its stream and IO handler,
\* and a stub never gets them.
MakeDevice(m, fresh) ==
  [rings   |-> fresh,
   handler |-> IF IsStub(m) THEN 0 ELSE fresh,
   entries |-> m,
   rates   |-> NewRates(Len(m))]

RingCount(d) == Len(d.rates)

GetChannelFIFO(d, i) == IF i > RingCount(d) THEN Null ELSE [rings |-> d.rings, slot |-> i]

WithEntries(d, m) == IF Len(m) = Len(d.entries) THEN [d EXCEPT !.entries = m] ELSE d

\* Variant: the device keeps its old IO handler.
KeepOldHandler(d) == d

\* The three stores of the configuration change, in the order they are made.
SwapInEntries(d, m)      == [d EXCEPT !.entries = m]
SwapInRings(d, m, fresh) == [d EXCEPT !.rings = fresh, !.rates = NewRates(Len(m))]
SwapInHandler(d)         == [d EXCEPT !.handler = d.rings]

\* A set of FIFOs is freed when neither the device nor its IO handler owns it.
Live(d, p) == p.rings \in {d.rings, d.handler} \ {0}
=============================================================================
