------------------------------- MODULE Resampler -------------------------------
(***************************************************************************)
(* Sample-rate conversion of one channel (GLALinearResampler and           *)
(* GLAResamplingFIFO::read, common/GLA_ResamplingFIFO.h), one action per   *)
(* output sample and two per input sample passed.                          *)
(*                                                                         *)
(* Two threads run here, with no lock between them: the HAL's realtime     *)
(* thread reads, and the IPC thread sets the source rate, at any time      *)
(* (driver/GLA_Driver.h:248-253).  The three stores of setRatio() are      *)
(* plain ones: the reader may see them in any order, as late as it comes,  *)
(* and its own stores may undo them.                                       *)
(*                                                                         *)
(* phase_ is kept in units of 1 / Dst, so ratio_ is the source rate, and   *)
(* arithmetic is exact: the rounding of doubles is not modelled.  Whether  *)
(* an input sample is a real one or the padding of an underrun is the      *)
(* ring's matter (RingBuffer).  Samples are numbered from 1 in the order   *)
(* the resampler is given them, and anew when a store of setRatio() has    *)
(* come between two calls, and at the end of a call that one came into; 0  *)
(* is the sample that last_ holds then.                                    *)
(***************************************************************************)
EXTENDS Integers

CONSTANTS Dst,          \* the device's rate
          Rates,        \* the source rates
          MaxOut,       \* bound: samples in one read (4096)
          Scratch,      \* kScratchCapacity
          MaxProduced   \* bound: samples read in one numbering

ASSUME DstAssumption == Dst \in Nat \ {0} /\ Rates \subseteq Nat \ {0}
ASSUME BoundsAssumption == MaxOut \in Nat /\ Scratch \in Nat /\ MaxProduced \in Nat

VARIABLES
  rate, phase, last,
  storing, newRate,   \* IPC thread: what setRatio() has still to store
  pc,                 \* HAL realtime thread: idle, sample (the for loop), pass and
                      \* take (the while loop: its condition, its body)
  todo,               \* output samples still to make in this call
  need,               \* inLen
  inputIdx,
  left, right,        \* the samples the last output lies between
  disturbed,          \* history: a store of setRatio() came into this call
  start, produced, consumed   \* history, since the numbering began: phase_ then,
                              \* outputs made, inputs consumed

reading == <<pc, todo, need, inputIdx, left, right>>
setting == <<storing, newRate>>
history == <<disturbed, start, produced, consumed>>
vars    == <<rate, phase, last, reading, setting, history>>

\* The input sample process() sees at an index, beyond its end the last one.
Sample(i) == IF i < need THEN consumed + i + 1 ELSE last

Init ==
  /\ rate = Dst /\ phase = 0 /\ last = 0
  /\ storing = {} /\ newRate = Dst
  /\ pc = "idle" /\ todo = 0 /\ need = 0 /\ inputIdx = 0
  /\ left = 0 /\ right = 0
  /\ disturbed = FALSE /\ start = 0 /\ produced = 0 /\ consumed = 0

\* The samples are numbered anew, from what phase_ and last_ are.
Renumber == last' = 0 /\ start' = phase' /\ produced' = 0 /\ consumed' = 0

-----------------------------------------------------------------------------
(* The IPC thread: setSourceRate                                           *)

SetSourceRate ==
  /\ storing = {}
  /\ storing' = {"ratio", "phase", "last"}
  /\ newRate' \in Rates
  /\ UNCHANGED <<rate, phase, last, reading, history>>

\* One of the stores takes effect.
Store(what) ==
  /\ what \in storing
  /\ storing' = storing \ {what}
  /\ IF pc = "idle" THEN Renumber /\ UNCHANGED disturbed
     ELSE disturbed' = TRUE /\ UNCHANGED <<start, produced, consumed>>
  /\ UNCHANGED <<newRate, reading>>

StoreRatio ==
  /\ rate' = newRate /\ UNCHANGED phase
  /\ pc # "idle" => UNCHANGED last
  /\ Store("ratio")

\* In a call the reader may hold the old value, and store what becomes of it.
Reset(value) == IF pc = "idle" THEN {0} ELSE {0, value}

StorePhase ==
  /\ phase' \in Reset(phase) /\ UNCHANGED rate
  /\ pc # "idle" => UNCHANGED last
  /\ Store("phase")

StoreLast ==
  /\ last' \in Reset(last) /\ UNCHANGED <<rate, phase>>
  /\ Store("last")

-----------------------------------------------------------------------------
(* The HAL realtime thread: read                                           *)

\* Variant: the fraction carried over is left out.
InputNeededNoPhase(n) == (n * rate) \div Dst

InputNeeded(n) == (phase + n * rate) \div Dst

\* A number of samples as a size_t: a negative one is 0 on arm64, and too many
\* on x86_64.
ToSize(x) == IF x >= 0 THEN {x} ELSE {0, Scratch + 1}

\* read(): ask for the input, and make n samples; beyond the scratch buffer the
\* call returns silence and changes nothing.
Read == \E n \in 1..MaxOut :
  /\ pc = "idle" /\ produced + n <= MaxProduced
  /\ \E size \in ToSize(InputNeeded(n)) :
       IF size > Scratch THEN UNCHANGED <<pc, todo, need, inputIdx>>
       ELSE pc' = "sample" /\ todo' = n /\ need' = size /\ inputIdx' = 0
  /\ UNCHANGED <<rate, phase, last, left, right, setting, history>>

\* One turn of the for loop, up to the while loop.
MakeSample ==
  /\ pc = "sample" /\ todo > 0
  /\ left' = last /\ right' = Sample(inputIdx)
  /\ phase' = phase + rate
  /\ todo' = todo - 1 /\ produced' = produced + 1
  /\ pc' = "pass"
  /\ UNCHANGED <<rate, last, need, inputIdx, setting, disturbed, start, consumed>>

\* The condition of the while loop.
Pass ==
  /\ pc = "pass"
  /\ pc' = IF phase >= Dst THEN "take" ELSE "sample"
  /\ UNCHANGED <<rate, phase, last, todo, need, inputIdx, left, right, setting, history>>

\* Variant: the left-hand point is taken after the index moved.
TakeLate ==
  /\ pc = "take"
  /\ last' = Sample(inputIdx + 1)
  /\ inputIdx' = inputIdx + 1 /\ phase' = phase - Dst
  /\ pc' = "pass"
  /\ UNCHANGED <<rate, todo, need, left, right, setting, history>>

\* Its body: an input sample is passed.
Take ==
  /\ pc = "take"
  /\ last' = Sample(inputIdx)
  /\ inputIdx' = inputIdx + 1 /\ phase' = phase - Dst
  /\ pc' = "pass"
  /\ UNCHANGED <<rate, todo, need, left, right, setting, history>>

\* Variant: the last point is not carried over to the next call.
EndReadForgets ==
  /\ pc = "sample" /\ todo = 0
  /\ UNCHANGED <<rate, phase, todo, left, right, setting>>
  /\ pc' = "idle" /\ need' = 0 /\ inputIdx' = 0 /\ disturbed' = FALSE
  /\ IF disturbed THEN Renumber
     ELSE consumed' = consumed + need /\ last' = 0 /\ UNCHANGED <<start, produced>>

\* The ring has given need samples to this call, however many were used.
EndRead ==
  /\ pc = "sample" /\ todo = 0
  /\ UNCHANGED <<rate, phase, todo, left, right, setting>>
  /\ pc' = "idle" /\ need' = 0 /\ inputIdx' = 0 /\ disturbed' = FALSE
  /\ IF disturbed THEN Renumber
     ELSE consumed' = consumed + need /\ UNCHANGED <<last, start, produced>>

-----------------------------------------------------------------------------
Stores == StoreRatio \/ StorePhase \/ StoreLast

Next == SetSourceRate \/ Stores \/ Read \/ MakeSample \/ Pass \/ Take \/ EndRead

Spec == Init /\ [][Next]_vars

-----------------------------------------------------------------------------
(* Properties                                                              *)

\* A call uses up exactly the samples it asked the ring for, whatever fraction
\* the calls before left over and wherever a change of the rate has left the
\* cursor, unless the rate is changed during the call
\* (GLA_ResamplingFIFO.h:25-30).
InputExact == pc = "sample" /\ todo = 0 /\ ~disturbed => inputIdx = need

\* However the output is cut into calls, input and output stay in step to
\* within a sample, so a long session does not drift; a change of the rate that
\* comes into a call sets them off by no more than that call
\* (GLA_ResamplingFIFO.h:58).
NoDrift == pc = "idle" => start + produced * rate = consumed * Dst + phase

\* Where the output made last lies, in units of 1 / Dst.
Position == start + (produced - 1) * rate

Made == pc \in {"pass", "take"} /\ ~disturbed

\* The left-hand point of an output is the input sample just before its position,
\* across calls too (GLA_ResamplingFIFO.h:60).
LeftPoint == Made /\ Position >= 0 => left = Position \div Dst

\* An output lies between two neighbours of the input, but for outputs that
\* follow the last sample of the call's input, which repeat that; there are none
\* if the source is not slower than the device.  A position below 0, which only a
\* change of the rate during a call can leave behind, lies before both
\* (GLA_ResamplingFIFO.h:25-26, 32, 42).
HoldsOnlyAtTheEnd ==
  Made => /\ right = IF left < consumed + need THEN left + 1 ELSE left
          /\ rate >= Dst /\ Position >= 0 => left < consumed + need

\* Every output lies between two neighbours of the input, whatever the rates
\* (GLA_ResamplingFIFO.h:25-26, 32).
Neighbours == Made /\ Position >= 0 => right = left + 1

\* phase_ is a fraction in [0, 1) between calls (GLA_ResamplingFIFO.h:58).
CursorIsFraction == pc = "idle" => phase \in 0..(Dst - 1)

-----------------------------------------------------------------------------
(* Why: the inductive invariant of TimingProofs                            *)

\* Every variable has its type; phase_ is below 1 but for the while loop, and
\* never below -1.
TypeOK ==
  /\ rate \in Nat \ {0} /\ newRate \in Nat \ {0}
  /\ storing \subseteq {"ratio", "phase", "last"}
  /\ phase \in Int /\ phase >= -Dst /\ (pc \in {"idle", "sample"} => phase < Dst)
  /\ pc = "take" => phase >= 0
  /\ last \in Nat /\ left \in Nat /\ right \in Nat
  /\ pc \in {"idle", "sample", "pass", "take"}
  /\ todo \in Nat /\ need \in Nat /\ inputIdx \in Nat
  /\ disturbed \in BOOLEAN /\ start \in Int
  /\ produced \in Nat /\ consumed \in Nat

\* Between calls nothing is asked for.
Rest == pc = "idle" => todo = 0 /\ need = 0 /\ inputIdx = 0 /\ ~disturbed

\* The input passed and the fraction left are the output made, in input samples;
\* a negative fraction is one from before the numbering.
InStep ==
  /\ (consumed + inputIdx) * Dst + phase = start + produced * rate
  /\ phase < 0 => consumed + inputIdx = 0
  /\ pc = "take" => phase >= Dst

\* What this call asked for is what the rest of its output needs.
Asked ==
  pc # "idle" =>
    /\ consumed + need = 0 \/ (consumed + need) * Dst <= start + (produced + todo) * rate
    /\ start + (produced + todo) * rate < (consumed + need) * Dst + Dst

\* last_ is the input sample passed last.
LastPassed == last = consumed + inputIdx

\* The points of the output just made.
Points ==
  pc \in {"pass", "take"} =>
    /\ produced >= 1
    /\ Position >= 0 => left * Dst <= Position
    /\ Position < left * Dst + Dst
    /\ rate >= Dst /\ Position >= 0 => left < consumed + need
    /\ right = IF left < consumed + need THEN left + 1 ELSE left

ResamplerInv ==
  TypeOK /\ Rest /\ (~disturbed => InStep /\ Asked /\ LastPassed /\ Points)
=============================================================================
