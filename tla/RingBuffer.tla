------------------------------ MODULE RingBuffer ------------------------------
(***************************************************************************)
(* The single-producer, single-consumer ring of one channel                *)
(* (common/GLA_RingBuffer.h), one action per load, copy and store.         *)
(*                                                                         *)
(* The producer is the driver's IPC thread; it also calls reset(), through *)
(* GLAResamplingFIFO.  The consumer is the HAL realtime thread, which      *)
(* reads only while IO runs.  head and tail are free-running size_t        *)
(* counters; release/acquire makes the copies visible with the counter.    *)
(***************************************************************************)
EXTENDS Integers, Sequences

CONSTANTS Capacity,    \* buf.size()
          Wrap,        \* 2^64: where head and tail wrap around
          MaxFrames,   \* bound: frames in one call
          MaxSamples,  \* bound: samples written since the last reset
          LiveReset    \* TRUE: reset() may come while IO runs

ASSUME CapacityAssumption == Capacity \in Nat \ {0}
ASSUME WrapAssumption == Wrap \in Nat /\ Wrap > Capacity /\ Wrap % Capacity = 0
ASSUME FramesAssumption == MaxFrames \in Nat /\ MaxSamples \in Nat /\ LiveReset \in BOOLEAN

VARIABLES
  buf, head, tail,
  wr,                \* the producer: where it is, and its locals
  rd,                \* the consumer
  dst,               \* what the consumer's current or last read has returned
  io,                \* coreaudiod runs IO on the device
  pushed, popped     \* samples written and read since the last reset

vars == <<buf, head, tail, wr, rd, dst, io, pushed, popped>>

IdleWrite == [pc |-> "idle", h |-> 0, n |-> 0, i |-> 0]
IdleRead  == [pc |-> "idle", t |-> 0, n |-> 0, i |-> 0, frames |-> 0]

Least(a, b) == IF a < b THEN a ELSE b

\* Variant: a mask that is one too small.
SlotShort(x) == x % (Capacity - 1)

\* & mask, for a capacity that is a power of two.
Slot(x) == x % Capacity

\* size_t subtraction.
Minus(a, b) == (a - b) % Wrap

Available == Minus(head, tail)

Init ==
  /\ buf = [s \in 0..(Capacity - 1) |-> 0]
  /\ head = 0 /\ tail = 0 /\ pushed = 0 /\ popped = 0
  /\ wr = IdleWrite /\ rd = IdleRead /\ dst = << >> /\ io = FALSE

-----------------------------------------------------------------------------
(* write()                                                                 *)

\* What does not fit is dropped.  A sample's value is its place in the stream.
WriteBegin ==
  /\ wr.pc = "idle"
  /\ \E frames \in 0..MaxFrames :
       LET n == Least(frames, Minus(Capacity, Available)) IN
       /\ pushed + n <= MaxSamples
       /\ wr' = [pc |-> "copy", h |-> head, n |-> n, i |-> 0]
  /\ UNCHANGED <<buf, head, tail, rd, dst, io, pushed, popped>>

WriteSample ==
  /\ wr.pc = "copy" /\ wr.i < wr.n
  /\ buf' = [buf EXCEPT ![Slot(wr.h + wr.i)] = pushed + wr.i + 1]
  /\ wr' = [wr EXCEPT !.i = wr.i + 1]
  /\ UNCHANGED <<head, tail, rd, dst, io, pushed, popped>>

\* Variant: head is stored before the samples are copied.
WritePublishEarly ==
  /\ wr.pc = "copy"
  /\ head' = (wr.h + wr.n) % Wrap
  /\ pushed' = pushed + wr.n
  /\ wr' = IdleWrite
  /\ UNCHANGED <<buf, tail, rd, dst, io, popped>>

WritePublish ==
  /\ wr.pc = "copy" /\ wr.i = wr.n
  /\ head' = (wr.h + wr.n) % Wrap
  /\ pushed' = pushed + wr.n
  /\ wr' = IdleWrite
  /\ UNCHANGED <<buf, tail, rd, dst, io, popped>>

-----------------------------------------------------------------------------
(* read()                                                                  *)

ReadBegin ==
  /\ io /\ rd.pc = "idle"
  /\ \E frames \in 0..MaxFrames :
       rd' = [pc |-> "copy", t |-> tail, n |-> Least(Available, frames), i |-> 0,
              frames |-> frames]
  /\ dst' = << >>
  /\ UNCHANGED <<buf, head, tail, wr, io, pushed, popped>>

ReadSample ==
  /\ rd.pc = "copy" /\ rd.i < rd.n
  /\ dst' = Append(dst, buf[Slot(rd.t + rd.i)])
  /\ rd' = [rd EXCEPT !.i = rd.i + 1]
  /\ UNCHANGED <<buf, head, tail, wr, io, pushed, popped>>

\* Variant: the tail moves by what was asked for.
ReadReleaseAll ==
  /\ rd.pc = "copy" /\ rd.i = rd.n
  /\ dst' = dst \o [k \in 1..(rd.frames - rd.n) |-> 0]
  /\ tail' = (rd.t + rd.frames) % Wrap
  /\ popped' = popped + rd.frames
  /\ rd' = IdleRead
  /\ UNCHANGED <<buf, head, wr, io, pushed>>

\* Pads with silence and gives the slots back.
ReadRelease ==
  /\ rd.pc = "copy" /\ rd.i = rd.n
  /\ dst' = dst \o [k \in 1..(rd.frames - rd.n) |-> 0]
  /\ tail' = (rd.t + rd.n) % Wrap
  /\ popped' = popped + rd.n
  /\ rd' = IdleRead
  /\ UNCHANGED <<buf, head, wr, io, pushed>>

-----------------------------------------------------------------------------
(* reset(), and IO starting and stopping                                   *)

ResetHead ==
  /\ wr.pc = "idle"
  /\ LiveReset \/ ~io
  /\ head' = 0 /\ pushed' = 0
  /\ wr' = [IdleWrite EXCEPT !.pc = "resetTail"]
  /\ UNCHANGED <<buf, tail, rd, dst, io, popped>>

ResetTail ==
  /\ wr.pc = "resetTail"
  /\ tail' = 0 /\ popped' = 0
  /\ wr' = [wr EXCEPT !.pc = "resetFill"]
  /\ UNCHANGED <<buf, head, rd, dst, io, pushed>>

ResetFill ==
  /\ wr.pc = "resetFill"
  /\ buf' = [s \in 0..(Capacity - 1) |-> 0]
  /\ wr' = IdleWrite
  /\ UNCHANGED <<head, tail, rd, dst, io, pushed, popped>>

Resetting == wr.pc \in {"resetTail", "resetFill"}

StartIO ==
  /\ ~io
  /\ LiveReset \/ ~Resetting
  /\ io' = TRUE
  /\ UNCHANGED <<buf, head, tail, wr, rd, dst, pushed, popped>>

StopIO ==
  /\ io /\ rd.pc = "idle"
  /\ io' = FALSE
  /\ UNCHANGED <<buf, head, tail, wr, rd, dst, pushed, popped>>

Producer == WriteBegin \/ WriteSample \/ WritePublish \/ ResetHead \/ ResetTail \/ ResetFill
Consumer == ReadBegin \/ ReadSample \/ ReadRelease \/ StartIO \/ StopIO

Next == Producer \/ Consumer

Spec == Init /\ [][Next]_vars

-----------------------------------------------------------------------------
(* Properties                                                              *)

Slots    == 0..(Capacity - 1)
Counters == 0..(Wrap - 1)
Writer   == [pc: {"idle", "copy", "resetTail", "resetFill"}, h: Counters, n: Nat, i: Nat]
Reader   == [pc: {"idle", "copy"}, t: Counters, n: Nat, i: Nat, frames: Nat]

\* Every variable has its type.
TypeOK ==
  /\ buf \in [Slots -> Nat]
  /\ head \in Counters /\ tail \in Counters
  /\ wr \in Writer /\ rd \in Reader
  /\ dst \in Seq(Nat)
  /\ io \in BOOLEAN
  /\ pushed \in Nat /\ popped \in Nat

\* available() never claims more samples than the ring holds, wherever the
\* counters wrap: head never falls behind tail (GLA_RingBuffer.h:49-53).
AvailableWithinCapacity == ~Resetting => Available <= Capacity

\* A reset discards every stale sample: until something is written again there
\* is nothing to read (GLA_ResamplingFIFO.h:90).
ResetDiscardsStale == pushed = 0 /\ ~Resetting => Available = 0

\* The two threads never touch the same slot: no data race on buf
\* (GLA_RingBuffer.h:7, :25-26 and :40-41).
NoSharedSlot ==
  wr.pc = "copy" /\ wr.i < wr.n /\ rd.pc = "copy" /\ rd.i < rd.n =>
    Slot(wr.h + wr.i) # Slot(rd.t + rd.i)

\* A read returns the samples that were there when it began, each once, in
\* order, then silence; a write adds as much as fits, never over a sample that
\* is still to be read: the ring is a SampleQueue.
Held  == IF rd.pc = "copy" THEN rd.n ELSE 0
Queue == IF wr.pc = "resetTail" THEN << >>
         ELSE [k \in 1..(Available - Held) |-> buf[Slot(tail + Held + k - 1)]]
Read  == IF rd.pc = "idle" THEN dst
         ELSE [k \in 1..rd.frames |->
                 IF k <= rd.i THEN dst[k]
                 ELSE IF k <= rd.n THEN buf[Slot(rd.t + k - 1)] ELSE 0]

Q == INSTANCE SampleQueue
       WITH queue <- Queue, accepted <- pushed, got <- Read, held <- Held,
            reserved <- IF wr.pc = "copy" THEN wr.n ELSE 0
IsSampleQueue == Q!Spec

-----------------------------------------------------------------------------
(* Why: the inductive invariant of RingBufferProofs                        *)

\* Between resets the counters are the numbers of samples written and read,
\* modulo the width of size_t.
CountersAgree ==
  /\ Resetting => pushed = 0
  /\ wr.pc # "resetTail" => popped <= pushed /\ pushed - popped <= Capacity
  /\ head = pushed % Wrap /\ tail = popped % Wrap

\* Each thread works from the counter only it stores, within the room it saw.
LocalsAgree ==
  /\ wr.pc = "copy" => wr.h = head /\ wr.i <= wr.n /\ pushed - popped + wr.n <= Capacity
  /\ rd.pc = "copy" => rd.t = tail /\ rd.i <= rd.n /\ rd.n <= pushed - popped

\* The consumer has returned what it has copied, and copies no more than it was
\* asked for.
ReturnedAgrees == rd.pc = "copy" => Len(dst) = rd.i /\ rd.n <= rd.frames

\* No reset while IO runs, and no read while it does not.
NoLiveReset == (io => ~Resetting) /\ (rd.pc = "copy" => io)

\* What was written and not read, and what the write in progress has copied,
\* is in its slot.
Contents ==
  /\ wr.pc \in {"idle", "copy"} => \A j \in popped..(pushed - 1) : buf[Slot(j)] = j + 1
  /\ wr.pc = "copy" => \A j \in pushed..(pushed + wr.i - 1) : buf[Slot(j)] = j + 1

RingInv ==
  TypeOK /\ CountersAgree /\ LocalsAgree /\ ReturnedAgrees /\ NoLiveReset /\ Contents
=============================================================================
