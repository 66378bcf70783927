--------------------------- MODULE RingBufferProofs ---------------------------
(***************************************************************************)
(* Theorems about RingBuffer when reset() is not called while IO runs, for *)
(* any capacity, any counter width and any bounds.                         *)
(***************************************************************************)
EXTENDS RingBuffer, SequenceTheorems, TLAPS

-----------------------------------------------------------------------------
(* Facts about % that the SMT solver does not find alone: counters wrap    *)
(* modulo a width, and slots are counters modulo a capacity.               *)

\* Quotient and remainder.
LEMMA Division ==
  ASSUME NEW x \in Int, NEW c \in Nat, c > 0
  PROVE  x % c \in 0..(c - 1) /\ \E q \in Int : x = q * c + (x % c)
<1>1. x % c \in 0..(c - 1)
  OBVIOUS
<1>2. x = (x \div c) * c + (x % c)
  OBVIOUS
<1> QED
  BY <1>1, <1>2

\* A multiple of c nearer to 0 than c is 0.
LEMMA SmallMultiple ==
  ASSUME NEW c \in Nat, NEW d \in Int, NEW k \in Int, c > 0, d > -c, d < c, d = k * c
  PROVE  d = 0
<1>1. CASE k >= 1
  <2>1. k * c >= c
    BY <1>1
  <2> QED
    BY <2>1
<1>2. CASE k <= -1
  <2>1. k * c <= -c
    BY <1>2
  <2> QED
    BY <2>1
<1>3. CASE k = 0
  BY <1>3
<1> QED
  BY <1>1, <1>2, <1>3

\* The remainder is the only one.
LEMMA UniqueRemainder ==
  ASSUME NEW c \in Nat, c > 0, NEW q \in Int, NEW r \in 0..(c - 1), NEW x \in Int, x = q * c + r
  PROVE  x % c = r
<1>1. PICK p \in Int : x = p * c + (x % c)
  BY Division
<1>2. x % c \in 0..(c - 1)
  BY Division
<1>3. (q - p) * c = q * c - p * c
  OBVIOUS
<1>4. (x % c) - r = (q - p) * c
  BY <1>1, <1>2, <1>3
<1>5. (x % c) - r = 0
  BY <1>2, <1>4, SmallMultiple
<1> QED
  BY <1>2, <1>5

\* A difference of two wrapped counters, wrapped, is the difference itself when
\* that fits.
LEMMA WrappedDifference ==
  ASSUME NEW w \in Nat, w > 0, NEW a \in Nat, NEW b \in Nat, a - b \in 0..(w - 1)
  PROVE  ((a % w) - (b % w)) % w = a - b
<1>0. a \in Int /\ b \in Int
  OBVIOUS
<1>1. PICK p \in Int : a = p * w + (a % w)
  BY <1>0, Division
<1>2. PICK q \in Int : b = q * w + (b % w)
  BY <1>0, Division
<1>3. a % w \in Int /\ b % w \in Int
  BY <1>0, Division
<1>4. (q - p) * w = q * w - p * w
  OBVIOUS
<1>5. (a % w) - (b % w) = (q - p) * w + (a - b)
  BY <1>1, <1>2, <1>3, <1>4
<1> QED
  BY <1>3, <1>5, UniqueRemainder

\* Adding to a wrapped counter and wrapping again.
LEMMA WrappedSum ==
  ASSUME NEW w \in Nat, w > 0, NEW a \in Nat, NEW n \in Nat
  PROVE  ((a % w) + n) % w = (a + n) % w
<1>0. a \in Int /\ a + n \in Int
  OBVIOUS
<1>1. PICK s \in 0..(w - 1) : s = a % w
  BY <1>0, Division
<1>2. PICK r \in 0..(w - 1) : r = (a + n) % w
  BY <1>0, Division
<1>3. PICK p \in Int : a = p * w + s
  BY <1>0, <1>1, Division
<1>4. PICK q \in Int : a + n = q * w + r
  BY <1>0, <1>2, Division
<1>5. (q - p) * w = q * w - p * w
  OBVIOUS
<1>6. s + n = (q - p) * w + r /\ s + n \in Int /\ q - p \in Int
  BY <1>3, <1>4, <1>5
<1>7. (s + n) % w = r
  BY <1>6, UniqueRemainder
<1> QED
  BY <1>1, <1>2, <1>7

\* The slot of a wrapped counter is the slot of the counter when the capacity
\* divides the width.
LEMMA WrappedSlot ==
  ASSUME NEW c \in Nat, c > 0, NEW w \in Nat, w > 0, w % c = 0, NEW a \in Nat, NEW n \in Nat
  PROVE  ((a % w) + n) % c = (a + n) % c
<1>0. a \in Int /\ a + n \in Int /\ w \in Int
  OBVIOUS
<1>1. PICK p \in Int : a = p * w + (a % w)
  BY <1>0, Division
<1>2. PICK q \in Int : a + n = q * c + ((a + n) % c)
  BY <1>0, Division
<1>3. PICK k \in Int : w = k * c + 0
  BY <1>0, Division
<1>4. a % w \in Int /\ (a + n) % c \in 0..(c - 1)
  BY Division
<1>5. p * w = (p * k) * c
  BY <1>3
<1>6. (q - p * k) * c = q * c - (p * k) * c
  OBVIOUS
<1>7. (a % w) + n = (q - p * k) * c + ((a + n) % c)
  BY <1>1, <1>2, <1>4, <1>5, <1>6
<1>8. q - p * k \in Int
  OBVIOUS
<1> QED
  BY <1>4, <1>7, <1>8, UniqueRemainder

\* Counters less than a capacity apart have different slots.
LEMMA DistinctSlots ==
  ASSUME NEW c \in Nat, c > 0, NEW a \in Nat, NEW b \in Nat, a # b, a - b < c, b - a < c
  PROVE  a % c # b % c
<1> SUFFICES ASSUME a % c = b % c
             PROVE  FALSE
  OBVIOUS
<1>0. a \in Int /\ b \in Int
  OBVIOUS
<1>1. PICK p \in Int : a = p * c + (a % c)
  BY <1>0, Division
<1>2. PICK q \in Int : b = q * c + (b % c)
  BY <1>0, Division
<1>3. a % c \in Int
  BY <1>0, Division
<1>4. (p - q) * c = p * c - q * c
  OBVIOUS
<1>5. a - b = (p - q) * c
  BY <1>1, <1>2, <1>3, <1>4
<1>6. a - b = 0
  BY <1>5, SmallMultiple
<1> QED
  BY <1>6

-----------------------------------------------------------------------------
(* The counters and the slots                                              *)

\* The constants as numbers.
LEMMA Sizes ==
  /\ Capacity \in Nat /\ Capacity > 0 /\ Wrap \in Nat /\ Wrap > 0 /\ Capacity < Wrap
  /\ Wrap % Capacity = 0 /\ MaxFrames \in Nat
  BY CapacityAssumption, WrapAssumption, FramesAssumption

LEMMA SlotInRange == \A x \in Int : Slot(x) \in Slots
  BY Sizes, Division DEF Slot, Slots

\* available() is the number of samples written and not read.
LEMMA AvailableIsDifference ==
  ASSUME RingInv, wr.pc # "resetTail"
  PROVE  Available = pushed - popped /\ Available \in 0..Capacity
<1>1. pushed \in Nat /\ popped \in Nat /\ pushed - popped \in 0..(Wrap - 1)
  BY Sizes DEF RingInv, TypeOK, CountersAgree
<1>2. Available = ((pushed % Wrap) - (popped % Wrap)) % Wrap
  BY DEF RingInv, CountersAgree, Available, Minus
<1>3. Available = pushed - popped
  BY <1>1, <1>2, Sizes, WrappedDifference
<1> QED
  BY <1>1, <1>3 DEF RingInv, TypeOK, CountersAgree

\* The room write() finds.
LEMMA RoomIsDifference ==
  ASSUME NEW a \in 0..Capacity
  PROVE  Minus(Capacity, a) = Capacity - a
<1>1. Capacity - a \in 0..(Wrap - 1) /\ Capacity - a = 0 * Wrap + (Capacity - a)
  BY Sizes
<1>2. (Capacity - a) % Wrap = Capacity - a
  BY <1>1, Sizes, UniqueRemainder
<1> QED
  BY <1>2 DEF Minus

LEMMA LeastIsBoth ==
  \A a, b \in Nat : Least(a, b) \in Nat /\ Least(a, b) <= a /\ Least(a, b) <= b
  BY DEF Least

\* The slot a thread touches is the slot of its unwrapped counter.
LEMMA SlotOfCounter ==
  ASSUME NEW a \in Nat, NEW n \in Nat
  PROVE  Slot((a % Wrap) + n) = Slot(a + n)
<1>1. Capacity \in Nat /\ Capacity > 0 /\ Wrap \in Nat /\ Wrap > 0 /\ Wrap % Capacity = 0
  BY Sizes
<1>2. ((a % Wrap) + n) % Capacity = (a + n) % Capacity
  BY <1>1, WrappedSlot, ZenonT(60)
<1> QED
  BY <1>2 DEF Slot

LEMMA SlotsDiffer ==
  ASSUME NEW a \in Nat, NEW b \in Nat, a # b, a - b < Capacity, b - a < Capacity
  PROVE  Slot(a) # Slot(b)
  BY Sizes, DistinctSlots DEF Slot

\* What the steps of the type proof need of the parts of the state.
LEMMA Parts ==
  ASSUME TypeOK
  PROVE  /\ wr.h \in Int /\ wr.n \in Nat /\ wr.i \in Nat
         /\ rd.t \in Int /\ rd.n \in Nat /\ rd.i \in Nat /\ rd.frames \in Nat
         /\ head \in Int /\ tail \in Int /\ pushed \in Nat /\ popped \in Nat
         /\ Available \in Nat /\ Minus(Capacity, Available) \in Nat
<1>1. Counters \subseteq Int
  BY Sizes DEF Counters
<1>2. head \in Int /\ tail \in Int
  BY <1>1 DEF TypeOK
<1>3. \A x \in Int : x % Wrap \in Nat
  BY Sizes, Division
<1>4. Available \in Nat
  BY <1>2, <1>3 DEF Available, Minus
<1>5. Minus(Capacity, Available) \in Nat
  BY <1>3, <1>4, Sizes DEF Minus
<1> QED
  BY <1>1, <1>2, <1>4, <1>5 DEF TypeOK, Writer, Reader

LEMMA WrapInCounters ==
  ASSUME NEW x \in Int
  PROVE  x % Wrap \in Counters
  BY Sizes, Division DEF Counters

LEMMA IdleValues == IdleWrite \in Writer /\ IdleRead \in Reader /\ 0 \in Counters
<1>1. 0 \in Counters
  BY Sizes DEF Counters
<1> QED
  BY <1>1 DEF IdleWrite, Writer, IdleRead, Reader

\* Every step keeps every variable in its type.
LEMMA TypeStep ==
  ASSUME TypeOK, [Next]_vars
  PROVE  TypeOK'
<1>0. /\ wr.h \in Int /\ wr.n \in Nat /\ wr.i \in Nat
      /\ rd.t \in Int /\ rd.n \in Nat /\ rd.i \in Nat /\ rd.frames \in Nat
      /\ head \in Int /\ tail \in Int /\ pushed \in Nat /\ popped \in Nat
      /\ Available \in Nat /\ Minus(Capacity, Available) \in Nat
  BY Parts
<1>1. CASE WriteBegin
  <2>1. PICK frames \in 0..MaxFrames :
          wr' = [pc |-> "copy", h |-> head, n |-> Least(frames, Minus(Capacity, Available)), i |-> 0]
    BY <1>1 DEF WriteBegin
  <2>2. frames \in Nat
    BY Sizes
  <2>3. Least(frames, Minus(Capacity, Available)) \in Nat
    BY <1>0, <2>2, LeastIsBoth
  <2>4. wr' \in Writer
    BY <2>1, <2>3 DEF Writer, TypeOK
  <2> QED
    BY <1>1, <2>4 DEF WriteBegin, TypeOK
<1>2. CASE WriteSample
  <2>1. pushed + wr.i + 1 \in Nat /\ wr.i + 1 \in Nat
    BY <1>0
  <2>2. buf' \in [Slots -> Nat]
    BY <1>2, <2>1 DEF WriteSample, TypeOK
  <2>3. wr' \in Writer
    BY <1>2, <2>1 DEF WriteSample, Writer, TypeOK
  <2> QED
    BY <1>2, <2>2, <2>3 DEF WriteSample, TypeOK
<1>3. CASE WritePublish
  <2>1. wr.h + wr.n \in Int /\ pushed + wr.n \in Nat
    BY <1>0
  <2>2. (wr.h + wr.n) % Wrap \in Counters
    BY <2>1, WrapInCounters
  <2> QED
    BY <1>3, <2>1, <2>2, IdleValues DEF WritePublish, TypeOK
<1>4. CASE ReadBegin
  <2>1. PICK frames \in 0..MaxFrames :
          rd' = [pc |-> "copy", t |-> tail, n |-> Least(Available, frames), i |-> 0,
                 frames |-> frames]
    BY <1>4 DEF ReadBegin
  <2>2. frames \in Nat
    BY Sizes
  <2>3. Least(Available, frames) \in Nat
    BY <1>0, <2>2, LeastIsBoth
  <2>4. rd' \in Reader
    BY <2>1, <2>2, <2>3 DEF Reader, TypeOK
  <2>5. dst' \in Seq(Nat)
    BY <1>4 DEF ReadBegin
  <2> QED
    BY <1>4, <2>4, <2>5 DEF ReadBegin, TypeOK
<1>5. CASE ReadSample
  <2>1. rd.t + rd.i \in Int /\ rd.i + 1 \in Nat
    BY <1>0
  <2>2. buf[Slot(rd.t + rd.i)] \in Nat
    BY <2>1, SlotInRange DEF TypeOK
  <2>3. rd' \in Reader
    BY <1>5, <2>1 DEF ReadSample, Reader, TypeOK
  <2>4. dst' \in Seq(Nat)
    BY <1>5, <2>2 DEF ReadSample, TypeOK
  <2> QED
    BY <1>5, <2>3, <2>4 DEF ReadSample, TypeOK
<1>6. CASE ReadRelease
  <2>1. rd.t + rd.n \in Int /\ popped + rd.n \in Nat /\ rd.frames - rd.n \in Int
    BY <1>0
  <2>2. (rd.t + rd.n) % Wrap \in Counters
    BY <2>1, WrapInCounters
  <2>3. [k \in 1..(rd.frames - rd.n) |-> 0] \in Seq(Nat)
    <3>1. CASE rd.frames - rd.n < 0
      <4>1. 1..(rd.frames - rd.n) = {}
        BY <2>1, <3>1
      <4>0. << >> \in Seq(Nat)
        OBVIOUS
      <4>2. [k \in 1..(rd.frames - rd.n) |-> 0] = << >>
        BY <4>1
      <4> QED
        BY <4>0, <4>2
    <3>2. CASE rd.frames - rd.n \in Nat
      BY <3>2
    <3> QED
      BY <2>1, <3>1, <3>2
  <2>4. dst \in Seq(Nat) /\ dst' = dst \o [k \in 1..(rd.frames - rd.n) |-> 0]
    BY <1>6 DEF ReadRelease, TypeOK
  <2>5. dst' \in Seq(Nat)
    BY <2>3, <2>4
  <2>6. tail' \in Counters /\ popped' \in Nat /\ rd' \in Reader
    BY <1>6, <2>1, <2>2, IdleValues DEF ReadRelease
  <2> QED
    BY <1>6, <2>5, <2>6 DEF ReadRelease, TypeOK
<1>7. CASE ResetHead
  BY <1>7, IdleValues DEF ResetHead, IdleWrite, Writer, TypeOK
<1>8. CASE ResetTail
  BY <1>8, IdleValues DEF ResetTail, Writer, TypeOK
<1>9. CASE ResetFill
  BY <1>9, IdleValues DEF ResetFill, Slots, TypeOK
<1>10. CASE StartIO
  BY <1>10 DEF StartIO, TypeOK
<1>11. CASE StopIO
  BY <1>11 DEF StopIO, TypeOK
<1>12. CASE UNCHANGED vars
  BY <1>12 DEF vars, TypeOK
<1> QED
  BY <1>1, <1>2, <1>3, <1>4, <1>5, <1>6, <1>7, <1>8, <1>9, <1>10, <1>11, <1>12
     DEF Next, Producer, Consumer

\* Between resets the ring is type-correct however the two threads interleave.
THEOREM TypeCorrect == Spec => []TypeOK
<1>1. Init => TypeOK
  <2> SUFFICES ASSUME Init PROVE TypeOK
    OBVIOUS
  <2>1. buf \in [Slots -> Nat] /\ dst \in Seq(Nat)
    BY DEF Init, Slots
  <2> QED
    BY <2>1, IdleValues DEF Init, TypeOK
<1>2. TypeOK /\ [Next]_vars => TypeOK'
  BY TypeStep
<1> QED
  BY <1>1, <1>2, PTL DEF Spec

-----------------------------------------------------------------------------
\* The slots of a write in progress and of the samples not yet read are distinct.
LEMMA RoomIsDisjoint ==
  ASSUME NEW a \in Nat, NEW b \in Nat, NEW lo \in Nat, lo <= a, a < b, b - lo < Capacity
  PROVE  Slot(a) # Slot(b)
  BY Sizes, SlotsDiffer

\* Where a thread that copies is, in unwrapped counters.
LEMMA CopySlots ==
  ASSUME RingInv
  PROVE  /\ wr.pc = "copy" => Slot(wr.h + wr.i) = Slot(pushed + wr.i)
         /\ rd.pc = "copy" => Slot(rd.t + rd.i) = Slot(popped + rd.i)
<1>1. pushed \in Nat /\ popped \in Nat /\ wr.i \in Nat /\ rd.i \in Nat
  BY Parts DEF RingInv
<1>2. head = pushed % Wrap /\ tail = popped % Wrap
  BY DEF RingInv, CountersAgree
<1>3. wr.pc = "copy" => wr.h = head
  BY DEF RingInv, LocalsAgree
<1>4. rd.pc = "copy" => rd.t = tail
  BY DEF RingInv, LocalsAgree
<1>5. Slot(head + wr.i) = Slot(pushed + wr.i) /\ Slot(tail + rd.i) = Slot(popped + rd.i)
  BY <1>1, <1>2, SlotOfCounter
<1> QED
  BY <1>3, <1>4, <1>5

\* What a read returns keeps up with what it copies.
LEMMA ReturnedStep ==
  ASSUME TypeOK, ReturnedAgrees, [Next]_vars
  PROVE  ReturnedAgrees'
<1>1. rd.i \in Nat /\ rd.n \in Nat /\ Available \in Nat /\ dst \in Seq(Nat) /\ rd \in Reader
  BY Parts DEF TypeOK
<1>2. CASE ReadBegin
  <2>1. PICK frames \in 0..MaxFrames :
          rd' = [pc |-> "copy", t |-> tail, n |-> Least(Available, frames), i |-> 0,
                 frames |-> frames]
    BY <1>2 DEF ReadBegin
  <2>2. frames \in Nat
    BY Sizes
  <2>3. Least(Available, frames) <= frames /\ Len(<< >>) = 0
    BY <1>1, <2>2, LeastIsBoth
  <2> QED
    BY <1>2, <2>1, <2>3 DEF ReadBegin, ReturnedAgrees
<1>3. CASE ReadSample
  <2>1. rd.pc = "copy" /\ rd' = [rd EXCEPT !.i = rd.i + 1] /\ dst' = Append(dst, buf[Slot(rd.t + rd.i)])
    BY <1>3 DEF ReadSample
  <2>2. rd'.i = rd.i + 1 /\ rd'.n = rd.n /\ rd'.frames = rd.frames
    BY <1>1, <2>1 DEF Reader
  <2>3. Len(dst') = Len(dst) + 1
    BY <1>1, <2>1
  <2> QED
    BY <2>1, <2>2, <2>3 DEF ReturnedAgrees
<1>4. CASE ReadRelease
  BY <1>4 DEF ReadRelease, IdleRead, ReturnedAgrees
<1>5. CASE UNCHANGED <<rd, dst>>
  BY <1>5 DEF ReturnedAgrees
<1> QED
  BY <1>2, <1>3, <1>4, <1>5
  DEF Next, Producer, Consumer, vars, WriteBegin, WriteSample, WritePublish, ResetHead,
      ResetTail, ResetFill, StartIO, StopIO

\* Every step keeps the inductive invariant when no reset comes while IO runs.
LEMMA RingStep ==
  ASSUME ~LiveReset, RingInv, [Next]_vars
  PROVE  RingInv'
<1>0. /\ wr.h \in Int /\ wr.n \in Nat /\ wr.i \in Nat
      /\ rd.t \in Int /\ rd.n \in Nat /\ rd.i \in Nat /\ rd.frames \in Nat
      /\ head \in Int /\ tail \in Int /\ pushed \in Nat /\ popped \in Nat
      /\ Available \in Nat /\ Minus(Capacity, Available) \in Nat
  BY Parts DEF RingInv
<1>1. TypeOK' /\ ReturnedAgrees' /\ wr \in Writer /\ rd \in Reader /\ buf \in [Slots -> Nat]
  BY TypeStep, ReturnedStep DEF RingInv, TypeOK
<1>2. CountersAgree /\ LocalsAgree /\ NoLiveReset /\ Contents
  BY DEF RingInv
<1>3. Capacity \in Nat /\ Capacity > 0 /\ Wrap \in Nat /\ Wrap > 0 /\ 0 % Wrap = 0
  <2>1. 0 \in Int /\ 0 \in 0..(Wrap - 1) /\ 0 = 0 * Wrap + 0
    BY Sizes
  <2> QED
    BY <2>1, Sizes, UniqueRemainder
<1>4. CASE WriteBegin
  <2>1. PICK frames \in 0..MaxFrames :
          wr' = [pc |-> "copy", h |-> head, n |-> Least(frames, Minus(Capacity, Available)), i |-> 0]
    BY <1>4 DEF WriteBegin
  <2>2. wr.pc = "idle" /\ UNCHANGED <<buf, head, tail, rd, io, pushed, popped>>
    BY <1>4 DEF WriteBegin
  <2>3. Available = pushed - popped /\ Available \in 0..Capacity
    BY <2>2, AvailableIsDifference
  <2>4. Minus(Capacity, Available) = Capacity - (pushed - popped)
    BY <2>3, RoomIsDifference
  <2>5. frames \in Nat
    BY Sizes
  <2>6. wr'.n \in Nat /\ wr'.n <= Capacity - (pushed - popped)
    BY <1>0, <2>1, <2>4, <2>5, LeastIsBoth
  <2>7. CountersAgree'
    BY <1>2, <2>1, <2>2 DEF CountersAgree, Resetting
  <2>8. LocalsAgree'
    BY <1>0, <1>2, <1>3, <2>1, <2>2, <2>6 DEF LocalsAgree
  <2>9. NoLiveReset'
    BY <1>2, <2>1, <2>2 DEF NoLiveReset, Resetting
  <2>10. Contents'
    BY <1>0, <1>2, <2>1, <2>2 DEF Contents
  <2> QED
    BY <1>1, <2>7, <2>8, <2>9, <2>10 DEF RingInv
<1>5. CASE WriteSample
  <2>1. wr.pc = "copy" /\ wr.i < wr.n /\ UNCHANGED <<head, tail, rd, io, pushed, popped>>
    BY <1>5 DEF WriteSample
  <2>2. wr' = [wr EXCEPT !.i = wr.i + 1]
    BY <1>5 DEF WriteSample
  <2>3. wr'.pc = "copy" /\ wr'.h = wr.h /\ wr'.n = wr.n /\ wr'.i = wr.i + 1
    BY <1>1, <2>1, <2>2 DEF Writer
  <2>4. popped <= pushed /\ pushed - popped + wr.n <= Capacity
    BY <1>2, <2>1 DEF CountersAgree, LocalsAgree
  <2>5. buf' = [buf EXCEPT ![Slot(pushed + wr.i)] = pushed + wr.i + 1]
    BY <1>5, <2>1, CopySlots DEF WriteSample
  <2>6. pushed + wr.i \in Nat /\ Slot(pushed + wr.i) \in Slots
    BY <1>0, SlotInRange
  <2>7. buf'[Slot(pushed + wr.i)] = pushed + wr.i + 1
    BY <1>1, <2>5, <2>6
  <2>8. ASSUME NEW j \in popped..(pushed + wr.i - 1)
        PROVE  buf'[Slot(j)] = j + 1
    <3>1. j \in Nat /\ popped <= j /\ j < pushed + wr.i
      BY <1>0
    <3>2. (pushed + wr.i) - popped < Capacity
      BY <1>0, <1>3, <2>1, <2>4
    <3>3. Slot(j) # Slot(pushed + wr.i)
      BY <1>0, <2>6, <3>1, <3>2, RoomIsDisjoint
    <3>4. Slot(j) \in Slots
      BY <3>1, SlotInRange
    <3>5. buf'[Slot(j)] = buf[Slot(j)]
      BY <1>1, <2>5, <2>6, <3>3, <3>4
    <3>6. j \in popped..(pushed - 1) \/ j \in pushed..(pushed + wr.i - 1)
      BY <1>0, <3>1
    <3>7. buf[Slot(j)] = j + 1
      BY <1>2, <2>1, <3>6 DEF Contents
    <3> QED
      BY <3>5, <3>7
  <2>9. ASSUME NEW j \in popped..(pushed + wr.i)
        PROVE  buf'[Slot(j)] = j + 1
    <3>1. j = pushed + wr.i \/ j \in popped..(pushed + wr.i - 1)
      BY <1>0
    <3> QED
      BY <2>7, <2>8, <3>1
  <2>10. Contents'
    <3>1. popped..(pushed - 1) \subseteq popped..(pushed + wr.i)
      BY <1>0
    <3>2. pushed..(pushed + (wr.i + 1) - 1) \subseteq popped..(pushed + wr.i)
      BY <1>0, <2>4
    <3> QED
      BY <2>1, <2>3, <2>9, <3>1, <3>2 DEF Contents
  <2>11. CountersAgree'
    BY <1>2, <2>1, <2>3 DEF CountersAgree, Resetting
  <2>12. LocalsAgree'
    BY <1>0, <1>2, <2>1, <2>3 DEF LocalsAgree
  <2>13. NoLiveReset'
    BY <1>2, <2>1, <2>3 DEF NoLiveReset, Resetting
  <2> QED
    BY <1>1, <2>10, <2>11, <2>12, <2>13 DEF RingInv
<1>6. CASE WritePublish
  <2>1. wr.pc = "copy" /\ wr.i = wr.n /\ UNCHANGED <<buf, tail, rd, io, popped>>
    BY <1>6 DEF WritePublish
  <2>2. head' = (wr.h + wr.n) % Wrap /\ pushed' = pushed + wr.n /\ wr' = IdleWrite
    BY <1>6 DEF WritePublish
  <2>3. popped <= pushed /\ wr.h = pushed % Wrap /\ pushed - popped + wr.n <= Capacity
    BY <1>2, <2>1 DEF CountersAgree, LocalsAgree
  <2>4. head' = pushed' % Wrap
    <3>1. ((pushed % Wrap) + wr.n) % Wrap = (pushed + wr.n) % Wrap
      BY <1>0, <1>3, WrappedSum
    <3> QED
      BY <2>2, <2>3, <3>1, Zenon
  <2>5. wr'.pc = "idle"
    BY <2>2 DEF IdleWrite
  <2>6. popped <= pushed + wr.n /\ (pushed + wr.n) - popped <= Capacity
    BY <1>0, <2>3
  <2>7. tail = popped % Wrap
    BY <1>2 DEF CountersAgree
  <2>8. CountersAgree'
    BY <2>1, <2>2, <2>4, <2>5, <2>6, <2>7 DEF CountersAgree, Resetting
  <2>9. rd.pc = "copy" => rd.t = tail /\ rd.i <= rd.n /\ rd.n <= pushed + wr.n - popped
    BY <1>0, <1>2 DEF LocalsAgree
  <2>10. pushed' = pushed + wr.n
    BY <2>2
  <2>11. LocalsAgree'
    <3>1. rd.pc = "copy" => rd.t = tail /\ rd.i <= rd.n /\ rd.n <= pushed' - popped
      BY <1>0, <2>9, <2>10
    <3> QED
      BY <2>1, <2>5, <3>1 DEF LocalsAgree
  <2>12. NoLiveReset'
    BY <1>2, <2>1, <2>5 DEF NoLiveReset, Resetting
  <2>13. ASSUME NEW j \in popped..(pushed + wr.n - 1)
         PROVE  buf[Slot(j)] = j + 1
    <3>1. j \in popped..(pushed - 1) \/ j \in pushed..(pushed + wr.n - 1)
      BY <1>0
    <3> QED
      BY <1>2, <2>1, <3>1 DEF Contents
  <2>14. Contents'
    <3>1. \A j \in popped..(pushed' - 1) : buf[Slot(j)] = j + 1
      BY <1>0, <2>10, <2>13
    <3> QED
      BY <2>1, <2>5, <3>1 DEF Contents
  <2> QED
    BY <1>1, <2>8, <2>11, <2>12, <2>14 DEF RingInv
<1>7. CASE ReadBegin
  <2>1. PICK frames \in 0..MaxFrames :
          rd' = [pc |-> "copy", t |-> tail, n |-> Least(Available, frames), i |-> 0,
                 frames |-> frames]
    BY <1>7 DEF ReadBegin
  <2>2. io /\ UNCHANGED <<buf, head, tail, wr, io, pushed, popped>>
    BY <1>7 DEF ReadBegin
  <2>3. ~Resetting
    BY <1>2, <2>2 DEF NoLiveReset
  <2>4. Available = pushed - popped
    BY <2>3, AvailableIsDifference DEF Resetting
  <2>5. frames \in Nat
    BY Sizes
  <2>6. rd'.t = tail /\ rd'.i = 0 /\ rd'.n \in Nat /\ rd'.n <= pushed - popped
    BY <1>0, <2>1, <2>4, <2>5, LeastIsBoth
  <2>7. CountersAgree'
    BY <1>2, <2>2 DEF CountersAgree, Resetting
  <2>8. LocalsAgree'
    BY <1>2, <2>2, <2>6 DEF LocalsAgree
  <2>9. NoLiveReset'
    BY <1>2, <2>2 DEF NoLiveReset, Resetting
  <2>10. Contents'
    BY <1>2, <2>2 DEF Contents
  <2> QED
    BY <1>1, <2>7, <2>8, <2>9, <2>10 DEF RingInv
<1>8. CASE ReadSample
  <2>1. rd.pc = "copy" /\ rd.i < rd.n /\ UNCHANGED <<buf, head, tail, wr, io, pushed, popped>>
    BY <1>8 DEF ReadSample
  <2>2. rd'.pc = "copy" /\ rd'.t = rd.t /\ rd'.n = rd.n /\ rd'.i = rd.i + 1
    BY <1>1, <1>8 DEF ReadSample, Reader
  <2>3. CountersAgree'
    BY <1>2, <2>1 DEF CountersAgree, Resetting
  <2>4. LocalsAgree'
    BY <1>0, <1>2, <2>1, <2>2 DEF LocalsAgree
  <2>5. NoLiveReset'
    BY <1>2, <2>1, <2>2 DEF NoLiveReset, Resetting
  <2>6. Contents'
    BY <1>2, <2>1 DEF Contents
  <2> QED
    BY <1>1, <2>3, <2>4, <2>5, <2>6 DEF RingInv
<1>9. CASE ReadRelease
  <2>1. rd.pc = "copy" /\ rd.i = rd.n /\ UNCHANGED <<buf, head, wr, io, pushed>>
    BY <1>9 DEF ReadRelease
  <2>2. tail' = (rd.t + rd.n) % Wrap /\ popped' = popped + rd.n /\ rd' = IdleRead
    BY <1>9 DEF ReadRelease
  <2>3. io /\ ~Resetting
    BY <1>2, <2>1 DEF NoLiveReset
  <2>4. popped <= pushed /\ pushed - popped <= Capacity /\ rd.t = popped % Wrap
        /\ rd.n <= pushed - popped /\ head = pushed % Wrap
    BY <1>2, <2>1, <2>3 DEF CountersAgree, LocalsAgree, Resetting
  <2>5. tail' = popped' % Wrap
    <3>1. ((popped % Wrap) + rd.n) % Wrap = (popped + rd.n) % Wrap
      BY <1>0, <1>3, WrappedSum
    <3> QED
      BY <2>2, <2>4, <3>1, Zenon
  <2>6. popped' \in Nat /\ popped <= popped' /\ popped' <= pushed /\ pushed - popped' <= Capacity
    <3>1. popped + rd.n \in Nat /\ popped <= popped + rd.n /\ popped + rd.n <= pushed
          /\ pushed - (popped + rd.n) <= Capacity
      BY <1>0, <1>3, <2>4
    <3> QED
      BY <2>2, <3>1, Zenon
  <2>7. rd'.pc = "idle"
    BY <2>2 DEF IdleRead
  <2>8. CountersAgree'
    BY <1>2, <2>1, <2>4, <2>5, <2>6 DEF CountersAgree, Resetting
  <2>9. wr.pc = "copy" => wr.h = head /\ wr.i <= wr.n /\ pushed - popped' + wr.n <= Capacity
    <3>1. wr.pc = "copy" => wr.h = head /\ wr.i <= wr.n /\ pushed - popped + wr.n <= Capacity
      BY <1>2 DEF LocalsAgree
    <3> QED
      BY <1>0, <1>3, <2>6, <3>1
  <2>10. LocalsAgree'
    BY <2>1, <2>7, <2>9 DEF LocalsAgree
  <2>11. NoLiveReset'
    BY <2>1, <2>3, <2>7 DEF NoLiveReset, Resetting
  <2>12. popped'..(pushed - 1) \subseteq popped..(pushed - 1)
    BY <1>0, <2>6
  <2>13. Contents'
    BY <1>2, <2>1, <2>12 DEF Contents
  <2> QED
    BY <1>1, <2>8, <2>10, <2>11, <2>13 DEF RingInv
<1>10. CASE ResetHead
  <2>1. ~io /\ wr.pc = "idle" /\ head' = 0 /\ pushed' = 0 /\ UNCHANGED <<buf, tail, rd, io, popped>>
    BY <1>10 DEF ResetHead
  <2>2. wr'.pc = "resetTail"
    BY <1>10 DEF ResetHead, IdleWrite
  <2>3. rd.pc # "copy"
    BY <1>2, <2>1 DEF NoLiveReset
  <2>4. CountersAgree'
    BY <1>2, <1>3, <2>1, <2>2 DEF CountersAgree, Resetting
  <2>5. LocalsAgree' /\ NoLiveReset' /\ Contents'
    BY <2>1, <2>2, <2>3 DEF LocalsAgree, NoLiveReset, Contents
  <2> QED
    BY <1>1, <2>4, <2>5 DEF RingInv
<1>11. CASE ResetTail
  <2>1. wr.pc = "resetTail" /\ tail' = 0 /\ popped' = 0 /\ UNCHANGED <<buf, head, rd, io, pushed>>
    BY <1>11 DEF ResetTail
  <2>2. wr'.pc = "resetFill"
    BY <1>1, <1>11 DEF ResetTail, Writer
  <2>3. ~io /\ rd.pc # "copy"
    BY <1>2, <2>1 DEF NoLiveReset, Resetting
  <2>4. pushed = 0 /\ head = 0
    BY <1>2, <1>3, <2>1 DEF CountersAgree, Resetting
  <2>5. CountersAgree'
    BY <1>3, <2>1, <2>2, <2>4 DEF CountersAgree, Resetting
  <2>6. LocalsAgree' /\ NoLiveReset' /\ Contents'
    BY <2>1, <2>2, <2>3 DEF LocalsAgree, NoLiveReset, Contents
  <2> QED
    BY <1>1, <2>5, <2>6 DEF RingInv
<1>12. CASE ResetFill
  <2>1. wr.pc = "resetFill" /\ UNCHANGED <<head, tail, rd, io, pushed, popped>>
    BY <1>12 DEF ResetFill
  <2>2. wr'.pc = "idle"
    BY <1>12 DEF ResetFill, IdleWrite
  <2>3. rd.pc # "copy"
    BY <1>2, <2>1 DEF NoLiveReset, Resetting
  <2>4. pushed = 0
    BY <1>2, <2>1 DEF CountersAgree, Resetting
  <2>5. popped..(pushed - 1) = {}
    BY <1>0, <2>4
  <2>6. CountersAgree'
    BY <1>2, <2>1, <2>2 DEF CountersAgree, Resetting
  <2>7. LocalsAgree' /\ NoLiveReset'
    BY <2>1, <2>2, <2>3 DEF LocalsAgree, NoLiveReset, Resetting
  <2>8. Contents'
    BY <2>1, <2>2, <2>5 DEF Contents
  <2> QED
    BY <1>1, <2>6, <2>7, <2>8 DEF RingInv
<1>13. CASE StartIO
  BY <1>1, <1>2, <1>13
     DEF StartIO, RingInv, CountersAgree, LocalsAgree, NoLiveReset, Contents, Resetting
<1>14. CASE StopIO
  <2>1. rd.pc = "idle" /\ io' = FALSE /\ UNCHANGED <<buf, head, tail, wr, rd, pushed, popped>>
    BY <1>14 DEF StopIO
  <2>2. CountersAgree' /\ LocalsAgree' /\ NoLiveReset' /\ Contents'
    BY <1>2, <2>1 DEF CountersAgree, LocalsAgree, NoLiveReset, Contents, Resetting
  <2> QED
    BY <1>1, <2>2 DEF RingInv
<1>15. CASE UNCHANGED vars
  BY <1>1, <1>2, <1>15
     DEF vars, RingInv, CountersAgree, LocalsAgree, NoLiveReset, Contents, Resetting
<1> QED
  BY <1>4, <1>5, <1>6, <1>7, <1>8, <1>9, <1>10, <1>11, <1>12, <1>13, <1>14, <1>15
     DEF Next, Producer, Consumer

\* With no reset while IO runs the counters tell what is in the ring, and every
\* sample written and not read is in its slot (GLA_RingBuffer.h:16-60).
THEOREM RingInvariant ==
  ASSUME ~LiveReset
  PROVE  Spec => []RingInv
<1>1. Init => RingInv
  <2> SUFFICES ASSUME Init PROVE RingInv
    OBVIOUS
  <2>1. buf \in [Slots -> Nat] /\ dst \in Seq(Nat)
    BY DEF Init, Slots
  <2>2. TypeOK
    BY <2>1, IdleValues DEF Init, TypeOK
  <2>3. 0 = 0 % Wrap
    <3>1. 0 \in Int /\ 0 \in 0..(Wrap - 1) /\ 0 = 0 * Wrap + 0
      BY Sizes
    <3> QED
      BY <3>1, Sizes, UniqueRemainder
  <2>4. wr.pc = "idle" /\ rd.pc = "idle" /\ ~io /\ head = 0 /\ tail = 0 /\ pushed = 0 /\ popped = 0
    BY DEF Init, IdleWrite, IdleRead
  <2>5. CountersAgree
    BY <2>3, <2>4, Sizes DEF CountersAgree, Resetting
  <2>6. LocalsAgree /\ ReturnedAgrees /\ NoLiveReset /\ Contents
    BY <2>4 DEF LocalsAgree, ReturnedAgrees, NoLiveReset, Contents, Resetting
  <2> QED
    BY <2>2, <2>5, <2>6 DEF RingInv
<1>2. RingInv /\ [Next]_vars => RingInv'
  BY RingStep
<1> QED
  BY <1>1, <1>2, PTL DEF Spec

\* available() never claims more than the ring holds, however often the
\* counters have wrapped (GLA_RingBuffer.h:49-53).
THEOREM NeverMoreThanCapacity ==
  ASSUME ~LiveReset
  PROVE  Spec => []AvailableWithinCapacity
<1>1. RingInv => AvailableWithinCapacity
  <2> SUFFICES ASSUME RingInv, ~Resetting PROVE Available <= Capacity
    BY DEF AvailableWithinCapacity
  <2>1. Available \in 0..Capacity
    BY AvailableIsDifference DEF Resetting
  <2> QED
    BY <2>1, Sizes
<1> QED
  BY <1>1, RingInvariant, PTL

\* The producer and the consumer never touch the same slot at the same time:
\* no lock is needed (GLA_RingBuffer.h:7).
THEOREM DisjointSlots ==
  ASSUME ~LiveReset
  PROVE  Spec => []NoSharedSlot
<1>1. RingInv => NoSharedSlot
  <2> SUFFICES ASSUME RingInv, wr.pc = "copy", wr.i < wr.n, rd.pc = "copy", rd.i < rd.n
               PROVE  Slot(wr.h + wr.i) # Slot(rd.t + rd.i)
    BY DEF NoSharedSlot
  <2>1. /\ pushed \in Nat /\ popped \in Nat /\ wr.i \in Nat /\ wr.n \in Nat
        /\ rd.i \in Nat /\ rd.n \in Nat
    BY Parts DEF RingInv
  <2>2. /\ pushed - popped + wr.n <= Capacity /\ rd.n <= pushed - popped
    BY DEF RingInv, LocalsAgree
  <2>3. popped + rd.i \in Nat /\ pushed + wr.i \in Nat
    BY <2>1
  <2>4. popped + rd.i < pushed + wr.i /\ (pushed + wr.i) - (popped + rd.i) < Capacity
    BY <2>1, <2>2, Sizes
  <2>5. Slot(popped + rd.i) # Slot(pushed + wr.i)
    BY <2>3, <2>4, RoomIsDisjoint
  <2> QED
    BY <2>5, CopySlots
<1> QED
  BY <1>1, RingInvariant, PTL

-----------------------------------------------------------------------------
(* The ring is a SampleQueue                                               *)

\* What the queue holds, and what a read in progress will return.
Stream(from, count) == [k \in 1..count |-> from + k]

QueueView ==
  /\ Held \in Nat /\ pushed \in Nat /\ popped \in Nat
  /\ wr.pc = "resetTail" => Queue = << >>
  /\ wr.pc # "resetTail" => /\ pushed - popped - Held \in Nat
                            /\ Queue = Stream(popped + Held, pushed - popped - Held)

ReadView == rd.pc = "copy" =>
  Read = [k \in 1..rd.frames |->
            IF k <= rd.i THEN dst[k] ELSE IF k <= rd.n THEN popped + k ELSE 0]

LEMMA Views == RingInv => QueueView /\ ReadView
<1> SUFFICES ASSUME RingInv PROVE QueueView /\ ReadView
  OBVIOUS
<1>0. /\ rd.n \in Nat /\ rd.i \in Nat /\ rd.frames \in Nat /\ pushed \in Nat /\ popped \in Nat
      /\ Held \in Nat
  BY Parts DEF RingInv, Held
<1>1. CASE wr.pc = "resetTail"
  <2>1. rd.pc # "copy"
    BY <1>1 DEF RingInv, NoLiveReset, Resetting
  <2> QED
    BY <1>0, <1>1, <2>1 DEF QueueView, ReadView, Queue
<1>2. CASE wr.pc # "resetTail"
  <2>1. Available = pushed - popped
    BY <1>2, AvailableIsDifference
  <2>2. /\ popped <= pushed /\ tail = popped % Wrap
        /\ rd.pc = "copy" => rd.t = tail /\ rd.n <= pushed - popped
        /\ rd.pc = "copy" => wr.pc # "resetFill"
        /\ wr.pc = "resetFill" => pushed = 0
    BY <1>2 DEF RingInv, CountersAgree, LocalsAgree, NoLiveReset, Resetting
  <2>3. pushed - popped - Held \in Nat
    BY <1>0, <2>2 DEF Held
  <2>4. ASSUME NEW j \in Nat, popped + j < pushed
        PROVE  buf[Slot(tail + j)] = popped + j + 1
    <3>1. Slot(tail + j) = Slot(popped + j)
      BY <1>0, <2>2, SlotOfCounter
    <3>2. popped + j \in popped..(pushed - 1)
      BY <1>0, <2>4
    <3>3. wr.pc \in {"idle", "copy"}
      <4>1. pushed # 0
        BY <1>0, <2>4
      <4> QED
        BY <1>2, <2>2, <4>1 DEF RingInv, TypeOK, Writer
    <3> QED
      BY <3>1, <3>2, <3>3 DEF RingInv, Contents
  <2>5. Queue = Stream(popped + Held, pushed - popped - Held)
    <3>1. ASSUME NEW k \in 1..(pushed - popped - Held)
          PROVE  buf[Slot(tail + Held + k - 1)] = (popped + Held) + k
      <4>1. Held + k - 1 \in Nat /\ popped + (Held + k - 1) < pushed
        BY <1>0, <2>3, <3>1
      <4>2. buf[Slot(tail + (Held + k - 1))] = popped + (Held + k - 1) + 1
        BY <2>4, <4>1
      <4>3. tail + Held + k - 1 = tail + (Held + k - 1)
        BY <1>0, Parts DEF RingInv
      <4> QED
        BY <1>0, <4>2, <4>3
    <3> QED
      BY <1>2, <2>1, <3>1 DEF Queue, Stream
  <2>6. ReadView
    <3> SUFFICES ASSUME rd.pc = "copy", NEW k \in 1..rd.frames, ~(k <= rd.i), k <= rd.n
                 PROVE  buf[Slot(rd.t + k - 1)] = popped + k
      BY DEF ReadView, Read
    <3>1. k - 1 \in Nat /\ popped + (k - 1) < pushed
      BY <1>0, <2>2
    <3>2. buf[Slot(tail + (k - 1))] = popped + (k - 1) + 1
      BY <2>4, <3>1
    <3>3. rd.t + k - 1 = tail + (k - 1)
      BY <1>0, <2>2, Parts DEF RingInv
    <3> QED
      BY <1>0, <3>2, <3>3
  <2> QED
    BY <1>0, <1>2, <2>3, <2>5, <2>6 DEF QueueView
<1> QED
  BY <1>1, <1>2

LEMMA StreamLength ==
  ASSUME NEW from \in Nat, NEW m \in Nat
  PROVE  Stream(from, m) \in Seq(Nat) /\ Len(Stream(from, m)) = m
  BY DEF Stream

\* Streams laid end to end, and the rest of one.
LEMMA StreamParts ==
  ASSUME NEW from \in Nat, NEW m \in Nat, NEW n \in Nat
  PROVE  /\ Len(Stream(from, m)) = m
         /\ Stream(from, m) \o Stream(from + m, n) = Stream(from, m + n)
         /\ n <= m => SubSeq(Stream(from, m), n + 1, m) = Stream(from + n, m - n)
         /\ Stream(from, 0) = << >>
<1> DEFINE s == Stream(from, m)
           t == Stream(from + m, n)
<1>1. s \in Seq(Nat) /\ Len(s) = m /\ t \in Seq(Nat) /\ Len(t) = n
  BY DEF Stream
<1>2. s \o t = Stream(from, m + n)
  <2>1. /\ s \o t \in Seq(Nat) /\ Len(s \o t) = m + n
        /\ \A k \in 1..(m + n) : (s \o t)[k] = IF k <= m THEN s[k] ELSE t[k - m]
    <3> HIDE DEF s, t
    <3>1. /\ s \o t \in Seq(Nat) /\ Len(s \o t) = Len(s) + Len(t)
          /\ \A k \in 1..(Len(s) + Len(t)) :
               (s \o t)[k] = IF k <= Len(s) THEN s[k] ELSE t[k - Len(s)]
      BY <1>1, ConcatProperties, Zenon
    <3> QED
      BY <1>1, <3>1, Zenon
  <2>2. ASSUME NEW k \in 1..(m + n)
        PROVE  (s \o t)[k] = from + k
    <3>1. CASE k <= m
      BY <2>1, <3>1 DEF Stream
    <3>2. CASE ~(k <= m)
      <4>1. k - m \in 1..n /\ (from + m) + (k - m) = from + k
        BY <3>2
      <4> QED
        BY <2>1, <3>2, <4>1 DEF Stream
    <3> QED
      BY <3>1, <3>2
  <2>3. Stream(from, m + n) \in Seq(Nat) /\ Len(Stream(from, m + n)) = m + n
    BY DEF Stream
  <2>4. \A k \in 1..(m + n) : Stream(from, m + n)[k] = from + k
    BY DEF Stream
  <2> HIDE DEF s, t
  <2> QED
    BY <2>1, <2>2, <2>3, <2>4, SeqEqual
<1>3. ASSUME n <= m
      PROVE  SubSeq(s, n + 1, m) = Stream(from + n, m - n)
  <2>1. m - n \in Nat
    BY <1>3
  <2>2. SubSeq(s, n + 1, m) = [k \in 1..(m - n) |-> s[n + 1 + k - 1]]
    BY <1>1, <1>3
  <2>3. \A k \in 1..(m - n) : s[n + 1 + k - 1] = (from + n) + k
    BY <1>3 DEF Stream
  <2> QED
    BY <2>2, <2>3 DEF Stream
<1>4. Stream(from, 0) = << >>
  BY DEF Stream
<1> QED
  BY <1>1, <1>2, <1>3, <1>4

\* Every step of the two threads is a step of the queue, or none.
LEMMA QueueStep ==
  ASSUME ~LiveReset, RingInv, RingInv', [Next]_vars
  PROVE  [Q!Next]_(Q!state)
<1> DEFINE reserved == IF wr.pc = "copy" THEN wr.n ELSE 0
<1>0. /\ wr.n \in Nat /\ rd.n \in Nat /\ rd.i \in Nat /\ rd.frames \in Nat
      /\ pushed \in Nat /\ popped \in Nat /\ Capacity \in Nat
  BY Parts, Sizes DEF RingInv
<1>1. wr \in Writer /\ rd \in Reader /\ dst \in Seq(Nat)
  BY DEF RingInv, TypeOK
<1>2. QueueView /\ ReadView
  BY Views
<1>3. QueueView' /\ ReadView'
  BY Views, PTL
<1>4. ASSUME wr.pc # "resetTail"
      PROVE  /\ Len(Queue) = pushed - popped - Held /\ Available = pushed - popped
             /\ Queue = Stream(popped + Held, pushed - popped - Held)
  <2>1. Len(Stream(popped + Held, pushed - popped - Held)) = pushed - popped - Held
    <3>1. popped + Held \in Nat /\ pushed - popped - Held \in Nat
      BY <1>0, <1>2, <1>4 DEF QueueView
    <3> QED
      BY <3>1, StreamLength, Zenon
  <2> QED
    BY <1>2, <1>4, <2>1, AvailableIsDifference DEF QueueView
<1>5. CASE WriteBegin
  <2>1. PICK frames \in 0..MaxFrames :
          wr' = [pc |-> "copy", h |-> head, n |-> Least(frames, Minus(Capacity, Available)), i |-> 0]
    BY <1>5 DEF WriteBegin
  <2>2. wr.pc = "idle" /\ UNCHANGED <<buf, head, tail, rd, dst, io, pushed, popped>>
    BY <1>5 DEF WriteBegin
  <2>3. Available \in 0..Capacity
    BY <2>2, AvailableIsDifference
  <2>4. Minus(Capacity, Available) = Capacity - Len(Queue) - Held
    <3>1. Minus(Capacity, Available) = Capacity - Available
      BY <2>3, RoomIsDifference
    <3>2. Available = Len(Queue) + Held /\ Len(Queue) \in Int /\ Held \in Nat
      BY <1>0, <1>2, <1>4, <2>2 DEF QueueView
    <3> QED
      BY <1>0, <3>1, <3>2
  <2>5. Held' = Held /\ Read' = Read
    BY <2>2 DEF Held, Read
  <2>6. Queue' = Queue
    BY <1>2, <1>3, <2>1, <2>2, <2>5 DEF QueueView
  <2>7. reserved = 0 /\ reserved' = Q!Smaller(frames, Capacity - Len(Queue) - Held)
    BY <2>1, <2>2, <2>4 DEF Q!Smaller, Least
  <2>8. Q!Reserve
    BY <2>2, <2>5, <2>6, <2>7 DEF Q!Reserve
  <2> QED
    BY <2>8 DEF Q!Next
<1>6. CASE WriteSample
  <2>1. wr.pc = "copy" /\ wr' = [wr EXCEPT !.i = wr.i + 1]
        /\ UNCHANGED <<head, tail, rd, dst, io, pushed, popped>>
    BY <1>6 DEF WriteSample
  <2>2. wr'.pc = "copy" /\ wr'.n = wr.n
    BY <1>1, <2>1 DEF Writer
  <2>3. Held' = Held
    BY <2>1 DEF Held
  <2>4. Queue' = Queue
    BY <1>2, <1>3, <2>1, <2>2, <2>3 DEF QueueView
  <2>5. Read' = Read
    <3>1. CASE rd.pc = "copy"
      BY <1>2, <1>3, <2>1, <3>1 DEF ReadView
    <3>2. CASE rd.pc = "idle"
      BY <2>1, <3>2 DEF Read
    <3> QED
      BY <1>1, <3>1, <3>2 DEF Reader
  <2> QED
    BY <2>1, <2>2, <2>3, <2>4, <2>5 DEF Q!state
<1>7. CASE WritePublish
  <2>1. wr.pc = "copy" /\ wr' = IdleWrite /\ pushed' = pushed + wr.n
        /\ UNCHANGED <<buf, tail, rd, dst, io, popped>>
    BY <1>7 DEF WritePublish
  <2>2. wr'.pc = "idle" /\ Held' = Held /\ Read' = Read
    BY <2>1 DEF IdleWrite, Held, Read
  <2>3. Queue' = Stream(popped + Held, (pushed + wr.n) - popped - Held)
    <3>1. Queue' = Stream(popped' + Held', pushed' - popped' - Held')
      BY <1>3, <2>2 DEF QueueView
    <3> QED
      BY <2>1, <2>2, <3>1, Zenon
  <2>4. Queue = Stream(popped + Held, pushed - popped - Held)
    BY <1>2, <2>1 DEF QueueView
  <2>5. Queue' = Queue \o Stream(pushed, wr.n)
    <3>1. /\ popped + Held \in Nat /\ pushed - popped - Held \in Nat
          /\ (popped + Held) + (pushed - popped - Held) = pushed
          /\ (pushed - popped - Held) + wr.n = (pushed + wr.n) - popped - Held
      BY <1>0, <1>2, <2>1 DEF QueueView
    <3> DEFINE from == popped + Held
               m    == pushed - popped - Held
    <3>2. Stream(from, m) \o Stream(from + m, wr.n) = Stream(from, m + wr.n)
      <4>1. \A a, b, c \in Nat : Stream(a, b) \o Stream(a + b, c) = Stream(a, b + c)
        BY StreamParts
      <4>2. from \in Nat /\ m \in Nat /\ wr.n \in Nat
        BY <1>0, <3>1
      <4> HIDE DEF from, m
      <4> QED
        BY <4>1, <4>2, Zenon
    <3> QED
      BY <2>3, <2>4, <3>1, <3>2, Zenon
  <2>6. Q!Put
    BY <2>1, <2>2, <2>5 DEF Q!Put, Stream
  <2> QED
    BY <2>6 DEF Q!Next
<1>8. CASE ReadBegin
  <2>1. PICK frames \in 0..MaxFrames :
          rd' = [pc |-> "copy", t |-> tail, n |-> Least(Available, frames), i |-> 0,
                 frames |-> frames]
    BY <1>8 DEF ReadBegin
  <2>2. rd.pc = "idle" /\ io /\ UNCHANGED <<buf, head, tail, wr, io, pushed, popped>>
    BY <1>8 DEF ReadBegin
  <2>3. wr.pc # "resetTail"
    BY <2>2 DEF RingInv, NoLiveReset, Resetting
  <2>4. Held = 0 /\ Held' = Least(Available, frames) /\ reserved' = reserved
    BY <2>1, <2>2 DEF Held
  <2>5. Available = Len(Queue) /\ Queue = Stream(popped, Len(Queue)) /\ Len(Queue) \in Nat
    BY <1>0, <1>2, <1>4, <2>3, <2>4 DEF QueueView
  <2>6. Held' = Q!Smaller(frames, Len(Queue)) /\ Held' \in Nat /\ Held' <= Len(Queue)
    BY <1>0, <2>4, <2>5, Sizes DEF Q!Smaller, Least
  <2>7. Queue' = Stream(popped + Held', Len(Queue) - Held')
    <3>1. Queue' = Stream(popped' + Held', pushed' - popped' - Held')
      BY <1>3, <2>2, <2>3 DEF QueueView
    <3>2. Len(Queue) = pushed - popped
      BY <1>0, <1>2, <1>4, <2>3, <2>4 DEF QueueView
    <3> QED
      BY <2>2, <3>1, <3>2, Zenon
  <2>8. Queue' = SubSeq(Queue, Held' + 1, Len(Queue))
    <3>1. SubSeq(Stream(popped, Len(Queue)), Held' + 1, Len(Queue))
            = Stream(popped + Held', Len(Queue) - Held')
      <4>1. \A a, b, c \in Nat :
              c <= b => SubSeq(Stream(a, b), c + 1, b) = Stream(a + c, b - c)
        BY StreamParts
      <4>2. Len(Queue) \in Nat /\ Held' \in Nat /\ Held' <= Len(Queue)
        BY <2>5, <2>6
      <4> QED
        BY <1>0, <4>1, <4>2, Zenon
    <3> QED
      BY <2>5, <2>7, <3>1, Zenon
  <2>9. Read' = [k \in 1..frames |-> IF k <= Held' THEN Queue[k] ELSE 0]
    <3>1. Read' = [k \in 1..frames |->
                     IF k <= 0 THEN dst'[k] ELSE IF k <= Held' THEN popped + k ELSE 0]
      BY <1>3, <2>1, <2>2, <2>4 DEF ReadView
    <3>2. \A k \in 1..frames : k <= Held' => Queue[k] = popped + k
      BY <2>5, <2>6 DEF Stream
    <3> QED
      BY <3>1, <3>2
  <2>10. Q!Take
    BY <2>2, <2>4, <2>6, <2>8, <2>9 DEF Q!Take
  <2> QED
    BY <2>10 DEF Q!Next
<1>9. CASE ReadSample
  <2>1. rd.pc = "copy" /\ rd.i < rd.n /\ rd' = [rd EXCEPT !.i = rd.i + 1]
        /\ dst' = Append(dst, buf[Slot(rd.t + rd.i)])
        /\ UNCHANGED <<buf, head, tail, wr, io, pushed, popped>>
    BY <1>9 DEF ReadSample
  <2>2. rd'.pc = "copy" /\ rd'.n = rd.n /\ rd'.i = rd.i + 1 /\ rd'.frames = rd.frames
    BY <1>1, <2>1 DEF Reader
  <2>3. Held' = Held /\ reserved' = reserved
    BY <2>1, <2>2 DEF Held
  <2>4. Queue' = Queue
    BY <1>2, <1>3, <2>1, <2>3 DEF QueueView
  <2>5. Read' = Read
    <3>1. Len(dst) = rd.i
      BY <2>1 DEF RingInv, ReturnedAgrees
    <3>2. rd.t + rd.i = rd.t + (rd.i + 1) - 1 /\ rd.i + 1 \in 1..rd.frames
      <4>1. rd.t \in Int
        BY Parts DEF RingInv
      <4>2. rd.n <= rd.frames
        BY <2>1 DEF RingInv, ReturnedAgrees
      <4> QED
        <5>1. rd.t + rd.i = rd.t + (rd.i + 1) - 1
          BY <1>0, <4>1
        <5>2. rd.i + 1 \in Nat /\ rd.i + 1 >= 1 /\ rd.i + 1 <= rd.frames
          BY <1>0, <2>1, <4>2
        <5> QED
          BY <1>0, <5>1, <5>2
    <3>3. buf[Slot(rd.t + rd.i)] = Read[rd.i + 1]
      BY <1>0, <2>1, <3>2 DEF Read
    <3>4. Read[rd.i + 1] = popped + (rd.i + 1)
      BY <1>0, <1>2, <2>1, <3>2 DEF ReadView
    <3>5. \A k \in 1..(rd.i + 1) : dst'[k] = IF k <= rd.i THEN dst[k] ELSE popped + k
      BY <1>0, <1>1, <2>1, <3>1, <3>3, <3>4
    <3>6. Read = [k \in 1..rd.frames |->
                    IF k <= rd.i THEN dst[k] ELSE IF k <= rd.n THEN popped + k ELSE 0]
      BY <1>2, <2>1 DEF ReadView
    <3>7. Read' = [k \in 1..rd.frames |->
                     IF k <= rd.i + 1 THEN dst'[k] ELSE IF k <= rd.n THEN popped + k ELSE 0]
      BY <1>3, <2>1, <2>2 DEF ReadView
    <3>8. ASSUME NEW k \in 1..rd.frames
          PROVE  (IF k <= rd.i + 1 THEN dst'[k] ELSE IF k <= rd.n THEN popped + k ELSE 0)
                 = IF k <= rd.i THEN dst[k] ELSE IF k <= rd.n THEN popped + k ELSE 0
      <4>1. k <= rd.i + 1 => k \in 1..(rd.i + 1) /\ k <= rd.n
        BY <1>0, <2>1
      <4> QED
        BY <1>0, <3>5, <4>1
    <3> QED
      BY <3>6, <3>7, <3>8
  <2> QED
    BY <2>1, <2>3, <2>4, <2>5 DEF Q!state
<1>10. CASE ReadRelease
  <2>1. rd.pc = "copy" /\ rd.i = rd.n /\ rd' = IdleRead /\ popped' = popped + rd.n
        /\ dst' = dst \o [k \in 1..(rd.frames - rd.n) |-> 0]
        /\ UNCHANGED <<buf, head, wr, io, pushed>>
    BY <1>10 DEF ReadRelease
  <2>2. rd'.pc = "idle" /\ Held' = 0 /\ Held = rd.n /\ reserved' = reserved
    BY <2>1 DEF IdleRead, Held
  <2>3. wr.pc # "resetTail"
    BY <2>1 DEF RingInv, NoLiveReset, Resetting
  <2>4. Queue' = Queue
    BY <1>0, <1>2, <1>3, <2>1, <2>2, <2>3 DEF QueueView
  <2>5. Read' = Read
    <3>1. Len(dst) = rd.n /\ rd.frames - rd.n \in Nat
      BY <1>0, <2>1 DEF RingInv, ReturnedAgrees
    <3> DEFINE pad == [k \in 1..(rd.frames - rd.n) |-> 0]
    <3>2. pad \in Seq(Nat) /\ Len(pad) = rd.frames - rd.n
      BY <3>1
    <3>3. \A k \in 1..(rd.frames - rd.n) : pad[k] = 0
      OBVIOUS
    <3> HIDE DEF pad
    <3>4. /\ dst \o pad \in Seq(Nat) /\ Len(dst \o pad) = rd.frames
          /\ \A k \in 1..rd.frames : (dst \o pad)[k] = IF k <= rd.n THEN dst[k] ELSE pad[k - rd.n]
      <4>1. Len(dst) + Len(pad) = rd.frames
        BY <1>0, <3>1, <3>2
      <4> QED
        <5>1. /\ dst \o pad \in Seq(Nat) /\ Len(dst \o pad) = Len(dst) + Len(pad)
              /\ \A k \in 1..(Len(dst) + Len(pad)) :
                   (dst \o pad)[k] = IF k <= Len(dst) THEN dst[k] ELSE pad[k - Len(dst)]
          BY <1>1, <3>2, ConcatProperties, Zenon
        <5> QED
          BY <3>1, <4>1, <5>1, Zenon
    <3>5. \A k \in 1..rd.frames : (dst \o pad)[k] = IF k <= rd.n THEN dst[k] ELSE 0
      <4>1. ASSUME NEW k \in 1..rd.frames, ~(k <= rd.n)
            PROVE  pad[k - rd.n] = 0
        <5>1. k - rd.n \in 1..(rd.frames - rd.n)
          BY <1>0, <3>1, <4>1
        <5> QED
          BY <3>3, <5>1, Zenon
      <4> QED
        BY <3>4, <4>1, Zenon
    <3>6. dst \o pad = [k \in 1..rd.frames |-> IF k <= rd.n THEN dst[k] ELSE 0]
      <4> DEFINE all == dst \o pad
                 res == [k \in 1..rd.frames |-> IF k <= rd.n THEN dst[k] ELSE 0]
      <4>1. \A k \in 1..rd.frames : res[k] = all[k] /\ all[k] \in Nat
        BY <3>4, <3>5
      <4>2. res \in [1..rd.frames -> Nat]
        BY <4>1
      <4>3. res \in Seq(Nat) /\ Len(res) = rd.frames
        BY <1>0, <4>2
      <4> HIDE DEF all, res
      <4>4. all \in Seq(Nat) /\ Len(all) = rd.frames
        BY <3>4 DEF all
      <4>5. all = res
        BY <4>1, <4>3, <4>4, SeqEqual
      <4> QED
        BY <4>5 DEF all, res
    <3>7. Read = [k \in 1..rd.frames |-> IF k <= rd.n THEN dst[k] ELSE 0]
      BY <2>1 DEF Read
    <3> QED
      BY <2>1, <2>2, <3>6, <3>7 DEF Read, pad
  <2>6. Q!Free
    BY <2>1, <2>2, <2>4, <2>5 DEF Q!Free
  <2> QED
    BY <2>6 DEF Q!Next
<1>11. CASE ResetHead
  <2>1. wr.pc = "idle" /\ ~io /\ pushed' = 0 /\ wr' = [IdleWrite EXCEPT !.pc = "resetTail"]
        /\ UNCHANGED <<buf, tail, rd, dst, io, popped>>
    BY <1>11 DEF ResetHead
  <2>2. wr'.pc = "resetTail" /\ rd.pc # "copy"
    BY <2>1 DEF IdleWrite, RingInv, NoLiveReset
  <2>3. Queue' = << >> /\ Held = 0 /\ Held' = 0 /\ rd.pc = "idle"
    BY <1>1, <2>1, <2>2 DEF Queue, Held, Reader
  <2>4. Q!Clear
    BY <2>1, <2>2, <2>3 DEF Q!Clear, Read
  <2> QED
    BY <2>4 DEF Q!Next
<1>12. CASE ResetTail \/ ResetFill
  <2>1. /\ Resetting /\ pushed = 0 /\ UNCHANGED <<rd, dst, io, pushed>>
        /\ wr'.pc \in {"resetFill", "idle"} /\ wr.pc # "copy"
        /\ wr.pc = "resetFill" => popped' = popped
        /\ wr.pc = "resetTail" => popped' = 0
    BY <1>1, <1>12 DEF ResetTail, ResetFill, Resetting, RingInv, CountersAgree, Writer, IdleWrite
  <2>2. rd.pc = "idle" /\ rd'.pc = "idle"
    BY <1>1, <2>1 DEF RingInv, NoLiveReset, Reader
  <2>3. Held = 0 /\ Held' = 0 /\ Read' = Read
    BY <2>1, <2>2 DEF Held, Read
  <2>4. Queue' = << >>
    <3>1. pushed' - popped' - Held' \in Nat /\ pushed' = 0 /\ Held' = 0 /\ popped' \in Nat
      BY <1>3, <2>1, <2>3 DEF QueueView
    <3>2. pushed' - popped' - Held' = 0 /\ popped' + Held' \in Nat
      <4>1. \A a, b, c : a - b - c \in Nat /\ a = 0 /\ c = 0 /\ b \in Nat =>
                           a - b - c = 0 /\ b + c \in Nat
        OBVIOUS
      <4> QED
        BY <3>1, <4>1, Zenon
    <3>3. Queue' = Stream(popped' + Held', pushed' - popped' - Held')
      BY <1>3, <2>1 DEF QueueView
    <3> QED
      BY <3>2, <3>3, StreamParts
  <2>5. Queue = << >>
    <3>1. CASE wr.pc = "resetTail"
      BY <3>1 DEF Queue
    <3>2. CASE wr.pc = "resetFill"
      <4>1. pushed - popped - Held = 0 /\ popped + Held \in Nat
        BY <1>0, <1>2, <2>1, <2>3, <3>2 DEF QueueView
      <4> QED
        BY <1>2, <3>2, <4>1, StreamParts DEF QueueView
    <3> QED
      BY <2>1, <3>1, <3>2 DEF Resetting
  <2> QED
    BY <2>1, <2>3, <2>4, <2>5 DEF Q!state
<1>13. CASE UNCHANGED <<buf, head, tail, wr, rd, dst, pushed, popped>>
  BY <1>13 DEF Q!state, Queue, Held, Read, Available
<1> QED
  BY <1>5, <1>6, <1>7, <1>8, <1>9, <1>10, <1>11, <1>12, <1>13
  DEF Next, Producer, Consumer, StartIO, StopIO, vars

\* With no reset while IO runs, the ring implements a SampleQueue: a read returns
\* the samples that were there when it began, each once, in order, then silence,
\* and a write adds as much as fits (GLA_RingBuffer.h:16-60).
THEOREM ImplementsQueue ==
  ASSUME ~LiveReset
  PROVE  Spec => IsSampleQueue
<1>1. Init => Q!Init
  <2> SUFFICES ASSUME Init PROVE Q!Init
    OBVIOUS
  <2>1. /\ wr.pc = "idle" /\ rd.pc = "idle" /\ dst = << >> /\ head = 0 /\ tail = 0 /\ pushed = 0
    BY DEF Init, IdleWrite, IdleRead
  <2>2. Available = 0
    <3>1. (0 - 0) % Wrap = 0
      <4>1. 0 \in Int /\ 0 \in 0..(Wrap - 1) /\ 0 = 0 * Wrap + 0 /\ 0 - 0 = 0
        BY Sizes
      <4> QED
        BY <4>1, Sizes, UniqueRemainder
    <3> QED
      BY <2>1, <3>1 DEF Available, Minus
  <2>3. Queue = << >>
    BY <2>1, <2>2 DEF Queue, Held
  <2> QED
    BY <2>1, <2>3 DEF Q!Init, Held, Read
<1>2. RingInv /\ RingInv' /\ [Next]_vars => [Q!Next]_(Q!state)
  BY QueueStep
<1> QED
  BY <1>1, <1>2, RingInvariant, PTL DEF Spec, IsSampleQueue, Q!Spec
=============================================================================
