----------------------------- MODULE DriverProofs -----------------------------
(***************************************************************************)
(* Theorems about Driver and, at the end, about Injector, the driver with  *)
(* the app that feeds it: for any set of maps, any rates and any bounds.   *)
(***************************************************************************)
EXTENDS Injector, TLAPS

USE MapsAssumption, RatesAssumption, BoundsAssumption

\* A function on 1..n is a sequence of length n.
LEMMA FunctionIsSequence ==
  ASSUME NEW S, NEW n \in Nat
  PROVE  /\ [1..n -> S] \subseteq Seq(S)
         /\ \A f \in [1..n -> S] : Len(f) = n
  OBVIOUS

\* What the operations on the device return, and how many FIFOs it then has.
LEMMA DeviceOperations ==
  ASSUME NEW d \in Device, NEW m \in Seq(Nat), NEW k \in Nat
  PROVE  /\ MakeDevice(m, k) \in Device /\ RingCount(MakeDevice(m, k)) = Len(m)
         /\ WithEntries(d, m) \in Device
         /\ SwapInEntries(d, m) \in Device
         /\ SwapInRings(d, m, k) \in Device /\ RingCount(SwapInRings(d, m, k)) = Len(m)
         /\ SwapInHandler(d) \in Device
         /\ NoDevice \in Device
         /\ RingCount(d) \in Nat
<1>1. NewRates(Len(m)) \in [1..Len(m) -> Nat]
  BY DEF NewRates
<1>2. NewRates(Len(m)) \in Seq(Nat) /\ Len(NewRates(Len(m))) = Len(m)
  BY <1>1, FunctionIsSequence
<1>3. << >> \in Seq(Nat)
  OBVIOUS
<1>4. MakeDevice(m, k) \in Device /\ RingCount(MakeDevice(m, k)) = Len(m)
  BY <1>2 DEF Device, MakeDevice, RingCount
<1>5. WithEntries(d, m) \in Device /\ SwapInEntries(d, m) \in Device
  BY DEF Device, WithEntries, SwapInEntries
<1>6. SwapInRings(d, m, k) \in Device /\ RingCount(SwapInRings(d, m, k)) = Len(m)
  BY <1>2 DEF Device, SwapInRings, RingCount
<1>7. SwapInHandler(d) \in Device
  BY DEF Device, SwapInHandler
<1>9. RingCount(d) \in Nat
  BY DEF Device, RingCount
<1>8. NoDevice \in Device
  BY <1>3 DEF Device, NoDevice, NoMap
<1> QED
  BY <1>4, <1>5, <1>6, <1>7, <1>8, <1>9

\* The table built for a device and a map is a table of FIFO pointers.
LEMMA TableType ==
  ASSUME NEW d \in Device, NEW m \in Seq(Nat)
  PROVE  /\ TableFor(d, m) \in Seq(Pointer)
         /\ Len(TableFor(d, m)) = Len(m)
         /\ DOMAIN TableFor(d, m) = 1..Len(m)
<1>1. \A i \in 1..Len(m) : GetChannelFIFO(d, i) \in Pointer
  BY DEF GetChannelFIFO, Null, Device, Pointer
<1>2. TableFor(d, m) \in [1..Len(m) -> Pointer]
  BY <1>1 DEF TableFor
<1>3. Len(m) \in Nat
  OBVIOUS
<1> QED
  BY <1>2, <1>3, FunctionIsSequence

\* The rates handleAudioData leaves on a device.
LEMMA AudioRates ==
  ASSUME TypeOK, BeginAudio
  PROVE  /\ unifiedDevice' \in Device
         /\ RingCount(unifiedDevice') = RingCount(unifiedDevice)
         /\ unifiedDevice' = [unifiedDevice EXCEPT !.rates = unifiedDevice'.rates]
<1> DEFINE n == RingCount(unifiedDevice)
           r == unifiedDevice'.rates
<1>1. unifiedDevice \in Device /\ n \in Nat /\ lastAudioSourceRate' \in Nat
  BY DEF TypeOK, BeginAudio, RingCount, Device
<1>2. CASE lastAudioSourceRate' = lastAudioSourceRate
  BY <1>1, <1>2 DEF BeginAudio, Device
<1>3. CASE lastAudioSourceRate' # lastAudioSourceRate
  <2>1. /\ unifiedDevice' = [unifiedDevice EXCEPT !.rates = r]
        /\ r = [i \in 1..n |-> IF \E k \in DOMAIN slotFifos :
                                     slotFifos[k] = GetChannelFIFO(unifiedDevice, i)
                               THEN lastAudioSourceRate' ELSE unifiedDevice.rates[i]]
    BY <1>1, <1>3 DEF BeginAudio, Device
  <2>2. \A i \in 1..n : unifiedDevice.rates[i] \in Nat
    BY <1>1 DEF RingCount, Device
  <2>3. r \in [1..n -> Nat]
    BY <1>1, <2>1, <2>2
  <2>4. r \in Seq(Nat) /\ Len(r) = n
    BY <1>1, <2>3, FunctionIsSequence
  <2> QED
    BY <1>1, <2>1, <2>4 DEF Device, RingCount
<1> QED
  BY <1>2, <1>3

\* Taking the first element of a sequence leaves its last one, or is it.
LEMMA LastStays ==
  ASSUME NEW S, NEW s \in Seq(S), NEW r, s # << >>, r = Tail(s)
  PROVE  /\ r = << >> => Head(s) = s[Len(s)]
         /\ r # << >> => r[Len(r)] = s[Len(s)]
<1>1. Len(s) \in Nat \ {0} /\ Len(r) = Len(s) - 1 /\ r \in Seq(S)
  OBVIOUS
<1>2. r = << >> => Head(s) = s[Len(s)]
  <2>1. r = << >> => Len(r) = 0
    OBVIOUS
  <2>2. Len(r) = 0 => Len(s) = 1
    BY <1>1
  <2>3. Head(s) = s[1]
    OBVIOUS
  <2> QED
    BY <2>1, <2>2, <2>3
<1>3. r # << >> => r[Len(r)] = s[Len(s)]
  <2>1. r # << >> => Len(r) > 0
    BY <1>1
  <2>2. \A i \in 1..Len(r) : r[i] = s[i + 1]
    OBVIOUS
  <2> QED
    BY <1>1, <2>1, <2>2
<1> QED
  BY <1>2, <1>3

-----------------------------------------------------------------------------
\* What the variables start with, and restart with, has its type.
LEMMA StartValues ==
  /\ NoMap \in Seq(Nat) /\ Stub \in Seq(Nat) /\ NoDevice \in Device /\ IdleHal \in Change
  /\ << >> \in Seq(Pointer) /\ << >> \in Seq(Job)
<1>1. NoMap \in Seq(Nat) /\ Stub \in Seq(Nat)
  BY DEF NoMap, Stub
<1>2. NoDevice \in Device /\ IdleHal \in Change
  BY <1>1 DEF NoDevice, Device, NoMap, IdleHal, Change
<1> QED
  BY <1>1, <1>2

\* Every step of the driver keeps every variable in its type.
LEMMA TypeStep ==
  ASSUME TypeOK, [Next]_vars
  PROVE  TypeOK'
<1> USE DEF TypeOK, bounds
<1>0. alloc + 1 \in Nat
  OBVIOUS
<1>1. CASE Initialize
  <2>1. map' \in Seq(Nat)
    BY <1>1, StartValues DEF Initialize, BootMaps
  <2> QED
    BY <1>1, <2>1 DEF Initialize, BootMaps
<1>2. CASE ReceiveMap
  <2>1. map' \in Seq(Nat)
    BY <1>2 DEF ReceiveMap
  <2>2. Branch(map') \in {"save", "create", "remove", "update", "bump"}
    BY <1>2 DEF ReceiveMap, Branch
  <2> QED
    BY <1>2, <2>1, <2>2 DEF ReceiveMap
<1>3. CASE CreateDevice
  BY <1>0, <1>3, DeviceOperations DEF CreateDevice, Done
<1>4. CASE RemoveDevice
  BY <1>4 DEF RemoveDevice
<1>5. CASE ClearTable
  BY <1>5, StartValues DEF ClearTable
<1>6. CASE DropDevice
  BY <1>6, StartValues DEF DropDevice, Done, Change
<1>7. CASE UpdateEntries
  BY <1>7, DeviceOperations DEF UpdateEntries
<1>8. CASE BuildTable
  BY <1>8, TableType DEF BuildTable, Done
<1>9. CASE BumpGeneration
  BY <1>9 DEF BumpGeneration
<1>10. CASE RequestChange
  BY <1>10 DEF RequestChange, Done, Job
<1>11. CASE SaveMap
  BY <1>11 DEF SaveMap
<1>12. CASE BeginAudio
  <2>1. lastAudioSourceRate' \in Nat
    BY <1>12 DEF BeginAudio
  <2> QED
    BY <1>12, <2>1, AudioRates DEF BeginAudio
<1>13. CASE EndAudio
  BY <1>13 DEF EndAudio
<1>14. CASE SwapEntries
  <2>1. Head(pending) \in Job /\ Tail(pending) \in Seq(Job)
    BY <1>14 DEF SwapEntries
  <2>2. hal' \in Change
    BY <1>14, <2>1 DEF SwapEntries, Job, Change
  <2>3. unifiedDevice' \in Device
    BY <1>14, <2>1, DeviceOperations DEF SwapEntries, Job
  <2> QED
    BY <1>14, <2>1, <2>2, <2>3 DEF SwapEntries
<1>15. CASE SwapRings
  <2>1. hal.entries \in Seq(Nat) /\ hal' \in Change
    BY <1>15 DEF SwapRings, Change
  <2> QED
    BY <1>0, <1>15, <2>1, DeviceOperations DEF SwapRings, OnDevice
<1>16. CASE SwapHandler
  BY <1>16, DeviceOperations DEF SwapHandler, OnDevice, Change
<1>17. CASE CheckGeneration
  BY <1>17, StartValues DEF CheckGeneration, Change
<1>18. CASE PublishTable
  <2>1. hal.entries \in Seq(Nat)
    BY DEF Change
  <2> QED
    BY <1>18, <2>1, TableType, StartValues DEF PublishTable
<1>19. CASE Restart
  <2>1. map' \in Seq(Nat) /\ saved' \in Seq(Nat) /\ unifiedDevice' \in Device /\ hal' \in Change
    BY <1>19, StartValues DEF Restart
  <2>2. slotFifos' \in Seq(Pointer) /\ pending' \in Seq(Job)
    BY <1>19, StartValues DEF Restart
  <2>3. /\ reconfigGeneration' \in Nat /\ lastAudioSourceRate' \in Nat
        /\ alloc' \in Nat /\ received' \in Nat /\ restarts' \in Nat
    BY <1>19 DEF Restart
  <2>4. pc' = "boot" /\ persist' \in BOOLEAN
    BY <1>19 DEF Restart
  <2> QED
    BY <2>1, <2>2, <2>3, <2>4
<1>20. CASE UNCHANGED vars
  BY <1>20 DEF vars
<1> QED
  BY <1>1, <1>2, <1>3, <1>4, <1>5, <1>6, <1>7, <1>8, <1>9, <1>10, <1>11, <1>12, <1>13,
     <1>14, <1>15, <1>16, <1>17, <1>18, <1>19, <1>20 DEF Next, Apply, Perform

LEMMA InitType ==
  ASSUME Init
  PROVE  TypeOK
<1>1. map \in Seq(Nat) /\ saved \in Seq(Nat) /\ unifiedDevice \in Device /\ hal \in Change
  BY StartValues DEF Init
<1>2. slotFifos \in Seq(Pointer) /\ pending \in Seq(Job)
  BY StartValues DEF Init
<1> QED
  BY <1>1, <1>2 DEF Init, TypeOK

\* The driver is type-correct, at any pace of maps.
THEOREM TypeCorrect == Spec => []TypeOK
<1>1. Init => TypeOK
  BY InitType
<1>2. TypeOK /\ [Next]_vars => TypeOK'
  BY TypeStep
<1> QED
  BY <1>1, <1>2, PTL DEF Spec

-----------------------------------------------------------------------------
\* With paced maps every step keeps the inductive invariant.
LEMMA PacedStep ==
  ASSUME Paced, PacedInv, [Next]_vars
  PROVE  PacedInv'
<1> USE DEF DevicePresent, Real, bounds
<1>0. TypeOK /\ TypeOK'
  BY TypeStep DEF PacedInv
<1>1. CASE Initialize
  <2>1. OneChange'
    BY <1>0, <1>1 DEF Initialize, BootMaps, Outstanding, PacedInv, OneChange
  <2>2. StepKnows'
    BY <1>0, <1>1 DEF Initialize, BootMaps, NoMap, Stub, Outstanding, PacedInv, OneChange,
       StepKnows, DeviceAgrees, TableOwned
  <2>3. DeviceAgrees'
    BY <1>0, <1>1 DEF Initialize, BootMaps, Outstanding, PacedInv, OneChange, DeviceAgrees
  <2>4. TableOwned'
    BY <1>0, <1>1 DEF Initialize, BootMaps, PacedInv, TableOwned
  <2>5. PathKept'
    BY <1>0, <1>1 DEF Initialize, BootMaps, PacedInv, PathKept
  <2> QED
    BY <1>0, <2>1, <2>2, <2>3, <2>4, <2>5 DEF PacedInv
<1>2. CASE ReceiveMap
  <2>1. OneChange'
    BY <1>0, <1>2 DEF ReceiveMap, Outstanding, PacedInv, OneChange
  <2>2. StepKnows'
    BY <1>0, <1>2 DEF ReceiveMap, Branch, PacedInv, StepKnows
  <2>3. DeviceAgrees'
    BY <1>0, <1>2 DEF ReceiveMap, Outstanding, PacedInv, DeviceAgrees
  <2>4. TableOwned'
    BY <1>0, <1>2 DEF ReceiveMap, PacedInv, TableOwned
  <2>5. PathKept'
    BY <1>0, <1>2 DEF ReceiveMap, Branch, PacedInv, PathKept
  <2> QED
    BY <1>0, <2>1, <2>2, <2>3, <2>4, <2>5 DEF PacedInv
<1>3. CASE CreateDevice
  <2>1. OneChange'
    BY <1>0, <1>3 DEF CreateDevice, Outstanding, PacedInv, OneChange
  <2>2. StepKnows'
    BY <1>0, <1>3 DEF CreateDevice, Done, MakeDevice, PacedInv, StepKnows, TypeOK
  <2>3. DeviceAgrees'
    BY <1>0, <1>3, DeviceOperations DEF CreateDevice, MakeDevice, PacedInv, StepKnows,
       DeviceAgrees, TypeOK
  <2>4. TableOwned'
    BY <1>0, <1>3 DEF CreateDevice, PacedInv, StepKnows, TableOwned
  <2>5. PathKept'
    BY <1>0, <1>3 DEF CreateDevice, MakeDevice, PathKept
  <2> QED
    BY <1>0, <2>1, <2>2, <2>3, <2>4, <2>5 DEF PacedInv
<1>4. CASE RemoveDevice
  <2>1. OneChange'
    BY <1>0, <1>4 DEF RemoveDevice, Outstanding, PacedInv, OneChange
  <2>2. StepKnows'
    BY <1>0, <1>4 DEF RemoveDevice, PacedInv, StepKnows
  <2>3. DeviceAgrees'
    BY <1>0, <1>4 DEF RemoveDevice, PacedInv, DeviceAgrees
  <2>4. TableOwned'
    BY <1>0, <1>4 DEF RemoveDevice, PacedInv, TableOwned
  <2>5. PathKept'
    BY <1>0, <1>4 DEF RemoveDevice, PacedInv, PathKept
  <2> QED
    BY <1>0, <2>1, <2>2, <2>3, <2>4, <2>5 DEF PacedInv
<1>5. CASE ClearTable
  <2>1. OneChange'
    BY <1>0, <1>5 DEF ClearTable, Outstanding, PacedInv, OneChange
  <2>2. StepKnows'
    BY <1>0, <1>5 DEF ClearTable, PacedInv, StepKnows
  <2>3. DeviceAgrees'
    BY <1>0, <1>5 DEF ClearTable, PacedInv, DeviceAgrees
  <2>4. TableOwned'
    BY <1>0, <1>5 DEF ClearTable, TableOwned
  <2>5. PathKept'
    BY <1>0, <1>5 DEF ClearTable, PacedInv, PathKept
  <2> QED
    BY <1>0, <2>1, <2>2, <2>3, <2>4, <2>5 DEF PacedInv
<1>6. CASE DropDevice
  <2>1. OneChange'
    BY <1>0, <1>6 DEF DropDevice, Outstanding, Change, PacedInv, OneChange, TypeOK
  <2>2. StepKnows'
    BY <1>0, <1>6 DEF DropDevice, Done, NoDevice, PacedInv, StepKnows
  <2>3. DeviceAgrees'
    BY <1>0, <1>6 DEF DropDevice, NoDevice, NoMap, RingCount, Outstanding, PacedInv,
       OneChange, StepKnows, DeviceAgrees
  <2>4. TableOwned'
    BY <1>0, <1>6 DEF DropDevice, PacedInv, StepKnows, TableOwned
  <2>5. PathKept'
    BY <1>0, <1>6 DEF DropDevice, NoDevice, PathKept
  <2> QED
    BY <1>0, <2>1, <2>2, <2>3, <2>4, <2>5 DEF PacedInv
<1>7. CASE UpdateEntries
  <2>1. OneChange'
    BY <1>0, <1>7 DEF UpdateEntries, Outstanding, PacedInv, OneChange
  <2>2. StepKnows'
    BY <1>0, <1>7 DEF UpdateEntries, WithEntries, PacedInv, StepKnows, DeviceAgrees
  <2>3. DeviceAgrees'
    BY <1>0, <1>7 DEF UpdateEntries, WithEntries, RingCount, PacedInv, StepKnows, DeviceAgrees
  <2>4. TableOwned'
    BY <1>0, <1>7 DEF UpdateEntries, WithEntries, PacedInv, TableOwned
  <2>5. PathKept'
    <3>1. /\ hal.pc = "idle" /\ map \in Maps \cup {NoMap, Stub} /\ map # NoMap /\ ~IsStub(map)
          /\ Len(map) = Len(unifiedDevice.entries)
      BY <1>7 DEF UpdateEntries, Outstanding, PacedInv, OneChange, StepKnows, DeviceAgrees
    <3>2. map \in Seq(Nat) /\ unifiedDevice.entries \in Seq(Nat)
      BY <1>0 DEF TypeOK, Device
    <3>3. NoSingleChannelMap => Len(map) # 1
      <4>1. IsStub(Stub) /\ Len(NoMap) = 0
        BY DEF IsStub, Stub, NoMap
      <4> QED
        BY <3>1, <4>1 DEF NoSingleChannelMap
    <3>4. NoSingleChannelMap => unifiedDevice.entries # NoMap /\ ~IsStub(unifiedDevice.entries)
      BY <3>1, <3>2, <3>3 DEF IsStub, NoMap
    <3>5. unifiedDevice'.rings = unifiedDevice.rings /\ unifiedDevice'.handler = unifiedDevice.handler
      BY <1>0, <1>7 DEF UpdateEntries, WithEntries, TypeOK, Device
    <3>6. pc' = "build" /\ hal' = hal
      BY <1>7 DEF UpdateEntries
    <3> QED
      BY <3>1, <3>4, <3>5, <3>6 DEF PacedInv, PathKept
  <2> QED
    BY <1>0, <2>1, <2>2, <2>3, <2>4, <2>5 DEF PacedInv
<1>8. CASE BuildTable
  <2>1. OneChange'
    BY <1>0, <1>8 DEF BuildTable, Outstanding, PacedInv, OneChange
  <2>2. StepKnows'
    BY <1>0, <1>8 DEF BuildTable, Done, PacedInv, StepKnows
  <2>3. DeviceAgrees'
    BY <1>0, <1>8 DEF BuildTable, PacedInv, StepKnows, DeviceAgrees
  <2>4. TableOwned'
    BY <1>0, <1>8 DEF BuildTable, TableFor, GetChannelFIFO, PacedInv, StepKnows, TableOwned
  <2>5. PathKept'
    BY <1>0, <1>8 DEF BuildTable, Outstanding, TableFor, GetChannelFIFO, PacedInv,
       StepKnows, DeviceAgrees, PathKept
  <2> QED
    BY <1>0, <2>1, <2>2, <2>3, <2>4, <2>5 DEF PacedInv
<1>9. CASE BumpGeneration
  <2>1. OneChange'
    BY <1>0, <1>9 DEF BumpGeneration, Outstanding, PacedInv, OneChange
  <2>2. StepKnows'
    BY <1>0, <1>9 DEF BumpGeneration, PacedInv, StepKnows
  <2>3. DeviceAgrees'
    BY <1>0, <1>9 DEF BumpGeneration, PacedInv, DeviceAgrees
  <2>4. TableOwned'
    BY <1>0, <1>9 DEF BumpGeneration, PacedInv, TableOwned
  <2>5. PathKept'
    BY <1>0, <1>9 DEF BumpGeneration, PacedInv, PathKept
  <2> QED
    BY <1>0, <2>1, <2>2, <2>3, <2>4, <2>5 DEF PacedInv
<1>10. CASE RequestChange
  <2>1. OneChange'
    BY <1>0, <1>10 DEF RequestChange, Done, Outstanding, PacedInv, OneChange, StepKnows
  <2>2. StepKnows'
    BY <1>0, <1>10 DEF RequestChange, Done, Outstanding, PacedInv, OneChange, StepKnows
  <2>3. DeviceAgrees'
    BY <1>0, <1>10 DEF RequestChange, PacedInv, DeviceAgrees
  <2>4. TableOwned'
    BY <1>0, <1>10 DEF RequestChange, PacedInv, TableOwned
  <2>5. PathKept'
    BY <1>0, <1>10 DEF RequestChange, Done, Outstanding, PacedInv, StepKnows, PathKept
  <2> QED
    BY <1>0, <2>1, <2>2, <2>3, <2>4, <2>5 DEF PacedInv
<1>11. CASE SaveMap
  <2>1. OneChange'
    BY <1>0, <1>11 DEF SaveMap, Outstanding, PacedInv, OneChange
  <2>2. StepKnows'
    BY <1>0, <1>11 DEF SaveMap, Outstanding, PacedInv, StepKnows
  <2>3. DeviceAgrees'
    BY <1>0, <1>11 DEF SaveMap, PacedInv, DeviceAgrees
  <2>4. TableOwned'
    BY <1>0, <1>11 DEF SaveMap, PacedInv, TableOwned
  <2>5. PathKept'
    BY <1>0, <1>11 DEF SaveMap, Outstanding, PacedInv, PathKept
  <2> QED
    BY <1>0, <2>1, <2>2, <2>3, <2>4, <2>5 DEF PacedInv
<1>12. CASE BeginAudio
  <2>1. OneChange'
    BY <1>0, <1>12 DEF BeginAudio, Outstanding, PacedInv, OneChange
  <2>2. StepKnows'
    BY <1>0, <1>12 DEF BeginAudio, Outstanding, PacedInv, StepKnows
  <2>3. DeviceAgrees'
    BY <1>0, <1>12, AudioRates DEF BeginAudio, PacedInv, DeviceAgrees
  <2>4. TableOwned'
    BY <1>0, <1>12 DEF BeginAudio, PacedInv, TableOwned
  <2>5. PathKept'
    <3>1. /\ unifiedDevice'.rings = unifiedDevice.rings
          /\ unifiedDevice'.handler = unifiedDevice.handler
          /\ unifiedDevice'.entries = unifiedDevice.entries
      BY <1>0, <1>12, AudioRates DEF TypeOK, Device
    <3> QED
      BY <1>12, <3>1 DEF BeginAudio, Outstanding, PacedInv, PathKept
  <2> QED
    BY <1>0, <2>1, <2>2, <2>3, <2>4, <2>5 DEF PacedInv
<1>13. CASE EndAudio
  <2>1. OneChange'
    BY <1>0, <1>13 DEF EndAudio, Outstanding, PacedInv, OneChange
  <2>2. StepKnows'
    BY <1>0, <1>13 DEF EndAudio, Outstanding, PacedInv, StepKnows
  <2>3. DeviceAgrees'
    BY <1>0, <1>13 DEF EndAudio, PacedInv, DeviceAgrees
  <2>4. TableOwned'
    BY <1>0, <1>13 DEF EndAudio, PacedInv, TableOwned
  <2>5. PathKept'
    BY <1>0, <1>13 DEF EndAudio, Outstanding, PacedInv, PathKept
  <2> QED
    BY <1>0, <2>1, <2>2, <2>3, <2>4, <2>5 DEF PacedInv
<1>14. CASE SwapEntries
  <2>1. OneChange'
    BY <1>0, <1>14 DEF SwapEntries, Outstanding, SwapInEntries, PacedInv, OneChange, StepKnows
  <2>2. StepKnows'
    BY <1>0, <1>14 DEF SwapEntries, SwapInEntries, RingCount, PacedInv, OneChange,
       StepKnows, DeviceAgrees, TableOwned
  <2>3. DeviceAgrees'
    BY <1>0, <1>14 DEF SwapEntries, Outstanding, SwapInEntries, PacedInv, OneChange,
       DeviceAgrees
  <2>4. TableOwned'
    BY <1>0, <1>14 DEF SwapEntries, SwapInEntries, PacedInv, TableOwned
  <2>5. PathKept'
    BY <1>0, <1>14 DEF SwapEntries, Outstanding, PathKept
  <2> QED
    BY <1>0, <2>1, <2>2, <2>3, <2>4, <2>5 DEF PacedInv
<1>15. CASE SwapRings
  <2>1. OneChange'
    BY <1>0, <1>15 DEF SwapRings, Outstanding, OnDevice, SwapInRings, PacedInv, OneChange,
       TypeOK
  <2>2. StepKnows'
    BY <1>0, <1>15 DEF SwapRings, Outstanding, PacedInv, OneChange, StepKnows
  <2>3. DeviceAgrees'
    <3>1. hal.entries = map /\ unifiedDevice.entries = map /\ hal.pc = "rings"
      BY <1>15 DEF SwapRings, PacedInv, OneChange, DeviceAgrees
    <3>2. unifiedDevice' = SwapInRings(unifiedDevice, map, alloc + 1) /\ alloc + 1 \in Nat /\ alloc + 1 # 0
      BY <1>0, <1>15, <3>1 DEF SwapRings, OnDevice, PacedInv, OneChange, TypeOK
    <3>3. RingCount(unifiedDevice') = Len(map)
      BY <1>0, <3>2, DeviceOperations DEF TypeOK
    <3>4. unifiedDevice'.entries = map /\ unifiedDevice'.rings # 0
      BY <1>0, <3>1, <3>2 DEF SwapInRings, TypeOK, Device
    <3>5. hal'.pc = "handler" /\ map' = map
      BY <1>0, <1>15 DEF SwapRings, TypeOK, Change
    <3> QED
      BY <3>3, <3>4, <3>5 DEF DeviceAgrees
  <2>4. TableOwned'
    BY <1>0, <1>15 DEF SwapRings, Outstanding, PacedInv, OneChange, TableOwned
  <2>5. PathKept'
    BY <1>0, <1>15 DEF SwapRings, Outstanding, PathKept
  <2> QED
    BY <1>0, <2>1, <2>2, <2>3, <2>4, <2>5 DEF PacedInv
<1>16. CASE SwapHandler
  <2>1. OneChange'
    BY <1>0, <1>16 DEF SwapHandler, Outstanding, OnDevice, SwapInHandler, PacedInv, OneChange
  <2>2. StepKnows'
    BY <1>0, <1>16 DEF SwapHandler, OnDevice, SwapInHandler, RingCount, PacedInv,
       OneChange, StepKnows, DeviceAgrees
  <2>3. DeviceAgrees'
    BY <1>0, <1>16 DEF SwapHandler, OnDevice, SwapInHandler, RingCount, PacedInv,
       OneChange, DeviceAgrees
  <2>4. TableOwned'
    BY <1>0, <1>16 DEF SwapHandler, OnDevice, SwapInHandler, PacedInv, TableOwned
  <2>5. PathKept'
    BY <1>0, <1>16 DEF SwapHandler, Outstanding, PathKept
  <2> QED
    BY <1>0, <2>1, <2>2, <2>3, <2>4, <2>5 DEF PacedInv
<1>17. CASE CheckGeneration
  <2>1. OneChange'
    BY <1>0, <1>17 DEF CheckGeneration, Outstanding, PacedInv, OneChange
  <2>2. StepKnows'
    BY <1>0, <1>17 DEF CheckGeneration, PacedInv, OneChange, StepKnows, DeviceAgrees
  <2>3. DeviceAgrees'
    BY <1>0, <1>17 DEF CheckGeneration, PacedInv, DeviceAgrees
  <2>4. TableOwned'
    BY <1>0, <1>17 DEF CheckGeneration, PacedInv, TableOwned
  <2>5. PathKept'
    BY <1>0, <1>17 DEF CheckGeneration, Outstanding, PacedInv, OneChange, PathKept
  <2> QED
    BY <1>0, <2>1, <2>2, <2>3, <2>4, <2>5 DEF PacedInv
<1>18. CASE PublishTable
  <2>1. OneChange'
    BY <1>0, <1>18 DEF PublishTable, Outstanding, IdleHal, PacedInv, OneChange
  <2>2. StepKnows'
    BY <1>0, <1>18 DEF PublishTable, Outstanding, PacedInv, OneChange, StepKnows, DeviceAgrees
  <2>3. DeviceAgrees'
    BY <1>0, <1>18 DEF PublishTable, PacedInv, DeviceAgrees
  <2>4. TableOwned'
    <3>1. /\ DevicePresent /\ unifiedDevice' = unifiedDevice
          /\ slotFifos' = TableFor(unifiedDevice, hal.entries)
      BY <1>18 DEF PublishTable, Outstanding, PacedInv, OneChange
    <3>2. \A i \in DOMAIN slotFifos' : slotFifos'[i] = GetChannelFIFO(unifiedDevice, i)
      BY <3>1 DEF TableFor
    <3>3. \A i \in DOMAIN slotFifos' : slotFifos'[i] # Null => slotFifos'[i].rings = unifiedDevice.rings
      BY <3>2 DEF GetChannelFIFO
    <3> QED
      BY <3>1, <3>3 DEF TableOwned
  <2>5. PathKept'
    BY <1>0, <1>18 DEF PublishTable, TableFor, GetChannelFIFO, PacedInv, OneChange,
       DeviceAgrees, PathKept
  <2> QED
    BY <1>0, <2>1, <2>2, <2>3, <2>4, <2>5 DEF PacedInv
<1>19. CASE Restart
  <2>1. OneChange'
    BY <1>0, <1>19 DEF Restart, Outstanding, IdleHal, OneChange
  <2>2. StepKnows'
    BY <1>0, <1>19 DEF Restart, NoDevice, PacedInv, StepKnows
  <2>3. DeviceAgrees'
    BY <1>0, <1>19 DEF Restart, NoDevice, RingCount, NoMap, DeviceAgrees
  <2>4. TableOwned'
    BY <1>0, <1>19 DEF Restart, TableOwned
  <2>5. PathKept'
    BY <1>0, <1>19 DEF Restart, NoDevice, PathKept
  <2> QED
    BY <1>0, <2>1, <2>2, <2>3, <2>4, <2>5 DEF PacedInv
<1>20. CASE UNCHANGED vars
  BY <1>0, <1>20 DEF vars, PacedInv, OneChange, StepKnows, DeviceAgrees, TableOwned,
     PathKept, Outstanding, RingCount
<1> QED
  BY <1>1, <1>2, <1>3, <1>4, <1>5, <1>6, <1>7, <1>8, <1>9, <1>10, <1>11, <1>12, <1>13,
     <1>14, <1>15, <1>16, <1>17, <1>18, <1>19, <1>20 DEF Next, Apply, Perform

-----------------------------------------------------------------------------
\* With paced maps the inductive invariant holds: the table is empty while a
\* change is outstanding, and whole and the device's own when none is.
THEOREM PacedInvariant == ASSUME Paced PROVE Spec => []PacedInv
<1>1. Init => PacedInv
  <2> SUFFICES ASSUME Init PROVE PacedInv
    OBVIOUS
  <2>1. TypeOK
    BY InitType
  <2>2. OneChange
    BY DEF Init, OneChange, IdleHal, Outstanding
  <2>3. StepKnows
    BY DEF Init, StepKnows, DevicePresent, NoDevice
  <2>4. DeviceAgrees
    BY DEF Init, DeviceAgrees, DevicePresent, NoDevice, NoMap, RingCount, IdleHal
  <2>5. TableOwned
    BY DEF Init, TableOwned
  <2>6. PathKept
    BY DEF Init, PathKept, NoDevice, NoMap, Real
  <2> QED
    BY <2>1, <2>2, <2>3, <2>4, <2>5, <2>6 DEF PacedInv
<1>2. PacedInv /\ [Next]_vars => PacedInv'
  BY PacedStep
<1> QED
  BY <1>1, <1>2, PTL DEF Spec

\* With paced maps handleAudioData never meets a pointer to a freed FIFO.
THEOREM NoUseAfterFree == ASSUME Paced PROVE Spec => []NoDanglingFifo
<1>1. PacedInv => NoDanglingFifo
  BY DEF PacedInv, TableOwned, DevicePresent, NoDanglingFifo, Live
<1> QED
  BY <1>1, PacedInvariant, PTL

\* With paced maps the device shows the map received last, once it has settled.
THEOREM LastMapWins == ASSUME Paced PROVE Spec => []MapInEffect
<1>1. PacedInv => MapInEffect
  BY DEF PacedInv, StepKnows, MapInEffect, Settled
<1> QED
  BY <1>1, PacedInvariant, PTL

\* With paced maps, none of which has a single real channel, every real map that
\* has settled has a complete audio path.
THEOREM CompletePath ==
  ASSUME Paced, NoSingleChannelMap
  PROVE  Spec => []AudioPathComplete
<1>1. PacedInv => AudioPathComplete
  <2> SUFFICES ASSUME PacedInv, Settled, DevicePresent, ~IsStub(map)
               PROVE  /\ unifiedDevice.handler = unifiedDevice.rings
                      /\ slotFifos = TableFor(unifiedDevice, map)
                      /\ RingCount(unifiedDevice) = Len(map)
    BY DEF AudioPathComplete
  <2>1. hal.pc = "idle" /\ ~Outstanding /\ pc = "recv" /\ map \in Seq(Nat) /\ slotFifos \in Seq(Pointer)
    BY DEF Settled, Outstanding, PacedInv, TypeOK
  <2>2. unifiedDevice.entries = map /\ Real(map)
    BY <2>1 DEF PacedInv, StepKnows, Real
  <2>3. RingCount(unifiedDevice) = Len(map)
    BY <2>1, <2>2 DEF PacedInv, DeviceAgrees
  <2>4. /\ unifiedDevice.handler = unifiedDevice.rings
        /\ Len(slotFifos) = Len(map)
        /\ \A i \in 1..Len(map) : slotFifos[i] = [rings |-> unifiedDevice.rings, slot |-> i]
    BY <2>1, <2>2 DEF PacedInv, PathKept
  <2>5. slotFifos = TableFor(unifiedDevice, map)
    <3>1. \A i \in 1..Len(map) : slotFifos[i] = GetChannelFIFO(unifiedDevice, i)
      BY <2>1, <2>3, <2>4 DEF GetChannelFIFO
    <3>2. slotFifos = [i \in 1..Len(map) |-> slotFifos[i]]
      BY <2>1, <2>4
    <3> QED
      BY <3>1, <3>2 DEF TableFor
  <2> QED
    BY <2>3, <2>4, <2>5
<1> QED
  BY <1>1, PacedInvariant, PTL
\* With paced maps every step is a step of DeviceView, or none of its: the device
\* goes from one real map to another without disappearing.
LEMMA ViewStep ==
  ASSUME Paced, PacedInv, [Next]_vars
  PROVE  [View!Next]_(View!view)
<1> USE DEF View!view, View!Nothing, View!Filler, NoMap, Stub, bounds
<1> DEFINE shown == unifiedDevice.entries
<1>0. TypeOK
  BY DEF PacedInv
<1>1. CASE Initialize
  <2>1. map' \in Maps \cup {<<0>>} /\ map = << >> /\ shown = << >> /\ UNCHANGED unifiedDevice
    BY <1>1 DEF Initialize, BootMaps, PacedInv, StepKnows, DeviceAgrees
  <2> QED
    BY <2>1 DEF View!Next, View!Want
<1>2. CASE ReceiveMap
  <2>1. map' \in Maps /\ shown = map /\ UNCHANGED unifiedDevice
    BY <1>2 DEF ReceiveMap, PacedInv, StepKnows
  <2> QED
    BY <2>1 DEF View!Next, View!Want
<1>3. ASSUME UNCHANGED map, unifiedDevice'.entries = map
      PROVE  [View!Next]_(View!view)
  BY <1>3 DEF View!Next, View!Show
<1>4. CASE CreateDevice
  BY <1>3, <1>4 DEF CreateDevice, MakeDevice
<1>5. CASE UpdateEntries
  BY <1>0, <1>3, <1>5 DEF UpdateEntries, WithEntries, Outstanding, PacedInv, OneChange, StepKnows,
     DeviceAgrees, TypeOK, Device
<1>6. CASE SwapEntries
  BY <1>0, <1>3, <1>6 DEF SwapEntries, SwapInEntries, PacedInv, OneChange, TypeOK, Device
<1>7. CASE DropDevice
  <2>1. map = << >> \/ map = <<0>>
    BY <1>0, <1>7 DEF DropDevice, PacedInv, StepKnows, IsStub, TypeOK
  <2>2. unifiedDevice'.entries = << >> /\ UNCHANGED map
    BY <1>7 DEF DropDevice, NoDevice
  <2> QED
    BY <2>1, <2>2 DEF View!Next, View!Hide
<1>8. CASE Restart
  BY <1>8 DEF Restart, NoDevice, View!Next, View!Lose
<1>9. CASE BeginAudio
  BY <1>0, <1>9, AudioRates DEF BeginAudio, TypeOK, Device
<1>10. CASE SwapRings \/ SwapHandler
  BY <1>0, <1>10 DEF SwapRings, SwapHandler, OnDevice, SwapInRings, SwapInHandler, PacedInv,
     OneChange, TypeOK, Device
<1>11. CASE \/ RemoveDevice \/ ClearTable \/ BuildTable \/ BumpGeneration \/ RequestChange
            \/ SaveMap \/ EndAudio \/ CheckGeneration \/ PublishTable \/ UNCHANGED vars
  BY <1>11 DEF RemoveDevice, ClearTable, BuildTable, BumpGeneration, RequestChange, SaveMap,
     EndAudio, CheckGeneration, PublishTable, vars
<1> QED
  BY <1>1, <1>2, <1>4, <1>5, <1>6, <1>7, <1>8, <1>9, <1>10, <1>11 DEF Next, Apply, Perform

\* With paced maps the driver implements DeviceView, but for its fairness: every
\* behaviour of the driver is one that DeviceView allows.
THEOREM ImplementsView == ASSUME Paced PROVE Spec => View!Init /\ [][View!Next]_(View!view)
<1>1. Init => View!Init
  BY DEF Init, View!Init, View!Nothing, NoMap, NoDevice
<1>2. PacedInv /\ [Next]_vars => [View!Next]_(View!view)
  BY ViewStep
<1> QED
  BY <1>1, <1>2, PacedInvariant, PTL DEF Spec

-----------------------------------------------------------------------------
\* At any pace every step keeps what ties the device to the stored map.
LEMMA StorageStep ==
  ASSUME TypeOK, StorageKept, [Next]_vars
  PROVE  StorageKept'
<1> USE DEF Outstanding, bounds
<1>1. CASE Initialize
  <2>1. saved # NoMap => map' = saved
    BY <1>1 DEF Initialize, BootMaps
  <2> QED
    BY <1>1, <2>1 DEF Initialize, StorageKept
<1>2. CASE ReceiveMap
  BY <1>2 DEF ReceiveMap, Branch, StorageKept
<1>3. CASE CreateDevice
  BY <1>3 DEF CreateDevice, Done, MakeDevice, StorageKept
<1>4. CASE RemoveDevice
  BY <1>4 DEF RemoveDevice, StorageKept
<1>5. CASE ClearTable
  BY <1>5 DEF ClearTable, StorageKept
<1>6. CASE DropDevice
  BY <1>6 DEF DropDevice, Done, StorageKept
<1>7. CASE UpdateEntries
  BY <1>7 DEF UpdateEntries, StorageKept
<1>8. CASE BuildTable
  BY <1>8 DEF BuildTable, Done, StorageKept
<1>9. CASE BumpGeneration
  BY <1>9 DEF BumpGeneration, StorageKept
<1>10. CASE RequestChange
  BY <1>10 DEF RequestChange, Done, StorageKept
<1>11. CASE SaveMap
  BY <1>11 DEF SaveMap, StorageKept
<1>12. CASE BeginAudio
  BY <1>12 DEF BeginAudio, StorageKept
<1>13. CASE EndAudio
  BY <1>13 DEF EndAudio, StorageKept
<1>14. CASE SwapEntries
  BY <1>14 DEF SwapEntries, StorageKept
<1>15. CASE SwapRings
  BY <1>15 DEF SwapRings, StorageKept
<1>16. CASE SwapHandler
  BY <1>16 DEF SwapHandler, StorageKept
<1>17. CASE CheckGeneration
  BY <1>17 DEF CheckGeneration, StorageKept
<1>18. CASE PublishTable
  BY <1>18 DEF PublishTable, StorageKept
<1>19. CASE Restart
  BY <1>19 DEF Restart, IdleHal, StorageKept
<1>20. CASE UNCHANGED vars
  BY <1>20 DEF vars, StorageKept
<1> QED
  BY <1>1, <1>2, <1>3, <1>4, <1>5, <1>6, <1>7, <1>8, <1>9, <1>10, <1>11, <1>12, <1>13, <1>14,
     <1>15, <1>16, <1>17, <1>18, <1>19, <1>20 DEF Next, Apply, Perform

LEMMA StorageInit ==
  ASSUME Init
  PROVE  StorageKept
BY DEF Init, StorageKept, Outstanding, IdleHal

\* At any pace of maps, a restarted driver shows what it saved until it receives
\* another map, and what it saved is the last map it applied that had a channel.
THEOREM StorageFollows == Spec => []StorageInStep
<1>1. Init => StorageKept
  BY StorageInit
<1>2. TypeOK /\ StorageKept /\ [Next]_vars => StorageKept'
  BY StorageStep
<1>3. StorageKept => StorageInStep
  BY DEF StorageKept, StorageInStep, Settled
<1> QED
  BY <1>1, <1>2, <1>3, TypeCorrect, PTL DEF Spec

-----------------------------------------------------------------------------
\* If the app only sends patches then at any pace every step keeps the inductive
\* invariant.
LEMMA RapidStep ==
  ASSUME RealMaps, RapidInv, [Next]_vars
  PROVE  RapidInv'
<1> USE DEF DevicePresent, Outstanding, bounds
<1>0. TypeOK /\ TypeOK'
  BY TypeStep DEF RapidInv
<1>1. CASE Initialize
  <2>1. DeviceStays'
    BY <1>1 DEF Initialize, RapidInv, DeviceStays
  <2>2. SwapsAgree'
    BY <1>1 DEF Initialize, RapidInv, SwapsAgree
  <2>3. LastChangeCurrent'
    BY <1>1 DEF Initialize, RapidInv, LastChangeCurrent
  <2>4. TableRepublished'
    BY <1>1 DEF Initialize, RapidInv, TableRepublished
  <2> QED
    BY <1>0, <2>1, <2>2, <2>3, <2>4 DEF RapidInv
<1>2. CASE ReceiveMap
  <2>1. DeviceStays'
    BY <1>2 DEF ReceiveMap, Branch, RealMaps, Real, RapidInv, DeviceStays
  <2>2. SwapsAgree'
    BY <1>2 DEF ReceiveMap, RapidInv, SwapsAgree
  <2>3. LastChangeCurrent'
    BY <1>2 DEF ReceiveMap, RapidInv, LastChangeCurrent
  <2>4. TableRepublished'
    BY <1>2 DEF ReceiveMap, RapidInv, TableRepublished
  <2> QED
    BY <1>0, <2>1, <2>2, <2>3, <2>4 DEF RapidInv
<1>3. CASE CreateDevice
  <2>1. DeviceStays'
    BY <1>3 DEF CreateDevice, Done, MakeDevice, TypeOK, RapidInv, DeviceStays
  <2>2. SwapsAgree'
    <3>1. unifiedDevice' = MakeDevice(map, alloc + 1) /\ hal' = hal /\ hal.pc = "idle"
      BY <1>3 DEF CreateDevice, RapidInv, DeviceStays
    <3>2. RingCount(unifiedDevice') = Len(map) /\ unifiedDevice'.entries = map
      BY <1>0, <3>1, DeviceOperations DEF MakeDevice, TypeOK
    <3>3. unifiedDevice'.handler \in {0, unifiedDevice'.rings}
      BY <3>1 DEF MakeDevice
    <3> QED
      BY <3>1, <3>2, <3>3 DEF SwapsAgree
  <2>3. LastChangeCurrent'
    BY <1>3 DEF CreateDevice, RapidInv, LastChangeCurrent
  <2>4. TableRepublished'
    BY <1>3 DEF CreateDevice, DeviceStays, RapidInv, TableRepublished
  <2> QED
    BY <1>0, <2>1, <2>2, <2>3, <2>4 DEF RapidInv
<1>4. CASE RemoveDevice
  BY <1>4 DEF RemoveDevice, RapidInv, DeviceStays
<1>5. CASE ClearTable
  <2>1. DeviceStays'
    BY <1>5 DEF ClearTable, RapidInv, DeviceStays
  <2>2. SwapsAgree'
    BY <1>5 DEF ClearTable, RapidInv, SwapsAgree
  <2>3. LastChangeCurrent'
    BY <1>5 DEF ClearTable, RapidInv, LastChangeCurrent
  <2>4. TableRepublished'
    BY <1>5 DEF ClearTable, TableRepublished
  <2> QED
    BY <1>0, <2>1, <2>2, <2>3, <2>4 DEF RapidInv
<1>6. CASE DropDevice
  BY <1>6 DEF DropDevice, RapidInv, DeviceStays
<1>7. CASE UpdateEntries
  <2>1. DeviceStays'
    BY <1>7 DEF UpdateEntries, WithEntries, RapidInv, DeviceStays
  <2>2. SwapsAgree'
    BY <1>7 DEF UpdateEntries, WithEntries, RingCount, RapidInv, SwapsAgree
  <2>3. LastChangeCurrent'
    BY <1>7 DEF UpdateEntries, RapidInv, LastChangeCurrent
  <2>4. TableRepublished'
    BY <1>7 DEF UpdateEntries, WithEntries, RapidInv, TableRepublished
  <2> QED
    BY <1>0, <2>1, <2>2, <2>3, <2>4 DEF RapidInv
<1>8. CASE BuildTable
  <2>1. DeviceStays'
    BY <1>8 DEF BuildTable, Done, RapidInv, DeviceStays
  <2>2. SwapsAgree'
    BY <1>8 DEF BuildTable, RapidInv, SwapsAgree
  <2>3. LastChangeCurrent'
    BY <1>8 DEF BuildTable, RapidInv, LastChangeCurrent
  <2>4. TableRepublished'
    BY <1>8 DEF BuildTable, TableFor, GetChannelFIFO, TableRepublished
  <2> QED
    BY <1>0, <2>1, <2>2, <2>3, <2>4 DEF RapidInv
<1>9. CASE BumpGeneration
  <2>1. DeviceStays'
    BY <1>9 DEF BumpGeneration, RapidInv, DeviceStays
  <2>2. SwapsAgree'
    BY <1>9 DEF BumpGeneration, RapidInv, SwapsAgree
  <2>3. LastChangeCurrent'
    BY <1>9 DEF BumpGeneration, LastChangeCurrent
  <2>4. TableRepublished'
    BY <1>9 DEF BumpGeneration, TableRepublished
  <2> QED
    BY <1>0, <2>1, <2>2, <2>3, <2>4 DEF RapidInv
<1>10. CASE RequestChange
  <2>1. DeviceStays'
    BY <1>10 DEF RequestChange, Done, RapidInv, DeviceStays
  <2>2. SwapsAgree'
    BY <1>10 DEF RequestChange, RapidInv, SwapsAgree
  <2>3. LastChangeCurrent'
    BY <1>10 DEF RequestChange, LastChangeCurrent
  <2>4. TableRepublished'
    BY <1>10 DEF RequestChange, TableRepublished
  <2> QED
    BY <1>0, <2>1, <2>2, <2>3, <2>4 DEF RapidInv
<1>11. CASE SaveMap
  <2>1. DeviceStays'
    BY <1>11 DEF SaveMap, RapidInv, DeviceStays
  <2>2. SwapsAgree'
    BY <1>11 DEF SaveMap, RapidInv, SwapsAgree
  <2>3. LastChangeCurrent'
    BY <1>11 DEF SaveMap, RapidInv, LastChangeCurrent
  <2>4. TableRepublished'
    BY <1>11 DEF SaveMap, RapidInv, TableRepublished
  <2> QED
    BY <1>0, <2>1, <2>2, <2>3, <2>4 DEF RapidInv
<1>12. CASE BeginAudio
  <2>1. DeviceStays'
    BY <1>12 DEF BeginAudio, RapidInv, DeviceStays
  <2>2. SwapsAgree'
    BY <1>12, AudioRates DEF BeginAudio, RapidInv, SwapsAgree
  <2>3. LastChangeCurrent'
    BY <1>12 DEF BeginAudio, RapidInv, LastChangeCurrent
  <2>4. TableRepublished'
    BY <1>12 DEF BeginAudio, RapidInv, TableRepublished
  <2> QED
    BY <1>0, <2>1, <2>2, <2>3, <2>4 DEF RapidInv
<1>13. CASE EndAudio
  <2>1. DeviceStays'
    BY <1>13 DEF EndAudio, RapidInv, DeviceStays
  <2>2. SwapsAgree'
    BY <1>13 DEF EndAudio, RapidInv, SwapsAgree
  <2>3. LastChangeCurrent'
    BY <1>13 DEF EndAudio, RapidInv, LastChangeCurrent
  <2>4. TableRepublished'
    BY <1>13 DEF EndAudio, RapidInv, TableRepublished
  <2> QED
    BY <1>0, <2>1, <2>2, <2>3, <2>4 DEF RapidInv
<1>14. CASE SwapEntries
  <2>1. DeviceStays'
    BY <1>14 DEF SwapEntries, SwapInEntries, RapidInv, DeviceStays
  <2>2. SwapsAgree'
    BY <1>14 DEF SwapEntries, SwapInEntries, RapidInv, SwapsAgree
  <2>3. LastChangeCurrent'
    <3>1. /\ pending \in Seq(Job) /\ pending # << >> /\ pending' = Tail(pending)
          /\ hal'.gen = Head(pending).gen
      BY <1>0, <1>14 DEF SwapEntries, TypeOK
    <3>2. /\ pending' = << >> => Head(pending) = pending[Len(pending)]
          /\ pending' # << >> => pending'[Len(pending')] = pending[Len(pending)]
      BY <3>1, LastStays
    <3> QED
      BY <1>14, <3>2 DEF SwapEntries, RapidInv, LastChangeCurrent
  <2>4. TableRepublished'
    BY <1>14 DEF SwapEntries, TableRepublished
  <2> QED
    BY <1>0, <2>1, <2>2, <2>3, <2>4 DEF RapidInv
<1>15. CASE SwapRings
  <2>1. DeviceStays'
    BY <1>15 DEF SwapRings, OnDevice, SwapInRings, TypeOK, RapidInv, DeviceStays
  <2>2. SwapsAgree'
    <3>1. /\ unifiedDevice' = SwapInRings(unifiedDevice, hal.entries, alloc + 1)
          /\ alloc + 1 \in Nat /\ hal.entries \in Seq(Nat) /\ hal.pc = "rings" /\ hal'.pc = "handler"
      BY <1>15 DEF SwapRings, OnDevice, RapidInv, DeviceStays, TypeOK, Change
    <3>2. RingCount(unifiedDevice') = Len(hal.entries)
      <4>1. unifiedDevice \in Device
        BY <1>0 DEF TypeOK
      <4> QED
        BY <3>1, <4>1, DeviceOperations
    <3>3. unifiedDevice'.entries = unifiedDevice.entries
      BY <3>1 DEF SwapInRings
    <3> QED
      BY <3>1, <3>2, <3>3 DEF RapidInv, SwapsAgree
  <2>3. LastChangeCurrent'
    BY <1>15 DEF SwapRings, RapidInv, LastChangeCurrent
  <2>4. TableRepublished'
    BY <1>15 DEF SwapRings, TableRepublished
  <2> QED
    BY <1>0, <2>1, <2>2, <2>3, <2>4 DEF RapidInv
<1>16. CASE SwapHandler
  <2>1. DeviceStays'
    BY <1>16 DEF SwapHandler, OnDevice, SwapInHandler, RapidInv, DeviceStays
  <2>2. SwapsAgree'
    BY <1>16 DEF SwapHandler, OnDevice, SwapInHandler, DeviceStays, RingCount, RapidInv,
       SwapsAgree
  <2>3. LastChangeCurrent'
    BY <1>16 DEF SwapHandler, RapidInv, LastChangeCurrent
  <2>4. TableRepublished'
    BY <1>16 DEF SwapHandler, TableRepublished
  <2> QED
    BY <1>0, <2>1, <2>2, <2>3, <2>4 DEF RapidInv
<1>17. CASE CheckGeneration
  <2>1. DeviceStays'
    BY <1>17 DEF CheckGeneration, IdleHal, RapidInv, DeviceStays
  <2>2. SwapsAgree'
    BY <1>17 DEF CheckGeneration, IdleHal, RapidInv, SwapsAgree
  <2>3. LastChangeCurrent'
    BY <1>17 DEF CheckGeneration, RapidInv, LastChangeCurrent
  <2>4. TableRepublished'
    BY <1>17 DEF CheckGeneration, LastChangeCurrent, RapidInv, TableRepublished
  <2> QED
    BY <1>0, <2>1, <2>2, <2>3, <2>4 DEF RapidInv
<1>18. CASE PublishTable
  <2>1. DeviceStays'
    BY <1>18 DEF PublishTable, IdleHal, RapidInv, DeviceStays
  <2>2. SwapsAgree'
    BY <1>18 DEF PublishTable, IdleHal, RapidInv, SwapsAgree
  <2>3. LastChangeCurrent'
    BY <1>18 DEF PublishTable, IdleHal, DeviceStays, RapidInv, LastChangeCurrent
  <2>4. TableRepublished'
    BY <1>18 DEF PublishTable, TableFor, GetChannelFIFO, DeviceStays, RapidInv, TableRepublished
  <2> QED
    BY <1>0, <2>1, <2>2, <2>3, <2>4 DEF RapidInv
<1>19. CASE Restart
  <2>1. DeviceStays'
    BY <1>19 DEF Restart, IdleHal, NoDevice, DeviceStays
  <2>2. SwapsAgree'
    BY <1>19 DEF Restart, IdleHal, NoDevice, RingCount, NoMap, SwapsAgree
  <2>3. LastChangeCurrent'
    BY <1>19 DEF Restart, IdleHal, LastChangeCurrent
  <2>4. TableRepublished'
    BY <1>19 DEF Restart, TableRepublished
  <2> QED
    BY <1>0, <2>1, <2>2, <2>3, <2>4 DEF RapidInv
<1>20. CASE UNCHANGED vars
  BY <1>0, <1>20 DEF vars, RapidInv, DeviceStays, SwapsAgree, LastChangeCurrent, TableRepublished
<1> QED
  BY <1>1, <1>2, <1>3, <1>4, <1>5, <1>6, <1>7, <1>8, <1>9, <1>10, <1>11, <1>12, <1>13, <1>14,
     <1>15, <1>16, <1>17, <1>18, <1>19, <1>20 DEF Next, Apply, Perform

LEMMA RapidInit ==
  ASSUME Init
  PROVE  RapidInv
<1>1. DeviceStays /\ SwapsAgree
  BY DEF Init, DeviceStays, SwapsAgree, DevicePresent, Outstanding, NoDevice, NoMap, RingCount,
     IdleHal
<1>2. LastChangeCurrent /\ TableRepublished
  BY DEF Init, LastChangeCurrent, TableRepublished, IdleHal
<1> QED
  BY <1>1, <1>2, InitType DEF RapidInv

\* If the app only sends patches then at any pace the last change requested is
\* published, and no other change leaves the table behind.
THEOREM RapidInvariant == ASSUME RealMaps PROVE Spec => []RapidInv
<1>1. Init => RapidInv
  BY RapidInit
<1>2. RapidInv /\ [Next]_vars => RapidInv'
  BY RapidStep
<1> QED
  BY <1>1, <1>2, PTL DEF Spec

\* If the app only sends patches then, at any pace, a driver that has performed
\* its changes has no pointer to a freed FIFO and a device whose parts agree.
THEOREM CoherentAtRest == ASSUME RealMaps PROVE Spec => []QuiescentCoherent
<1>1. RapidInv => QuiescentCoherent
  BY DEF RapidInv, DeviceStays, SwapsAgree, TableRepublished, QuiescentCoherent, DevicePresent,
     Outstanding, Live
<1> QED
  BY <1>1, RapidInvariant, PTL

-----------------------------------------------------------------------------
\* The app and the driver together: whatever happens, the driver takes one of its
\* own steps or none.
LEMMA DriverSteps ==
  ASSUME [InjectorNext]_all
  PROVE  [Next]_vars
BY DEF InjectorNext, all, AppStarts, Broadcasts, Fails, Accepts, Connects, Takes, TakeMap,
   TakeOther, LosesConnection, TakesAudio, Boot, Applies, Performs, Publishes, DriverRestarts,
   Next, Apply

\* So what holds of the driver, whatever maps come to it and whenever, holds of
\* the driver that is fed by the app.
THEOREM InjectorImplementsDriver == InjectorSpec => Spec
<1>1. InjectorInit => Init
  BY DEF InjectorInit
<1>2. [InjectorNext]_all => [Next]_vars
  BY DriverSteps
<1> QED
  BY <1>1, <1>2, PTL DEF InjectorSpec, Spec

LEMMA MoreThanOne ==
  ASSUME NEW n \in Nat, n > 1
  PROVE  n # 0 /\ n # 1
OBVIOUS

LEMMA PatchesAreReal ==
  ASSUME Patches
  PROVE  RealMaps
<1>1. ASSUME NEW m \in Maps
      PROVE  m # << >> /\ Len(m) # 1
  <2>1. m \in Seq(Nat) /\ Len(m) > 1
    BY DEF Patches
  <2>2. m = << >> => Len(m) = 0
    OBVIOUS
  <2>3. Len(m) # 0 /\ Len(m) # 1
    <3>1. Len(m) \in Nat
      OBVIOUS
    <3> QED
      BY <2>1, MoreThanOne
  <2> QED
    BY <2>3
<1> QED
  BY <1>1 DEF RealMaps, Real, NoMap, IsStub

\* Every step of the driver keeps the IO handler of a device that is no stub.
LEMMA HandlerStep ==
  ASSUME Patches, RapidInv, HandlerKept, pc = "update" => Len(map) > 1, [Next]_vars
  PROVE  HandlerKept'
<1> USE DEF bounds
<1>0. TypeOK /\ DeviceStays
  BY DEF RapidInv
<1>1. CASE Initialize
  BY <1>1 DEF Initialize, HandlerKept
<1>2. CASE ReceiveMap
  BY <1>2 DEF ReceiveMap, HandlerKept
<1>3. CASE CreateDevice
  BY <1>0, <1>3 DEF CreateDevice, MakeDevice, IsStub, Stub, DeviceStays, Outstanding, TypeOK,
     HandlerKept
<1>4. CASE RemoveDevice
  BY <1>0, <1>4 DEF RemoveDevice, DeviceStays
<1>5. CASE ClearTable
  BY <1>5 DEF ClearTable, HandlerKept
<1>6. CASE DropDevice
  BY <1>0, <1>6 DEF DropDevice, DeviceStays
<1>7. CASE UpdateEntries
  <2>1. unifiedDevice'.rings = unifiedDevice.rings /\ unifiedDevice'.handler = unifiedDevice.handler
    BY <1>7 DEF UpdateEntries, WithEntries
  <2>2. unifiedDevice.entries = Stub => unifiedDevice' = unifiedDevice
    <3>1. Len(Stub) = 1 /\ Len(map) > 1
      BY <1>7 DEF UpdateEntries, Stub
    <3> QED
      BY <1>7, <3>1 DEF UpdateEntries, WithEntries
  <2> QED
    BY <1>7, <2>1, <2>2 DEF UpdateEntries, HandlerKept
<1>8. CASE BuildTable
  BY <1>8 DEF BuildTable, HandlerKept
<1>9. CASE BumpGeneration
  BY <1>9 DEF BumpGeneration, HandlerKept
<1>10. CASE RequestChange
  BY <1>10 DEF RequestChange, HandlerKept
<1>11. CASE SaveMap
  BY <1>11 DEF SaveMap, HandlerKept
<1>12. CASE BeginAudio
  BY <1>12 DEF BeginAudio, HandlerKept
<1>13. CASE EndAudio
  BY <1>13 DEF EndAudio, HandlerKept
<1>14. CASE SwapEntries
  BY <1>14 DEF SwapEntries, HandlerKept
<1>15. CASE SwapRings
  BY <1>15 DEF SwapRings, HandlerKept
<1>16. CASE SwapHandler
  BY <1>0, <1>16 DEF SwapHandler, OnDevice, SwapInHandler, DeviceStays, HandlerKept
<1>17. CASE CheckGeneration
  BY <1>17 DEF CheckGeneration, HandlerKept
<1>18. CASE PublishTable
  BY <1>18 DEF PublishTable, HandlerKept
<1>19. CASE Restart
  BY <1>19 DEF Restart, NoDevice, HandlerKept
<1>20. CASE UNCHANGED vars
  BY <1>20 DEF vars, HandlerKept
<1> QED
  BY <1>1, <1>2, <1>3, <1>4, <1>5, <1>6, <1>7, <1>8, <1>9, <1>10, <1>11, <1>12, <1>13, <1>14,
     <1>15, <1>16, <1>17, <1>18, <1>19, <1>20 DEF Next, Apply, Perform

\* Every step takes a map that raced no change on its way to the device.
LEMMA PatchStep ==
  ASSUME Patches, RapidInv, RapidInv', PatchApplied, [InjectorNext]_all
  PROVE  PatchApplied'
<1> USE DEF bounds, link, account, Outstanding
<1>0. TypeOK /\ TypeOK' /\ DeviceStays
  BY DEF RapidInv
<1>1. CASE Initialize /\ UNCHANGED raced
  BY <1>1 DEF Initialize, PatchApplied
<1>2. CASE TakeMap
  BY <1>0, <1>2 DEF TakeMap, ReceiveMap, Branch, Patches, DeviceStays, PatchApplied
<1>3. CASE CreateDevice /\ UNCHANGED raced
  <2>1. /\ pending' = << >> /\ hal' = hal /\ hal.pc = "idle" /\ map' = map
        /\ unifiedDevice'.entries = map /\ raced' = raced
    BY <1>0, <1>3 DEF CreateDevice, DeviceStays, MakeDevice
  <2>2. pc' = "build" \/ (pc' \in {"save", "recv"} /\ Len(map) = 1)
    BY <1>3 DEF CreateDevice, Done, IsStub
  <2>3. pc' # "build" => ~(Len(map') > 1)
    <3>1. Len(map) \in Nat
      OBVIOUS
    <3> QED
      BY <2>1, <2>2, MoreThanOne
  <2>4. pc' \in {"build", "save", "recv"}
    BY <2>2
  <2> QED
    BY <2>1, <2>3, <2>4 DEF PatchApplied
<1>4. CASE RemoveDevice /\ UNCHANGED raced
  BY <1>0, <1>4 DEF RemoveDevice, DeviceStays
<1>5. CASE ClearTable /\ UNCHANGED raced
  BY <1>5 DEF ClearTable, PatchApplied
<1>6. CASE DropDevice /\ UNCHANGED raced
  BY <1>0, <1>6 DEF DropDevice, DeviceStays
<1>7. CASE UpdateEntries /\ UNCHANGED raced
  BY <1>7 DEF UpdateEntries, WithEntries, SwapsAgree, RapidInv, PatchApplied
<1>8. CASE BuildTable /\ UNCHANGED raced
  BY <1>8 DEF BuildTable, Done, PatchApplied
<1>9. CASE BumpGeneration /\ UNCHANGED raced
  BY <1>9 DEF BumpGeneration, PatchApplied
<1>10. CASE RequestChange /\ UNCHANGED raced
  BY <1>10 DEF RequestChange, Done, PatchApplied
<1>11. CASE SaveMap /\ UNCHANGED raced
  BY <1>11 DEF SaveMap, PatchApplied
<1>12. CASE BeginAudio /\ UNCHANGED raced
  <2>1. /\ pc = "recv" /\ pc' = "audio"
        /\ UNCHANGED <<map, slotFifos, pending, hal, raced>>
    BY <1>12 DEF BeginAudio
  <2>2. /\ RingCount(unifiedDevice') = RingCount(unifiedDevice)
        /\ unifiedDevice' = [unifiedDevice EXCEPT !.rates = unifiedDevice'.rates]
    BY <1>0, <1>12, AudioRates
  <2>3. /\ unifiedDevice'.entries = unifiedDevice.entries
        /\ unifiedDevice'.rings = unifiedDevice.rings
    BY <1>0, <2>2 DEF TypeOK, Device
  <2>4. TableFor(unifiedDevice', map) = TableFor(unifiedDevice, map)
    BY <2>2, <2>3, Zenon DEF TableFor, GetChannelFIFO
  <2> QED
    BY <2>1, <2>3, <2>4 DEF PatchApplied
<1>13. CASE EndAudio /\ UNCHANGED raced
  BY <1>13 DEF EndAudio, PatchApplied
<1>14. CASE SwapEntries /\ UNCHANGED raced
  <2>1. /\ pending \in Seq(Job) /\ pending # << >> /\ pending' = Tail(pending)
        /\ hal'.pc = "rings" /\ hal'.entries = Head(pending).entries
        /\ unifiedDevice'.entries = Head(pending).entries
        /\ pc' = pc /\ map' = map /\ raced' = raced
    BY <1>0, <1>14 DEF SwapEntries, SwapInEntries, TypeOK
  <2>2. /\ pending' = << >> => Head(pending) = pending[Len(pending)]
        /\ pending' # << >> => pending'[Len(pending')] = pending[Len(pending)]
    BY <2>1, LastStays
  <2> QED
    BY <2>1, <2>2 DEF PatchApplied
<1>15. CASE SwapRings /\ UNCHANGED raced
  BY <1>15 DEF SwapRings, OnDevice, SwapInRings, PatchApplied
<1>16. CASE SwapHandler /\ UNCHANGED raced
  BY <1>16 DEF SwapHandler, OnDevice, SwapInHandler, PatchApplied
<1>17. CASE CheckGeneration /\ UNCHANGED raced
  BY <1>17 DEF CheckGeneration, LastChangeCurrent, RapidInv, PatchApplied
<1>18. CASE PublishTable /\ UNCHANGED raced
  BY <1>18 DEF PublishTable, IdleHal, PatchApplied
<1>19. CASE DriverRestarts
  BY <1>19 DEF DriverRestarts, Restart, PatchApplied
<1>20. CASE UNCHANGED <<vars, raced>>
  BY <1>20 DEF vars, PatchApplied
<1> QED
  BY <1>1, <1>2, <1>3, <1>4, <1>5, <1>6, <1>7, <1>8, <1>9, <1>10, <1>11, <1>12, <1>13, <1>14,
     <1>15, <1>16, <1>17, <1>18, <1>19, <1>20 DEF InjectorNext, all, AppStarts, Broadcasts,
     Fails, Accepts, Connects, Takes, TakeOther, LosesConnection, TakesAudio, Boot, Applies,
     Performs, Publishes, Apply, Perform

\* What the messages on their way may be, and the queue after each operation.
Messages == Maps \cup {Other}

LEMMA QueueOperations ==
  ASSUME NEW q \in Seq(Messages), NEW m \in Messages
  PROVE  /\ Append(q, m) \in Seq(Messages) /\ Len(Append(q, m)) = Len(q) + 1
         /\ Append(q, m)[Len(q) + 1] = m
         /\ \A i \in 1..Len(q) : Append(q, m)[i] = q[i]
         /\ q # << >> => /\ Head(q) = q[1] /\ Head(q) \in Messages /\ Tail(q) \in Seq(Messages)
                         /\ Len(q) \in Nat \ {0} /\ Len(Tail(q)) = Len(q) - 1
                         /\ \A i \in 1..Len(Tail(q)) : Tail(q)[i] = q[i + 1]
OBVIOUS

\* A newcomer's greeting: the bridge, if it is known, and then the map.
LEMMA GreetingQueue ==
  ASSUME LinkSteady, C!Accept
  PROVE  /\ queue' \in Seq(Messages)
         /\ cached # NoMap =>
              \E i \in DOMAIN queue' :
                queue'[i] = cached /\ \A j \in DOMAIN queue' : j > i => queue'[j] = Other
<1>1. PICK bridge \in {<< >>, <<Other>>} :
         queue' = bridge \o IF cached = NoMap THEN << >> ELSE <<cached>>
  BY DEF C!Accept
<1>2. CASE cached = NoMap
  <2>1. bridge \in Seq(Messages)
    <3>1. << >> \in Seq(Messages) /\ <<Other>> \in Seq(Messages)
      BY DEF Messages
    <3> QED
      BY <1>1, <3>1
  <2>2. queue' = bridge
    BY <1>1, <1>2, <2>1
  <2> QED
    BY <1>2, <2>1, <2>2
<1>3. CASE cached # NoMap
  <2>1. cached \in Maps
    BY <1>3 DEF LinkSteady
  <2>2. CASE bridge = << >>
    <3>1. queue' = <<cached>>
      BY <1>1, <1>3, <2>2
    <3> QED
      BY <1>3, <2>1, <3>1 DEF Messages
  <2>3. CASE bridge = <<Other>>
    <3>1. queue' = <<Other>> \o <<cached>>
      BY <1>1, <1>3, <2>3
    <3>2. queue' \in Seq(Messages) /\ Len(queue') = 2 /\ queue'[2] = cached
      BY <2>1, <3>1 DEF Messages
    <3>3. DOMAIN queue' = {1, 2}
      BY <3>2
    <3> QED
      BY <3>2, <3>3
  <2> QED
    BY <1>1, <2>2, <2>3
<1> QED
  BY <1>2, <1>3

\* Cutting a connection leaves some of the messages, and nobody listed.
LEMMA CutQueue ==
  ASSUME LinkSteady, C!Cut
  PROVE  queue' \in Seq(Messages) /\ conn' # "listed" /\ (conn = "none" => conn' = "none")
<1>1. PICK n \in 0..Len(queue) : queue' = SubSeq(queue, 1, n)
  BY DEF C!Cut, C!Prefixes
<1>2. queue \in Seq(Messages)
  BY DEF LinkSteady, Messages
<1>3. queue' \in Seq(Messages)
  BY <1>1, <1>2
<1> QED
  BY <1>3 DEF C!Cut

\* Every step keeps the connection in order, and the map on its way.
LEMMA LinkStep ==
  ASSUME Patches, LinkSteady, MapArrives, [InjectorNext]_all
  PROVE  LinkSteady' /\ MapArrives'
<1> USE DEF link, account, bounds, C!channel
<1>0. /\ queue \in Seq(Messages) /\ cached \in Maps \cup {NoMap}
      /\ Other \notin Maps /\ Other # NoMap
      /\ Maps \cup {Other} = Messages
  BY OtherAssumption DEF LinkSteady, Messages
<1>1. CASE AppStarts
  BY <1>0, <1>1 DEF AppStarts, C!Start, vars, LinkSteady, MapArrives
<1>2. CASE C!BroadcastOther /\ UNCHANGED vars
  <2>1. Other \in Messages
    BY DEF Messages
  <2>2. LinkSteady'
    BY <1>0, <1>2, <2>1, QueueOperations DEF C!BroadcastOther, C!Send, vars, LinkSteady
  <2>3. ASSUME conn' = "listed", cached' # NoMap
        PROVE  MapArrives'
    <3>1. /\ conn = "listed" /\ cached # NoMap /\ queue' = Append(queue, Other)
          /\ UNCHANGED <<cached, persist, map>>
      BY <1>2, <2>3 DEF C!BroadcastOther, C!Send, vars
    <3>2. /\ DOMAIN queue = 1..Len(queue) /\ DOMAIN queue' = 1..(Len(queue) + 1)
          /\ Len(queue) \in Nat /\ queue'[Len(queue) + 1] = Other
          /\ \A i \in 1..Len(queue) : queue'[i] = queue[i]
      BY <1>0, <2>1, <3>1, QueueOperations
    <3>3. \A j \in DOMAIN queue' : j \in DOMAIN queue \/ queue'[j] = Other
      BY <3>2
    <3> QED
      BY <3>1, <3>2, <3>3 DEF MapArrives
  <2> QED
    BY <2>2, <2>3 DEF MapArrives
<1>3. ASSUME NEW m \in Maps, C!BroadcastMap(m), UNCHANGED vars
      PROVE  LinkSteady' /\ MapArrives'
  <2>1. cached' = m
    <3>1. m \in Seq(Nat) /\ Len(m) # 0
      BY <1>3 DEF Patches
    <3> QED
      BY <1>3, <3>1 DEF C!BroadcastMap
  <2> QED
    BY <1>0, <1>3, <2>1, QueueOperations DEF C!BroadcastMap, C!Send, vars, LinkSteady, MapArrives
<1>4. CASE Fails
  BY <1>0, <1>4, CutQueue DEF Fails, C!Crash, C!Drop, vars, LinkSteady, MapArrives
<1>5. CASE Accepts
  <2>1. conn = "backlog" /\ conn' = "listed" /\ app = "up" /\ UNCHANGED <<app, cached, vars>>
    BY <1>5 DEF Accepts, C!Accept
  <2> QED
    BY <1>0, <1>5, <2>1, GreetingQueue DEF Accepts, vars, LinkSteady, MapArrives
<1>6. CASE Connects
  BY <1>0, <1>6 DEF Connects, C!Connect, vars, LinkSteady, MapArrives
<1>7. CASE TakeMap
  <2>1. /\ queue # << >> /\ queue' = Tail(queue) /\ UNCHANGED <<app, cached, conn>> /\ pc # "boot"
    BY <1>7 DEF TakeMap, ReceiveMap, C!Deliver
  <2>2. /\ DOMAIN queue = 1..Len(queue) /\ DOMAIN queue' = 1..(Len(queue) - 1)
        /\ Len(queue) \in Nat \ {0} /\ Head(queue) = queue[1] /\ queue' \in Seq(Messages)
        /\ \A i \in DOMAIN queue' : queue'[i] = queue[i + 1]
    BY <1>0, <2>1, QueueOperations
  <2>3. persist' /\ map' = Head(queue) /\ Head(queue) # Other /\ pc' # "boot"
    BY <1>7 DEF TakeMap, ReceiveMap, Branch
  <2>4. LinkSteady'
    BY <1>0, <2>1, <2>2, <2>3 DEF LinkSteady
  <2>5. ASSUME conn = "listed", cached # NoMap
        PROVE  MapArrives'
    <3>1. PICK i \in DOMAIN queue :
             queue[i] = cached /\ \A j \in DOMAIN queue : j > i => queue[j] = Other
      BY <2>2, <2>3, <2>5 DEF MapArrives
    <3>2. CASE i = 1
      <4>1. map' = cached
        BY <2>2, <2>3, <3>1, <3>2
      <4>2. \A j \in DOMAIN queue' : queue'[j] = Other
        BY <2>2, <3>1, <3>2
      <4> QED
        BY <2>1, <2>3, <4>1, <4>2 DEF MapArrives
    <3>3. CASE i # 1
      <4>1. i - 1 \in DOMAIN queue' /\ queue'[i - 1] = cached
        BY <2>2, <3>1, <3>3
      <4>2. \A j \in DOMAIN queue' : j > i - 1 => queue'[j] = Other
        BY <2>2, <3>1, <3>3
      <4> QED
        BY <2>1, <4>1, <4>2 DEF MapArrives
    <3> QED
      BY <3>2, <3>3
  <2> QED
    BY <2>1, <2>4, <2>5 DEF MapArrives
<1>8. CASE TakeOther
  <2>1. /\ queue # << >> /\ queue' = Tail(queue) /\ UNCHANGED <<app, cached, conn>> /\ pc # "boot"
    BY <1>8 DEF TakeOther, C!Deliver
  <2>2. /\ DOMAIN queue = 1..Len(queue) /\ DOMAIN queue' = 1..(Len(queue) - 1)
        /\ Len(queue) \in Nat \ {0} /\ Head(queue) = queue[1] /\ queue' \in Seq(Messages)
        /\ \A i \in DOMAIN queue' : queue'[i] = queue[i + 1]
    BY <1>0, <2>1, QueueOperations
  <2>3. Head(queue) = Other /\ UNCHANGED <<pc, map, persist>>
    BY <1>8 DEF TakeOther, vars
  <2>4. LinkSteady'
    BY <1>0, <2>1, <2>2, <2>3 DEF LinkSteady
  <2>5. ASSUME conn = "listed", cached # NoMap,
               NEW i \in DOMAIN queue, queue[i] = cached,
               \A j \in DOMAIN queue : j > i => queue[j] = Other
        PROVE  MapArrives'
    <3>1. i # 1
      BY <1>0, <2>2, <2>3, <2>5
    <3>2. i - 1 \in DOMAIN queue' /\ queue'[i - 1] = cached
      BY <2>2, <2>5, <3>1
    <3>3. \A j \in DOMAIN queue' : j > i - 1 => queue'[j] = Other
      BY <2>2, <2>5
    <3> QED
      BY <2>1, <3>2, <3>3 DEF MapArrives
  <2>6. ASSUME conn = "listed", cached # NoMap, persist, map = cached,
               \A j \in DOMAIN queue : queue[j] = Other
        PROVE  MapArrives'
    <3>1. \A j \in DOMAIN queue' : queue'[j] = Other
      BY <2>2, <2>6
    <3> QED
      BY <2>1, <2>3, <2>6, <3>1 DEF MapArrives
  <2> QED
    BY <2>1, <2>4, <2>5, <2>6 DEF MapArrives
<1>9. CASE LosesConnection
  BY <1>0, <1>9 DEF LosesConnection, C!Lose, vars, LinkSteady, MapArrives
<1>10. CASE DriverRestarts
  BY <1>0, <1>10 DEF DriverRestarts, C!Abandon, LinkSteady, MapArrives
<1>11. CASE Boot
  BY <1>0, <1>11 DEF Boot, Initialize, LinkSteady, MapArrives
<1>12. CASE /\ pc # "boot" /\ UNCHANGED <<link, map, persist>>
            /\ pc' # "boot"
  BY <1>0, <1>12 DEF LinkSteady, MapArrives
<1>13. CASE UNCHANGED all
  BY <1>0, <1>13 DEF all, vars, LinkSteady, MapArrives
<1>14. CASE TakesAudio \/ Applies \/ Performs \/ Publishes
  <2>1. CASE TakesAudio
    BY <1>12, <2>1 DEF TakesAudio, BeginAudio
  <2>2. CASE Applies
    <3>1. pc # "boot" /\ UNCHANGED link
      BY <2>2 DEF Applies
    <3>2. pc' # "boot" /\ UNCHANGED <<map, persist>>
      BY <2>2, <3>1 DEF Applies, Apply, EndAudio, Initialize, CreateDevice, RemoveDevice,
         ClearTable, DropDevice, UpdateEntries, BuildTable, BumpGeneration, RequestChange, SaveMap,
         Done
    <3> QED
      BY <1>12, <3>1, <3>2
  <2>3. CASE Performs
    <3>1. UNCHANGED <<pc, map, persist, link>>
      BY <2>3 DEF Performs, Perform, SwapEntries, SwapRings, SwapHandler, CheckGeneration
    <3> QED
      BY <1>0, <3>1 DEF LinkSteady, MapArrives
  <2>4. CASE Publishes
    <3>1. UNCHANGED <<map, persist, link>> /\ (pc' = "boot" => pc = "boot")
      BY <2>4 DEF Publishes, PublishTable
    <3> QED
      BY <1>0, <3>1 DEF LinkSteady, MapArrives
  <2> QED
    BY <1>14, <2>1, <2>2, <2>3, <2>4
<1> QED
  BY <1>1, <1>2, <1>3, <1>4, <1>5, <1>6, <1>7, <1>8, <1>9, <1>10, <1>11, <1>13, <1>14
  DEF InjectorNext, Broadcasts, Takes

\* If the app only sends maps of two channels or more then, over all restarts and
\* lost connections, the map broadcast last is on its way, being applied, or
\* applied, unless it raced a change.
THEOREM InjectorInvariant == ASSUME Patches PROVE InjectorSpec => []InjectorInv
<1>1. InjectorInit => InjectorInv
  <2> SUFFICES ASSUME InjectorInit PROVE InjectorInv
    OBVIOUS
  <2>1. Init /\ C!Init
    BY DEF InjectorInit
  <2>2. RapidInv /\ StorageKept
    BY <2>1, RapidInit, StorageInit
  <2>3. LinkSteady /\ MapArrives
    BY <2>1 DEF Init, C!Init, LinkSteady, MapArrives
  <2>4. PatchApplied /\ HandlerKept
    BY <2>1 DEF Init, PatchApplied, HandlerKept, NoDevice
  <2> QED
    BY <2>2, <2>3, <2>4 DEF InjectorInv
<1>2. InjectorInv /\ [InjectorNext]_all => InjectorInv'
  <2> SUFFICES ASSUME InjectorInv, [InjectorNext]_all PROVE InjectorInv'
    OBVIOUS
  <2>1. [Next]_vars /\ RealMaps
    BY DriverSteps, PatchesAreReal
  <2>2. RapidInv' /\ StorageKept'
    BY <2>1, RapidStep, StorageStep DEF InjectorInv, RapidInv
  <2>3. LinkSteady' /\ MapArrives'
    BY LinkStep DEF InjectorInv
  <2>4. PatchApplied'
    BY <2>2, PatchStep DEF InjectorInv
  <2>5. HandlerKept'
    BY <2>1, HandlerStep DEF InjectorInv, PatchApplied
  <2> QED
    BY <2>2, <2>3, <2>4, <2>5 DEF InjectorInv
<1> QED
  BY <1>1, <1>2, PTL DEF InjectorSpec

\* If the app only sends maps of two channels or more, its patch is in effect
\* once a connected driver has read everything and performed its changes, however
\* maps, changes, restarts and connections overlapped, unless the map raced a
\* change.
THEOREM PatchTakesEffect == ASSUME Patches PROVE InjectorSpec => []PatchInEffect
<1>1. InjectorInv => PatchInEffect
  <2> SUFFICES ASSUME InjectorInv, UpToDate, ~Outstanding
               PROVE  /\ unifiedDevice.entries = cached /\ saved = cached
                      /\ unifiedDevice.handler = unifiedDevice.rings
                      /\ slotFifos = TableFor(unifiedDevice, cached)
                      /\ RingCount(unifiedDevice) = Len(cached)
    BY DEF PatchInEffect
  <2>1. map = cached /\ persist /\ cached \in Maps /\ pc = "recv" /\ ~raced
    BY DEF UpToDate, InjectorInv, LinkSteady, MapArrives
  <2>2. Len(cached) > 1 /\ Len(cached) \in Nat /\ cached # NoMap
    BY <2>1 DEF Patches, UpToDate
  <2>3. saved = cached
    BY <2>1, <2>2 DEF InjectorInv, StorageKept
  <2>4. unifiedDevice.entries = cached /\ slotFifos = TableFor(unifiedDevice, cached)
    BY <2>1, <2>2 DEF Outstanding, InjectorInv, PatchApplied
  <2>5. hal.pc = "idle"
    BY DEF Outstanding
  <2>6. RingCount(unifiedDevice) = Len(cached)
    BY <2>4, <2>5 DEF InjectorInv, RapidInv, SwapsAgree
  <2>7. cached # Stub
    <3>1. Len(cached) # 1
      BY <2>2, MoreThanOne
    <3>2. Len(Stub) = 1
      BY DEF Stub
    <3> QED
      BY <3>1, <3>2
  <2>8. unifiedDevice.handler = unifiedDevice.rings
    BY <2>4, <2>5, <2>7 DEF InjectorInv, HandlerKept
  <2> QED
    BY <2>3, <2>4, <2>6, <2>8
<1> QED
  BY <1>1, InjectorInvariant, PTL

\* Fed by an app that only sends patches, the driver is coherent at rest, and its
\* storage in step, over lost connections and restarts of both.
THEOREM FedDriverIsSound ==
  ASSUME RealMaps
  PROVE  InjectorSpec => [](QuiescentCoherent /\ StorageInStep)
BY InjectorImplementsDriver, CoherentAtRest, StorageFollows, PTL
=============================================================================
