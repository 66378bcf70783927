----------------------------- MODULE TimingProofs -----------------------------
(***************************************************************************)
(* Theorems about the two components that divide: Resampler, for any       *)
(* rates, block sizes and bounds, and DeviceClock, for any number of       *)
(* threads, any length of a period and any time, when the first call has   *)
(* stored the anchor before another begins.  The arguments are linear once *)
(* the products are expanded: each step first states the expansions it     *)
(* needs.                                                                  *)
(***************************************************************************)
EXTENDS Resampler, TLAPS

\* The clock's own parameters and state (its module says what they are).
CONSTANTS Threads, Num, Den, MaxTime, RacedStart

VARIABLES time, anchorHostTime, periodCounter, clockPc, anchor, now, ctr, latest, since

Clock == INSTANCE DeviceClock WITH pc <- clockPc

-----------------------------------------------------------------------------
(* Products and quotients                                                  *)

\* Multiples of c are ordered as their factors.
LEMMA FactorOrder ==
  ASSUME NEW c \in Nat, c > 0, NEW a \in Int, NEW b \in Int, a * c < b * c
  PROVE  a < b
<1> SUFFICES ASSUME a >= b PROVE FALSE
  OBVIOUS
<1>1. (a - b) * c = a * c - b * c
  OBVIOUS
<1>2. (a - b) * c >= 0
  OBVIOUS
<1> QED
  BY <1>1, <1>2

\* Only 0 is a multiple of c nearer to 0 than c.
LEMMA OnlyMultiple ==
  ASSUME NEW c \in Nat, c > 0, NEW k \in Int, k * c > -c, k * c < c
  PROVE  k = 0
<1>1. (-1) * c < k * c /\ k * c < 1 * c
  OBVIOUS
<1>2. -1 < k /\ k < 1
  BY <1>1, FactorOrder
<1> QED
  BY <1>2

\* The quotient is the only one.
LEMMA UniqueQuotient ==
  ASSUME NEW c \in Nat, c > 0, NEW q \in Int, NEW x \in Int, q * c <= x, x < q * c + c
  PROVE  x \div c = q
<1>1. x \div c \in Int /\ x = (x \div c) * c + (x % c) /\ x % c \in 0..(c - 1)
  OBVIOUS
<1>2. ((x \div c) - q) * c = (x \div c) * c - q * c
  BY <1>1
<1>3. ((x \div c) - q) * c > -c /\ ((x \div c) - q) * c < c
  BY <1>1, <1>2
<1>4. (x \div c) - q = 0
  BY <1>1, <1>3, OnlyMultiple
<1> QED
  BY <1>1, <1>4

\* The constants as numbers.
LEMMA Constants == Dst \in Nat /\ Dst > 0 /\ MaxOut \in Nat /\ (\A r \in Rates : r \in Nat /\ r > 0)
  BY DstAssumption, BoundsAssumption

\* What the steps need of the variables' types.
LEMMA Values ==
  ASSUME TypeOK
  PROVE  /\ rate \in Nat /\ rate > 0 /\ phase \in Int /\ last \in Nat
         /\ todo \in Nat /\ need \in Nat /\ inputIdx \in Nat
         /\ start \in Int /\ produced \in Nat /\ consumed \in Nat
  BY DEF TypeOK

\* Products over sums.
LEMMA Distribute == \A a, b, c \in Int : (a + b) * c = a * c + b * c
  OBVIOUS

\* A later number of outputs takes no less input.
LEMMA Monotone ==
  ASSUME NEW a \in Nat, NEW b \in Nat, NEW r \in Nat
  PROVE  /\ a * r <= (a + b) * r
         /\ b >= 1 => a * r + r <= (a + b) * r
<1>1. (a + b) * r = a * r + b * r
  BY Distribute
<1>2. b * r >= 0 /\ (b >= 1 => b * r >= r)
  OBVIOUS
<1>3. a * r \in Int /\ b * r \in Int
  OBVIOUS
<1> QED
  BY <1>1, <1>2, <1>3

\* Whoever wants another input sample, for the right-hand point of an output
\* when the source is not slower or to pass one on, finds one.
LEMMA InputLeft ==
  ASSUME TypeOK, Asked, pc # "idle",
         (consumed + inputIdx) * Dst + Dst <= start + (produced + todo) * rate
  PROVE  inputIdx < need
<1>1. Dst \in Nat /\ Dst > 0 /\ consumed \in Nat /\ inputIdx \in Nat /\ need \in Nat
      /\ produced \in Nat /\ todo \in Nat /\ rate \in Nat /\ start \in Int
  BY Constants, Values
<1>2. start + (produced + todo) * rate < (consumed + need) * Dst + Dst
  BY DEF Asked
<1>3. /\ (consumed + inputIdx) * Dst \in Int /\ (consumed + need) * Dst \in Int
      /\ (produced + todo) * rate \in Int
  BY <1>1
<1>4. (consumed + inputIdx) * Dst < (consumed + need) * Dst
  BY <1>1, <1>2, <1>3
<1>5. consumed + inputIdx \in Int /\ consumed + need \in Int
  BY <1>1
<1>6. consumed + inputIdx < consumed + need
  BY <1>1, <1>4, <1>5, FactorOrder
<1> QED
  BY <1>1, <1>6

\* A call ends with its input used up.
LEMMA InputUsedUp ==
  ASSUME TypeOK, InStep, Asked, pc = "sample", todo = 0
  PROVE  inputIdx = need
<1>1. Dst \in Nat /\ Dst > 0 /\ consumed \in Nat /\ inputIdx \in Nat /\ need \in Nat
      /\ produced \in Nat /\ rate \in Nat /\ start \in Int /\ phase \in Int
  BY Constants, Values
<1>2. phase < Dst
  BY DEF TypeOK
<1>3. (consumed + inputIdx) * Dst + phase = start + produced * rate
      /\ (phase < 0 => consumed + inputIdx = 0)
  BY DEF InStep
<1>4. produced + todo = produced
  BY <1>1
<1>5. /\ consumed + need = 0 \/ (consumed + need) * Dst <= start + produced * rate
      /\ start + produced * rate < (consumed + need) * Dst + Dst
  BY <1>4 DEF Asked
<1>6. (consumed + inputIdx) * Dst \in Int /\ (consumed + need) * Dst \in Int /\ produced * rate \in Int
  BY <1>1
<1>7. CASE phase >= 0
  <2>1. (consumed + inputIdx) * Dst < (consumed + need) * Dst + Dst
    BY <1>1, <1>3, <1>5, <1>6, <1>7
  <2>2. (consumed + need + 1) * Dst = (consumed + need) * Dst + Dst
        /\ consumed + need + 1 \in Int /\ consumed + inputIdx \in Int
    BY <1>1
  <2>3. consumed + inputIdx < consumed + need + 1
    BY <1>1, <2>1, <2>2, FactorOrder
  <2>4. CASE consumed + need = 0
    BY <1>1, <2>3, <2>4
  <2>5. CASE (consumed + need) * Dst <= start + produced * rate
    <3>1. (consumed + need) * Dst < (consumed + inputIdx) * Dst + Dst
      BY <1>1, <1>2, <1>3, <1>6, <2>5
    <3>2. (consumed + inputIdx + 1) * Dst = (consumed + inputIdx) * Dst + Dst
          /\ consumed + inputIdx + 1 \in Int /\ consumed + need \in Int
      BY <1>1
    <3>3. consumed + need < consumed + inputIdx + 1
      BY <1>1, <3>1, <3>2, FactorOrder
    <3> QED
      BY <1>1, <2>3, <3>3
  <2> QED
    BY <1>5, <2>4, <2>5
<1>8. CASE phase < 0
  <2>1. consumed = 0 /\ inputIdx = 0
    BY <1>1, <1>3, <1>8
  <2>2. (consumed + inputIdx) * Dst = 0
    BY <1>1, <2>1
  <2>3. start + produced * rate < 0
    BY <1>1, <1>3, <1>6, <1>8, <2>2
  <2>4. (consumed + need) * Dst >= 0
    BY <1>1
  <2>5. consumed + need = 0
    BY <1>1, <1>5, <1>6, <2>3, <2>4
  <2> QED
    BY <1>1, <2>1, <2>5
<1> QED
  BY <1>1, <1>7, <1>8

-----------------------------------------------------------------------------
(* One lemma per step                                                      *)

\* A new numbering agrees with whatever phase_ and last_ are.
LEMMA RenumberKeeps ==
  ASSUME TypeOK', Rest', pc' = "idle", Renumber
  PROVE  ResamplerInv'
<1>1. Dst \in Nat /\ rate' \in Nat /\ phase' \in Int
      /\ inputIdx' = 0 /\ need' = 0
  BY Constants DEF TypeOK, Rest
<1>2. (0 + 0) * Dst + phase' = phase' + 0 * rate'
  <2>1. \A r \in Nat, p \in Int : (0 + 0) * Dst + p = p + 0 * r
    BY <1>1
  <2> QED
    BY <1>1, <2>1
<1>3. InStep'
  BY <1>1, <1>2 DEF InStep, Renumber
<1>4. Asked' /\ LastPassed' /\ Points'
  BY <1>1 DEF Asked, LastPassed, Points, Renumber
<1> QED
  BY <1>3, <1>4 DEF ResamplerInv

\* A store of setRatio() numbers the samples anew, or disturbs a call.
LEMMA StoresKeep ==
  ASSUME ResamplerInv, Stores
  PROVE  ResamplerInv'
<1>1. TypeOK /\ Rest
  BY DEF ResamplerInv
<1>2. /\ storing' \subseteq {"ratio", "phase", "last"}
      /\ IF pc = "idle" THEN Renumber /\ UNCHANGED disturbed
         ELSE disturbed' = TRUE /\ UNCHANGED <<start, produced, consumed>>
      /\ UNCHANGED <<newRate, reading>>
  BY <1>1 DEF Stores, StoreRatio, StorePhase, StoreLast, Store, TypeOK
<1>3. rate' \in {rate, newRate} /\ phase' \in {0, phase} /\ last' \in {0, last}
  BY DEF Stores, StoreRatio, StorePhase, StoreLast, Store, Reset, Renumber
<1>4. start' \in Int /\ produced' \in Nat /\ consumed' \in Nat /\ disturbed' \in BOOLEAN
  <2>1. start' \in {start, phase'} /\ phase' \in Int
        /\ produced' \in {0, produced} /\ consumed' \in {0, consumed}
    BY <1>1, <1>2, <1>3 DEF Renumber, TypeOK
  <2>2. start \in Int /\ produced \in Nat /\ consumed \in Nat
    BY <1>1 DEF TypeOK
  <2>3. disturbed' \in BOOLEAN
    BY <1>1, <1>2, Zenon DEF TypeOK
  <2> QED
    BY <2>1, <2>2, <2>3
<1>5. TypeOK'
  <2>1. pc' = pc /\ UNCHANGED <<todo, need, inputIdx, left, right, newRate>>
    BY <1>2 DEF reading
  <2>2. phase' \in Int /\ phase' >= -Dst /\ (pc \in {"idle", "sample"} => phase' < Dst)
        /\ (pc = "take" => phase' >= 0)
    BY <1>1, <1>3, Constants DEF TypeOK
  <2>3. rate' \in Nat \ {0} /\ last' \in Nat
    BY <1>1, <1>3 DEF TypeOK
  <2> QED
    BY <1>1, <1>2, <1>4, <2>1, <2>2, <2>3 DEF TypeOK
<1>6. Rest'
  BY <1>1, <1>2 DEF Rest, reading
<1>7. CASE pc = "idle"
  BY <1>2, <1>5, <1>6, <1>7, RenumberKeeps DEF reading
<1>8. CASE pc # "idle"
  BY <1>2, <1>5, <1>6, <1>8 DEF ResamplerInv
<1> QED
  BY <1>7, <1>8

LEMMA SetSourceRateKeeps ==
  ASSUME ResamplerInv, SetSourceRate
  PROVE  ResamplerInv'
<1>1. /\ UNCHANGED <<rate, phase, last, pc, todo, need, inputIdx, left, right>>
      /\ UNCHANGED <<disturbed, start, produced, consumed>>
      /\ storing' = {"ratio", "phase", "last"} /\ newRate' \in Rates
  BY DEF SetSourceRate, reading, history
<1>2. newRate' \in Nat \ {0}
  BY <1>1, Constants
<1>3. TypeOK'
  BY <1>1, <1>2 DEF ResamplerInv, TypeOK
<1> QED
  BY <1>1, <1>3 DEF ResamplerInv, Rest, InStep, Asked, LastPassed, Points, Position

\* A call asks for the input of all its outputs, or for none if even the last lies
\* before the numbering.
LEMMA ReadKeeps ==
  ASSUME ResamplerInv, Read
  PROVE  ResamplerInv'
<1>1. PICK n \in 1..MaxOut :
        /\ pc = "idle"
        /\ \E size \in ToSize(InputNeeded(n)) :
             IF size > Scratch THEN UNCHANGED <<pc, todo, need, inputIdx>>
             ELSE pc' = "sample" /\ todo' = n /\ need' = size /\ inputIdx' = 0
        /\ UNCHANGED <<rate, phase, last, left, right, setting, history>>
  BY DEF Read
<1>2. PICK size \in ToSize(InputNeeded(n)) :
        IF size > Scratch THEN UNCHANGED <<pc, todo, need, inputIdx>>
        ELSE pc' = "sample" /\ todo' = n /\ need' = size /\ inputIdx' = 0
  BY <1>1
<1>3. /\ UNCHANGED <<rate, phase, last, left, right, storing, newRate>>
      /\ UNCHANGED <<disturbed, start, produced, consumed>>
  BY <1>1 DEF setting, history
<1>4. CASE UNCHANGED <<pc, todo, need, inputIdx>>
  BY <1>3, <1>4
  DEF ResamplerInv, TypeOK, Rest, InStep, Asked, LastPassed, Points, Position
<1>5. CASE size <= Scratch /\ pc' = "sample" /\ todo' = n /\ need' = size /\ inputIdx' = 0
  <2>1. /\ TypeOK /\ ~disturbed /\ todo = 0 /\ need = 0 /\ inputIdx = 0
        /\ InStep /\ LastPassed
    BY <1>1 DEF ResamplerInv, Rest
  <2>2. /\ Dst \in Nat /\ Dst > 0 /\ rate \in Nat /\ phase \in Int /\ start \in Int
        /\ produced \in Nat /\ consumed \in Nat /\ n \in Nat /\ n >= 1 /\ Scratch \in Nat
        /\ phase < Dst
    BY <1>1, <2>1, Constants, Values, BoundsAssumption DEF TypeOK
  <2>3. n * rate \in Nat /\ phase + n * rate \in Int
    BY <2>2
  <2>4. PICK q \in Int : phase + n * rate = q * Dst + ((phase + n * rate) % Dst)
                         /\ q = (phase + n * rate) \div Dst
    BY <2>2, <2>3
  <2>5. (phase + n * rate) % Dst \in 0..(Dst - 1)
    BY <2>2, <2>3
  <2>6. q * Dst \in Int /\ q * Dst <= phase + n * rate /\ phase + n * rate < q * Dst + Dst
    BY <2>2, <2>3, <2>4, <2>5
  <2>7. size = IF q >= 0 THEN q ELSE 0
    BY <1>5, <2>2, <2>4 DEF ToSize, InputNeeded
  <2>8. (consumed + q) * Dst = consumed * Dst + q * Dst
        /\ (produced + n) * rate = produced * rate + n * rate
    BY <2>2, Distribute
  <2>9. consumed * Dst + phase = start + produced * rate /\ (phase < 0 => consumed = 0)
    <3>1. consumed + inputIdx = consumed
      BY <2>1, <2>2
    <3> QED
      BY <2>1, <3>1 DEF InStep
  <2>10. consumed * Dst \in Int /\ produced * rate \in Int
    BY <2>2
  <2>11. /\ consumed + size = 0 \/ (consumed + size) * Dst <= start + (produced + n) * rate
         /\ start + (produced + n) * rate < (consumed + size) * Dst + Dst
    <3>1. CASE q >= 0
      BY <2>2, <2>3, <2>6, <2>7, <2>8, <2>9, <2>10, <3>1
    <3>2. CASE q < 0
      <4>1. (q + 1) * Dst = q * Dst + Dst /\ (q + 1) * Dst <= 0
        <5>1. q + 1 \in Int /\ q + 1 <= 0
          BY <3>2
        <5>2. (q + 1) * Dst = q * Dst + Dst
          BY <2>2
        <5>3. (0 - (q + 1)) * Dst >= 0 /\ (0 - (q + 1)) * Dst = 0 - (q + 1) * Dst
          BY <2>2, <5>1
        <5> QED
          BY <2>2, <5>1, <5>2, <5>3
      <4>2. phase + n * rate < 0
        BY <2>2, <2>3, <2>6, <4>1
      <4>3. phase < 0 /\ consumed = 0 /\ size = 0
        BY <2>2, <2>3, <2>7, <2>9, <3>2, <4>2
      <4>4. consumed + size = 0 /\ (consumed + size) * Dst = 0 /\ consumed * Dst = 0
        BY <2>2, <4>3
      <4> QED
        BY <2>2, <2>3, <2>8, <2>9, <2>10, <4>2, <4>4
    <3> QED
      BY <3>1, <3>2
  <2>12. TypeOK'
    <3>1. size \in Nat
      BY <2>7
    <3> QED
      BY <1>3, <1>5, <2>1, <2>2, <3>1 DEF TypeOK
  <2>13. Asked'
    BY <1>3, <1>5, <2>11 DEF Asked
  <2>14. InStep' /\ LastPassed' /\ Points' /\ Rest'
    BY <1>3, <1>5, <2>1 DEF InStep, LastPassed, Points, Rest
  <2> QED
    BY <2>12, <2>13, <2>14 DEF ResamplerInv
<1>6. size \in Int
  <2>1. Dst \in Nat /\ Dst > 0 /\ rate \in Nat /\ phase \in Int /\ n \in Nat /\ Scratch \in Nat
    BY Constants, Values, BoundsAssumption DEF ResamplerInv
  <2>2. InputNeeded(n) \in Int
    BY <2>1 DEF InputNeeded
  <2> QED
    BY <2>1, <2>2 DEF ToSize
<1>7. Scratch \in Nat
  BY BoundsAssumption
<1> QED
  BY <1>2, <1>4, <1>5, <1>6, <1>7

\* An output lies at the cursor, right after the input sample passed last.
LEMMA MakeSampleKeeps ==
  ASSUME ResamplerInv, MakeSample
  PROVE  ResamplerInv'
<1>1. /\ TypeOK /\ Dst \in Nat /\ Dst > 0 /\ rate \in Nat /\ rate > 0 /\ phase \in Int
      /\ last \in Nat /\ todo \in Nat /\ need \in Nat /\ inputIdx \in Nat /\ start \in Int
      /\ produced \in Nat /\ consumed \in Nat
  BY Constants, Values DEF ResamplerInv
<1>2. /\ pc = "sample" /\ todo > 0 /\ pc' = "pass"
      /\ left' = last /\ right' = Sample(inputIdx)
      /\ phase' = phase + rate /\ todo' = todo - 1 /\ produced' = produced + 1
      /\ UNCHANGED <<rate, last, need, inputIdx, storing, newRate>>
      /\ UNCHANGED <<disturbed, start, consumed>>
  BY DEF MakeSample, setting
<1>3. TypeOK'
  <2>1. Sample(inputIdx) \in Nat
    BY <1>1 DEF Sample
  <2> QED
    BY <1>1, <1>2, <2>1 DEF TypeOK
<1>4. Rest'
  BY <1>2 DEF Rest
<1>5. ASSUME ~disturbed
      PROVE  InStep' /\ Asked' /\ LastPassed' /\ Points'
  <2>1. InStep /\ Asked /\ LastPassed
    BY <1>5 DEF ResamplerInv
  <2>2. (consumed + inputIdx) * Dst + phase = start + produced * rate /\ phase < Dst
        /\ (phase < 0 => consumed + inputIdx = 0)
    BY <1>1, <1>2, <2>1 DEF InStep, TypeOK
  <2>3. (produced + 1) * rate = produced * rate + rate
    BY <1>1
  <2>4. (consumed + inputIdx) * Dst \in Int /\ produced * rate \in Int
    BY <1>1
  <2>5. (consumed + inputIdx) * Dst + (phase + rate) = start + (produced + 1) * rate
        /\ (phase + rate < 0 => consumed + inputIdx = 0)
    BY <1>1, <2>2, <2>3, <2>4
  <2>6. InStep'
    BY <1>2, <2>5 DEF InStep
  <2>7. Asked'
    <3>1. (produced + 1) + (todo - 1) = produced + todo
      BY <1>1
    <3>2. produced' + todo' = produced + todo
      BY <1>2, <3>1
    <3> QED
      BY <1>2, <2>1, <3>2 DEF Asked
  <2>8. LastPassed'
    BY <1>2, <2>1 DEF LastPassed
  <2>9. Position' = start + produced * rate
    <3>1. (produced + 1) - 1 = produced
      BY <1>1
    <3> QED
      BY <1>2, <3>1 DEF Position
  <2>10. start + produced * rate >= 0 => phase >= 0
    <3> SUFFICES ASSUME phase < 0 PROVE start + produced * rate < 0
      BY <1>1, <2>4
    <3>1. (consumed + inputIdx) * Dst = 0
      BY <1>1, <2>2
    <3> QED
      BY <1>1, <2>2, <2>4, <3>1
  <2>11. rate >= Dst /\ start + produced * rate >= 0 => inputIdx < need
    <3> SUFFICES ASSUME rate >= Dst, start + produced * rate >= 0 PROVE inputIdx < need
      OBVIOUS
    <3>1. todo >= 1
      BY <1>1, <1>2
    <3>2. produced * rate + rate <= (produced + todo) * rate
      BY <1>1, <3>1, Monotone
    <3>3. (produced + todo) * rate \in Int
      BY <1>1
    <3>4. (consumed + inputIdx) * Dst + Dst <= start + (produced + todo) * rate
      BY <1>1, <2>2, <2>4, <2>10, <3>2, <3>3
    <3> QED
      BY <1>1, <1>2, <2>1, <3>4, InputLeft
  <2>12. last = consumed + inputIdx
    BY <2>1 DEF LastPassed
  <2>13. inputIdx < need <=> last < consumed + need
    BY <1>1, <2>12
  <2>14. right' = IF last < consumed + need THEN last + 1 ELSE last
    BY <1>2, <2>12, <2>13 DEF Sample
  <2>15. /\ start + produced * rate >= 0 => last * Dst <= start + produced * rate
         /\ start + produced * rate < last * Dst + Dst
    BY <1>1, <2>2, <2>4, <2>10, <2>12
  <2>16. produced' >= 1
    BY <1>1, <1>2
  <2>17. Points'
    BY <1>2, <2>9, <2>11, <2>13, <2>14, <2>15, <2>16 DEF Points
  <2> QED
    BY <2>6, <2>7, <2>8, <2>17
<1> QED
  BY <1>2, <1>3, <1>4, <1>5 DEF ResamplerInv

LEMMA PassKeeps ==
  ASSUME ResamplerInv, Pass
  PROVE  ResamplerInv'
<1>1. /\ pc = "pass" /\ pc' = IF phase >= Dst THEN "take" ELSE "sample"
      /\ UNCHANGED <<rate, phase, last, todo, need, inputIdx, left, right, storing, newRate>>
      /\ UNCHANGED <<disturbed, start, produced, consumed>>
  BY DEF Pass, setting, history
<1>2. TypeOK /\ Dst \in Nat /\ phase \in Int
  BY Constants DEF ResamplerInv, TypeOK
<1>3. TypeOK' /\ Rest'
  BY <1>1, <1>2 DEF TypeOK, Rest
<1>4. ~disturbed => InStep' /\ Asked' /\ LastPassed' /\ Points'
  BY <1>1, <1>2 DEF ResamplerInv, InStep, Asked, LastPassed, Points, Position
<1> QED
  BY <1>1, <1>3, <1>4 DEF ResamplerInv

\* An input sample passed is one that was asked for.
LEMMA TakeKeeps ==
  ASSUME ResamplerInv, Take
  PROVE  ResamplerInv'
<1>1. /\ TypeOK /\ Dst \in Nat /\ Dst > 0 /\ rate \in Nat /\ phase \in Int
      /\ last \in Nat /\ todo \in Nat /\ need \in Nat /\ inputIdx \in Nat /\ start \in Int
      /\ produced \in Nat /\ consumed \in Nat
  BY Constants, Values DEF ResamplerInv
<1>2. /\ pc = "take" /\ pc' = "pass"
      /\ last' = Sample(inputIdx) /\ inputIdx' = inputIdx + 1 /\ phase' = phase - Dst
      /\ UNCHANGED <<rate, todo, need, left, right, storing, newRate>>
      /\ UNCHANGED <<disturbed, start, produced, consumed>>
  BY DEF Take, setting, history
<1>3. TypeOK'
  <2>1. Sample(inputIdx) \in Nat
    BY <1>1 DEF Sample
  <2>2. phase >= 0
    BY <1>1, <1>2 DEF TypeOK
  <2> QED
    BY <1>1, <1>2, <2>1, <2>2 DEF TypeOK
<1>4. Rest'
  BY <1>2 DEF Rest
<1>5. ASSUME ~disturbed
      PROVE  InStep' /\ Asked' /\ LastPassed' /\ Points'
  <2>1. InStep /\ Asked /\ Points
    BY <1>5 DEF ResamplerInv
  <2>2. (consumed + inputIdx) * Dst + phase = start + produced * rate /\ phase >= Dst
    BY <1>2, <2>1 DEF InStep
  <2>3. (consumed + inputIdx) * Dst \in Int /\ produced * rate \in Int
        /\ (produced + todo) * rate \in Int
    BY <1>1
  <2>4. produced * rate <= (produced + todo) * rate
    BY <1>1, Monotone
  <2>5. (consumed + inputIdx) * Dst + Dst <= start + (produced + todo) * rate
    BY <1>1, <2>2, <2>3, <2>4
  <2>6. inputIdx < need
    BY <1>1, <1>2, <2>1, <2>5, InputLeft
  <2>7. last' = consumed + inputIdx + 1
    BY <1>2, <2>6 DEF Sample
  <2>8. (consumed + (inputIdx + 1)) * Dst = (consumed + inputIdx) * Dst + Dst
    BY <1>1
  <2>9. (consumed + (inputIdx + 1)) * Dst + (phase - Dst) = start + produced * rate
    BY <1>1, <2>2, <2>3, <2>8
  <2>10. InStep'
    BY <1>1, <1>2, <2>2, <2>9 DEF InStep
  <2>11. LastPassed'
    BY <1>1, <1>2, <2>7 DEF LastPassed
  <2>12. Asked' /\ Points'
    BY <1>2, <2>1 DEF Asked, Points, Position
  <2> QED
    BY <2>10, <2>11, <2>12
<1> QED
  BY <1>2, <1>3, <1>4, <1>5 DEF ResamplerInv

\* A call ends in step, or the numbering begins anew.
LEMMA EndReadKeeps ==
  ASSUME ResamplerInv, EndRead
  PROVE  ResamplerInv'
<1>1. TypeOK
  BY DEF ResamplerInv
<1>2. /\ pc = "sample" /\ todo = 0 /\ pc' = "idle"
      /\ need' = 0 /\ inputIdx' = 0 /\ disturbed' = FALSE
      /\ UNCHANGED <<rate, phase, todo, left, right, storing, newRate>>
      /\ IF disturbed THEN Renumber
         ELSE consumed' = consumed + need /\ UNCHANGED <<last, start, produced>>
  BY DEF EndRead, setting
<1>3. TypeOK'
  <2>1. last' \in Nat /\ start' \in Int /\ produced' \in Nat /\ consumed' \in Nat
    <3>1. CASE disturbed
      BY <1>1, <1>2, <3>1 DEF TypeOK, Renumber
    <3>2. CASE ~disturbed
      BY <1>1, <1>2, <3>2 DEF TypeOK
    <3> QED
      BY <3>1, <3>2
  <2>2. disturbed' \in BOOLEAN
    BY <1>2
  <2> QED
    BY <1>1, <1>2, <2>1, <2>2 DEF TypeOK
<1>4. Rest'
  BY <1>2 DEF Rest
<1>5. CASE disturbed
  BY <1>2, <1>3, <1>4, <1>5, RenumberKeeps
<1>6. CASE ~disturbed
  <2>1. InStep /\ Asked /\ LastPassed
    BY <1>6 DEF ResamplerInv
  <2>2. inputIdx = need
    BY <1>1, <1>2, <2>1, InputUsedUp
  <2>3. consumed' + inputIdx' = consumed + inputIdx
    BY <1>1, <1>2, <1>6, <2>2, Values
  <2>4. InStep'
    BY <1>2, <1>6, <2>1, <2>3 DEF InStep
  <2>5. LastPassed'
    BY <1>2, <1>6, <2>1, <2>3 DEF LastPassed
  <2>6. Asked' /\ Points'
    BY <1>2 DEF Asked, Points
  <2> QED
    BY <1>3, <1>4, <2>4, <2>5, <2>6 DEF ResamplerInv
<1> QED
  BY <1>5, <1>6

-----------------------------------------------------------------------------
(* The theorems about the resampler                                        *)

\* However the output is cut into calls and whenever the rate is set, position,
\* counters and left-hand point follow the input, in every call that no store of
\* setRatio() comes into (GLA_ResamplingFIFO.h:17-55, 89-95, 104-120).
THEOREM ResamplerInvariant == Spec => []ResamplerInv
<1>1. Init => ResamplerInv
  <2> SUFFICES ASSUME Init PROVE ResamplerInv
    OBVIOUS
  <2>1. /\ pc = "idle" /\ todo = 0 /\ need = 0 /\ inputIdx = 0 /\ phase = 0 /\ last = 0
        /\ start = 0 /\ produced = 0 /\ consumed = 0 /\ left = 0 /\ right = 0
        /\ rate = Dst /\ newRate = Dst /\ storing = {} /\ disturbed = FALSE
    BY DEF Init
  <2>2. (0 + 0) * Dst + 0 = 0 + 0 * Dst
    BY Constants
  <2>3. InStep
    BY <2>1, <2>2 DEF InStep
  <2>4. TypeOK
    <3>1. storing \subseteq {"ratio", "phase", "last"} /\ disturbed \in BOOLEAN
      BY <2>1
    <3>2. Dst \in Nat \ {0} /\ 0 >= -Dst /\ 0 < Dst
      BY Constants
    <3> QED
      BY <2>1, <3>1, <3>2 DEF TypeOK
  <2>5. Asked /\ LastPassed /\ Points /\ Rest
    BY <2>1 DEF Asked, LastPassed, Points, Rest
  <2> QED
    BY <2>3, <2>4, <2>5 DEF ResamplerInv
<1>2. ResamplerInv /\ [Next]_vars => ResamplerInv'
  <2> SUFFICES ASSUME ResamplerInv, [Next]_vars PROVE ResamplerInv'
    OBVIOUS
  <2>1. CASE UNCHANGED vars
    BY <2>1 DEF vars, reading, setting, history, ResamplerInv, TypeOK, Rest, InStep, Asked,
       LastPassed, Points, Position
  <2> QED
    BY <2>1, SetSourceRateKeeps, StoresKeep, ReadKeeps, MakeSampleKeeps, PassKeeps,
       TakeKeeps, EndReadKeeps DEF Next
<1> QED
  BY <1>1, <1>2, PTL DEF Spec

\* The cursor is below one input sample whenever a call begins or ends, and never
\* more than one below 0, whatever stores come into the loop; every variable has
\* its type.
THEOREM TypeCorrect == Spec => []TypeOK
<1>1. ResamplerInv => TypeOK
  BY DEF ResamplerInv
<1> QED
  BY <1>1, ResamplerInvariant, PTL

\* What process() passes is exactly what inputNeeded() asked for, for any rates
\* and block sizes and from any cursor that a change of the rate leaves: no sample
\* read from the ring is lost or used twice, but in a call that such a change
\* comes into (GLA_ResamplingFIFO.h:25-30, 112-118).
THEOREM AsksForWhatItUses == Spec => []InputExact
<1>1. ResamplerInv => InputExact
  BY InputUsedUp DEF ResamplerInv, InputExact
<1> QED
  BY <1>1, ResamplerInvariant, PTL

\* Input consumed and output produced stay in the ratio of the rates for ever;
\* a change of the rate during a call costs that call, and no more.
THEOREM NeverDrifts == Spec => []NoDrift
<1>1. ResamplerInv => NoDrift
  <2> SUFFICES ASSUME ResamplerInv, pc = "idle"
               PROVE  start + produced * rate = consumed * Dst + phase
    BY DEF NoDrift
  <2>1. consumed \in Nat /\ inputIdx = 0 /\ ~disturbed
    BY Values DEF ResamplerInv, Rest
  <2>2. consumed + inputIdx = consumed
    BY <2>1
  <2>3. InStep
    BY <2>1 DEF ResamplerInv
  <2> QED
    BY <2>2, <2>3 DEF InStep
<1> QED
  BY <1>1, ResamplerInvariant, PTL

\* The left-hand point of every output is the input sample just before its
\* position, across the border between two calls too.
THEOREM LeftPointIsFloor == Spec => []LeftPoint
<1>1. ResamplerInv => LeftPoint
  <2> SUFFICES ASSUME ResamplerInv, Made, Position >= 0
               PROVE  left = Position \div Dst
    BY DEF LeftPoint
  <2>1. Dst \in Nat /\ Dst > 0 /\ produced \in Nat /\ rate \in Nat /\ start \in Int
    BY Constants, Values DEF ResamplerInv
  <2>2. left \in Nat
    BY DEF ResamplerInv, TypeOK
  <2>3. Position \in Int
    BY <2>1 DEF Position
  <2>4. left * Dst <= Position /\ Position < left * Dst + Dst
    BY DEF ResamplerInv, Points, Made
  <2> QED
    BY <2>1, <2>2, <2>3, <2>4, UniqueQuotient
<1> QED
  BY <1>1, ResamplerInvariant, PTL

\* Every output is between two neighbouring input samples, or repeats the last
\* that was asked for; the latter never when the source is not slower than the
\* device.
THEOREM RepeatsOnlyAtTheEnd == Spec => []HoldsOnlyAtTheEnd
<1>1. ResamplerInv => HoldsOnlyAtTheEnd
  BY DEF ResamplerInv, Points, HoldsOnlyAtTheEnd, Made
<1> QED
  BY <1>1, ResamplerInvariant, PTL

-----------------------------------------------------------------------------
(* The clock of the device                                                 *)

\* A period has a length, and the first call is alone.
Sane == Num \in Nat \ {0} /\ Den \in Nat \ {0} /\ ~RacedStart

-----------------------------------------------------------------------------
(* Quotients                                                               *)

LEMMA QuotientBounds ==
  ASSUME NEW c \in Nat, c > 0, NEW x \in Nat
  PROVE  /\ x \div c \in Nat
         /\ (x \div c) * c <= x
         /\ x < ((x \div c) + 1) * c
<1>1. x \div c \in Nat /\ x = (x \div c) * c + (x % c) /\ x % c \in 0..(c - 1)
  OBVIOUS
<1>2. ((x \div c) + 1) * c = (x \div c) * c + c
  BY <1>1
<1> QED
  BY <1>1, <1>2

LEMMA FactorsKeepOrder ==
  ASSUME NEW c \in Nat, NEW a \in Nat, NEW b \in Nat, a <= b
  PROVE  a * c <= b * c
<1>1. b * c = a * c + (b - a) * c
  OBVIOUS
<1>2. (b - a) * c >= 0
  OBVIOUS
<1>3. a * c \in Int /\ (b - a) * c \in Int
  OBVIOUS
<1> QED
  BY <1>1, <1>2, <1>3

LEMMA QuotientsKeepOrder ==
  ASSUME NEW c \in Nat, c > 0, NEW x \in Nat, NEW y \in Nat, x <= y
  PROVE  x \div c <= y \div c
<1> DEFINE p == x \div c
           q == y \div c
<1>1. p \in Nat /\ p * c <= x
  BY QuotientBounds
<1>2. q \in Nat /\ y < (q + 1) * c
  BY QuotientBounds
<1>3. p * c < (q + 1) * c
  <2>1. p * c \in Int /\ (q + 1) * c \in Int
    BY <1>1, <1>2
  <2> QED
    BY <1>1, <1>2, <2>1
<1>4. p < q + 1
  BY <1>1, <1>2, <1>3, FactorOrder
<1> QED
  BY <1>1, <1>2, <1>4

\* The number of the period a moment is in does not go back, ...
LEMMA PeriodsKeepOrder ==
  ASSUME Sane, NEW a \in Nat, NEW b \in Nat, a <= b
  PROVE  Clock!Periods(a) \in Nat /\ Clock!Periods(a) <= Clock!Periods(b)
<1>1. a * Den \in Nat /\ b * Den \in Nat /\ a * Den <= b * Den
  BY FactorsKeepOrder DEF Sane
<1>2. (a * Den) \div Num <= (b * Den) \div Num /\ (a * Den) \div Num \in Nat
  BY <1>1, QuotientsKeepOrder, QuotientBounds DEF Sane
<1> QED
  BY <1>2 DEF Clock!Periods

\* ... a period begins no later than a moment in it or after it, ...
LEMMA PeriodHasBegun ==
  ASSUME Sane, NEW a \in Nat, NEW k \in Nat, k <= Clock!Periods(a)
  PROVE  Clock!Ticks(k) <= a
<1> DEFINE p == (a * Den) \div Num
           h == (k * Num) \div Den
<1>1. a * Den \in Nat /\ k * Num \in Nat
  BY DEF Sane
<1>2. p \in Nat /\ p * Num <= a * Den
  BY <1>1, QuotientBounds DEF Sane
<1>3. k * Num <= p * Num
  BY <1>2, FactorsKeepOrder DEF Sane, Clock!Periods
<1>4. h \in Nat /\ h * Den <= k * Num
  BY <1>1, QuotientBounds DEF Sane
<1>5. h * Den < (a + 1) * Den
  <2>1. (a + 1) * Den = a * Den + Den /\ h * Den \in Int /\ p * Num \in Int
    BY <1>2, <1>4 DEF Sane
  <2> QED
    BY <1>1, <1>2, <1>3, <1>4, <2>1 DEF Sane
<1>6. h < a + 1
  BY <1>4, <1>5, FactorOrder DEF Sane
<1> QED
  BY <1>4, <1>6 DEF Clock!Ticks

\* ... and ends after it.
LEMMA PeriodHasNotEnded ==
  ASSUME Sane, NEW a \in Nat, NEW k \in Nat, Clock!Periods(a) <= k
  PROVE  a * Den < (k + 1) * Num
<1> DEFINE p == (a * Den) \div Num
<1>1. a * Den \in Nat
  BY DEF Sane
<1>2. p \in Nat /\ a * Den < (p + 1) * Num
  BY <1>1, QuotientBounds DEF Sane
<1>3. (p + 1) * Num <= (k + 1) * Num
  BY <1>2, FactorsKeepOrder DEF Sane, Clock!Periods
<1>4. (p + 1) * Num \in Int /\ (k + 1) * Num \in Int
  BY <1>2 DEF Sane
<1> QED
  BY <1>1, <1>2, <1>3, <1>4

-----------------------------------------------------------------------------
(* The invariant                                                           *)

LEMMA PresentIsNat ==
  ASSUME Sane, NEW a \in Nat, NEW n \in Nat, a <= n
  PROVE  (IF a = 0 THEN 0 ELSE Clock!Periods(n - a)) \in Nat
<1>1. CASE a = 0
  BY <1>1
<1>2. CASE a # 0
  <2>1. n - a \in Nat
    OBVIOUS
  <2> QED
    BY <1>2, <2>1, PeriodsKeepOrder
<1> QED
  BY <1>1, <1>2

LEMMA NewCtrIsNat ==
  ASSUME Sane, Clock!TypeOK, NEW t \in Threads
  PROVE  Clock!NewCtr(t) \in Nat
<1>1. now[t] \in Nat /\ anchor[t] \in Nat
  BY DEF Clock!TypeOK
<1>2. CASE now[t] >= anchor[t]
  <2>1. now[t] - anchor[t] \in Nat
    BY <1>1, <1>2
  <2> QED
    BY <1>2, <2>1, PeriodsKeepOrder DEF Clock!NewCtr
<1> QED
  BY <1>1, <1>2 DEF Clock!NewCtr

\* What a thread counts is a period that has begun.
LEMMA CountsThePast ==
  ASSUME Sane, Clock!ClockInv, NEW t \in Threads, clockPc[t] \in {"count", "advance", "stamp"}
  PROVE  Clock!NewCtr(t) <= Clock!Present
<1>1. /\ now[t] \in Nat /\ anchor[t] \in Nat /\ time \in Nat
      /\ anchor[t] = anchorHostTime /\ anchorHostTime # 0
      /\ anchor[t] <= now[t] /\ now[t] <= time
  BY DEF Clock!ClockInv, Clock!TypeOK, Clock!OneAnchor, Clock!CountsKeepUp
<1>2. now[t] - anchor[t] \in Nat /\ time - anchor[t] \in Nat
      /\ now[t] - anchor[t] <= time - anchor[t]
  BY <1>1
<1>3. Clock!Periods(now[t] - anchor[t]) <= Clock!Periods(time - anchor[t])
  BY <1>2, PeriodsKeepOrder
<1> QED
  BY <1>1, <1>3 DEF Clock!NewCtr, Clock!Present

LEMMA ClockInitHolds ==
  ASSUME Sane, Clock!Init
  PROVE  Clock!ClockInv
<1>1. Clock!TypeOK
  BY DEF Clock!Init, Clock!TypeOK, Clock!Asking
<1>2. Clock!OneAnchor
  BY DEF Clock!Init, Clock!OneAnchor, Clock!Asking
<1>3. Clock!CountsKeepUp
  BY DEF Clock!Init, Clock!CountsKeepUp, Clock!Present, Clock!Asking
<1> QED
  BY <1>1, <1>2, <1>3 DEF Clock!ClockInv

LEMMA TickKeeps ==
  ASSUME Sane, Clock!ClockInv, Clock!Tick
  PROVE  Clock!ClockInv'
<1>1. Clock!TypeOK'
  BY DEF Clock!ClockInv, Clock!TypeOK, Clock!Tick, Clock!locals
<1>2. Clock!OneAnchor'
  BY DEF Clock!ClockInv, Clock!TypeOK, Clock!OneAnchor, Clock!Tick, Clock!locals,
     Clock!Asking
<1>3. Clock!Present <= Clock!Present'
  <2>1. CASE anchorHostTime = 0
    BY <2>1 DEF Clock!Present, Clock!Tick
  <2>2. CASE anchorHostTime # 0
    <3>1. /\ time - anchorHostTime \in Nat /\ time' - anchorHostTime \in Nat
          /\ time - anchorHostTime <= time' - anchorHostTime
      BY DEF Clock!ClockInv, Clock!TypeOK, Clock!OneAnchor, Clock!Tick
    <3>2. Clock!Periods(time - anchorHostTime) <= Clock!Periods(time' - anchorHostTime)
      BY <3>1, PeriodsKeepOrder
    <3> QED
      BY <2>2, <3>2 DEF Clock!Present, Clock!Periods, Clock!Tick
  <2> QED
    BY <2>1, <2>2
<1>4. Clock!Present \in Nat /\ Clock!Present' \in Nat
  <2>1. Clock!Present \in Nat
    BY PresentIsNat DEF Clock!ClockInv, Clock!TypeOK, Clock!OneAnchor, Clock!Present
  <2>2. time' \in Nat /\ anchorHostTime' \in Nat /\ anchorHostTime' <= time'
    BY <1>1, <1>2 DEF Clock!TypeOK, Clock!OneAnchor
  <2>3. (IF anchorHostTime' = 0 THEN 0 ELSE Clock!Periods(time' - anchorHostTime')) \in Nat
    BY <2>2, PresentIsNat
  <2> QED
    BY <2>1, <2>3 DEF Clock!Present, Clock!Periods
<1>5. \A t \in Threads : Clock!NewCtr(t)' = Clock!NewCtr(t)
  BY DEF Clock!NewCtr, Clock!Periods, Clock!Tick, Clock!locals
<1>6. Clock!CountsKeepUp'
  BY <1>3, <1>4, <1>5 DEF Clock!ClockInv, Clock!CountsKeepUp, Clock!TypeOK, Clock!Tick,
     Clock!locals, Clock!Asking
<1> QED
  BY <1>1, <1>2, <1>6 DEF Clock!ClockInv

LEMMA AskKeeps ==
  ASSUME Sane, Clock!ClockInv, NEW t \in Threads, Clock!Ask(t)
  PROVE  Clock!ClockInv'
<1>1. Clock!TypeOK'
  BY DEF Clock!ClockInv, Clock!TypeOK, Clock!Ask, Clock!locals, Clock!Asking
<1>2. Clock!OneAnchor'
  BY DEF Sane, Clock!ClockInv, Clock!TypeOK, Clock!OneAnchor, Clock!Ask, Clock!locals,
     Clock!Asking
<1>3. Clock!Present' = Clock!Present
  BY DEF Clock!Present, Clock!Periods, Clock!Ask
<1>4. \A u \in Threads : Clock!NewCtr(u)' = Clock!NewCtr(u)
  BY DEF Clock!NewCtr, Clock!Periods, Clock!Ask, Clock!locals
<1>5. Clock!CountsKeepUp'
  BY <1>3, <1>4 DEF Clock!ClockInv, Clock!CountsKeepUp, Clock!TypeOK, Clock!Ask,
     Clock!locals, Clock!Asking
<1> QED
  BY <1>1, <1>2, <1>5 DEF Clock!ClockInv

LEMMA LoadAnchorKeeps ==
  ASSUME Sane, Clock!ClockInv, NEW t \in Threads, Clock!LoadAnchor(t)
  PROVE  Clock!ClockInv'
<1>1. Clock!TypeOK'
  BY DEF Clock!ClockInv, Clock!TypeOK, Clock!LoadAnchor, Clock!Asking
<1>2. Clock!OneAnchor'
  BY DEF Clock!ClockInv, Clock!TypeOK, Clock!OneAnchor, Clock!LoadAnchor, Clock!Asking
<1>3. Clock!Present' = Clock!Present
  BY DEF Clock!Present, Clock!Periods, Clock!LoadAnchor
<1>4. \A u \in Threads : u # t => Clock!NewCtr(u)' = Clock!NewCtr(u) /\ anchor'[u] = anchor[u]
  BY DEF Clock!NewCtr, Clock!Periods, Clock!LoadAnchor, Clock!ClockInv, Clock!TypeOK
<1>5. /\ \A u \in Threads : u # t => clockPc'[u] = clockPc[u]
      /\ clockPc'[t] \in {"make", "look"} /\ clockPc[t] = "load"
      /\ UNCHANGED <<time, periodCounter, now, ctr, latest, since>>
  BY DEF Clock!LoadAnchor, Clock!ClockInv, Clock!TypeOK
<1>6. Clock!CountsKeepUp'
  BY <1>3, <1>4, <1>5 DEF Clock!ClockInv, Clock!CountsKeepUp, Clock!Asking
<1> QED
  BY <1>1, <1>2, <1>6 DEF Clock!ClockInv

LEMMA MakeAnchorKeeps ==
  ASSUME Sane, Clock!ClockInv, NEW t \in Threads, Clock!MakeAnchor(t)
  PROVE  Clock!ClockInv'
<1>1. Clock!TypeOK'
  BY DEF Clock!ClockInv, Clock!TypeOK, Clock!MakeAnchor, Clock!Asking
<1>2. Clock!OneAnchor'
  BY DEF Clock!ClockInv, Clock!TypeOK, Clock!OneAnchor, Clock!MakeAnchor, Clock!Asking
<1>3. Clock!Present' = Clock!Present
  BY DEF Clock!Present, Clock!Periods, Clock!MakeAnchor
<1>4. \A u \in Threads : u # t => Clock!NewCtr(u)' = Clock!NewCtr(u) /\ anchor'[u] = anchor[u]
  BY DEF Clock!NewCtr, Clock!Periods, Clock!MakeAnchor, Clock!ClockInv, Clock!TypeOK
<1>5. /\ \A u \in Threads : u # t => clockPc'[u] = clockPc[u]
      /\ clockPc'[t] = "store" /\ clockPc[t] = "make"
      /\ UNCHANGED <<time, periodCounter, now, ctr, latest, since>>
  BY DEF Clock!MakeAnchor, Clock!ClockInv, Clock!TypeOK
<1>6. Clock!CountsKeepUp'
  BY <1>3, <1>4, <1>5 DEF Clock!ClockInv, Clock!CountsKeepUp, Clock!Asking
<1> QED
  BY <1>1, <1>2, <1>6 DEF Clock!ClockInv

\* Storing the anchor begins period 0: no count is ahead of it.
LEMMA StoreAnchorKeeps ==
  ASSUME Sane, Clock!ClockInv, NEW t \in Threads, Clock!StoreAnchor(t)
  PROVE  Clock!ClockInv'
<1>1. Clock!TypeOK'
  BY DEF Clock!ClockInv, Clock!TypeOK, Clock!StoreAnchor, Clock!Asking, Clock!locals
<1>2. Clock!OneAnchor'
  BY DEF Clock!ClockInv, Clock!TypeOK, Clock!OneAnchor, Clock!StoreAnchor, Clock!Asking,
     Clock!locals
<1>3. Clock!Present = 0 /\ Clock!Present' \in Nat
  <2>1. anchorHostTime = 0
    BY DEF Clock!ClockInv, Clock!OneAnchor, Clock!StoreAnchor
  <2>2. time' \in Nat /\ anchorHostTime' \in Nat /\ anchorHostTime' <= time'
    BY <1>1, <1>2 DEF Clock!TypeOK, Clock!OneAnchor
  <2>3. (IF anchorHostTime' = 0 THEN 0 ELSE Clock!Periods(time' - anchorHostTime')) \in Nat
    BY <2>2, PresentIsNat
  <2> QED
    BY <2>1, <2>3 DEF Clock!Present, Clock!Periods
<1>4. \A u \in Threads : u # t => clockPc[u] = "idle"
  BY DEF Clock!ClockInv, Clock!TypeOK, Clock!OneAnchor, Clock!StoreAnchor, Clock!Asking
<1>5. /\ \A u \in Threads : u # t => clockPc'[u] = "idle"
      /\ clockPc'[t] = "look" /\ clockPc[t] = "store"
      /\ UNCHANGED <<periodCounter, latest, since>>
  BY <1>4 DEF Clock!StoreAnchor, Clock!ClockInv, Clock!TypeOK
<1>6. Clock!CountsKeepUp'
  BY <1>3, <1>5 DEF Clock!ClockInv, Clock!CountsKeepUp, Clock!TypeOK, Clock!Asking
<1> QED
  BY <1>1, <1>2, <1>6 DEF Clock!ClockInv

\* The time is looked at after the call began: it is in a period no earlier than
\* those returned by then.
LEMMA LookAtTimeKeeps ==
  ASSUME Sane, Clock!ClockInv, NEW t \in Threads, Clock!LookAtTime(t)
  PROVE  Clock!ClockInv'
<1>1. Clock!TypeOK'
  BY DEF Clock!ClockInv, Clock!TypeOK, Clock!LookAtTime, Clock!Asking
<1>2. Clock!OneAnchor'
  BY DEF Clock!ClockInv, Clock!TypeOK, Clock!OneAnchor, Clock!LookAtTime, Clock!Asking
<1>3. Clock!Present' = Clock!Present
  BY DEF Clock!Present, Clock!Periods, Clock!LookAtTime
<1>4. \A u \in Threads : u # t => Clock!NewCtr(u)' = Clock!NewCtr(u) /\ now'[u] = now[u]
  BY DEF Clock!NewCtr, Clock!Periods, Clock!LookAtTime, Clock!ClockInv, Clock!TypeOK
<1>5. /\ \A u \in Threads : u # t => clockPc'[u] = clockPc[u]
      /\ clockPc'[t] = "count" /\ clockPc[t] = "look"
      /\ UNCHANGED <<time, periodCounter, anchor, ctr, latest, since>>
  BY DEF Clock!LookAtTime, Clock!ClockInv, Clock!TypeOK
<1>6. now'[t] = time /\ anchor[t] = anchorHostTime /\ anchorHostTime # 0 /\ anchor[t] <= time
  BY DEF Clock!LookAtTime, Clock!ClockInv, Clock!OneAnchor, Clock!TypeOK
<1>7. Clock!NewCtr(t)' = Clock!Present
  BY <1>5, <1>6 DEF Clock!NewCtr, Clock!Periods, Clock!Present
<1>8. Clock!CountsKeepUp'
  BY <1>3, <1>4, <1>5, <1>6, <1>7 DEF Clock!ClockInv, Clock!CountsKeepUp, Clock!TypeOK,
     Clock!Asking
<1> QED
  BY <1>1, <1>2, <1>8 DEF Clock!ClockInv

\* The greater of two counts that have both begun.
LEMMA LoadCounterKeeps ==
  ASSUME Sane, Clock!ClockInv, NEW t \in Threads, Clock!LoadCounter(t)
  PROVE  Clock!ClockInv'
<1>1. Clock!NewCtr(t) \in Nat /\ Clock!NewCtr(t) <= Clock!Present
  BY NewCtrIsNat, CountsThePast DEF Clock!ClockInv, Clock!LoadCounter
<1>2. Clock!TypeOK'
  BY <1>1 DEF Clock!ClockInv, Clock!TypeOK, Clock!LoadCounter, Clock!Asking
<1>3. Clock!OneAnchor'
  BY DEF Clock!ClockInv, Clock!TypeOK, Clock!OneAnchor, Clock!LoadCounter, Clock!Asking
<1>4. Clock!Present' = Clock!Present /\ \A u \in Threads : Clock!NewCtr(u)' = Clock!NewCtr(u)
  BY DEF Clock!Present, Clock!NewCtr, Clock!Periods, Clock!LoadCounter
<1>5. /\ \A u \in Threads : u # t => clockPc'[u] = clockPc[u] /\ ctr'[u] = ctr[u]
      /\ clockPc'[t] \in {"advance", "stamp"} /\ clockPc[t] = "count"
      /\ UNCHANGED <<time, periodCounter, anchor, now, latest, since>>
  BY DEF Clock!LoadCounter, Clock!ClockInv, Clock!TypeOK
<1>6. Clock!NewCtr(t) <= ctr'[t] /\ ctr'[t] <= Clock!Present
  BY <1>1 DEF Clock!LoadCounter, Clock!ClockInv, Clock!TypeOK, Clock!CountsKeepUp
<1>7. Clock!CountsKeepUp'
  BY <1>4, <1>5, <1>6 DEF Clock!ClockInv, Clock!CountsKeepUp, Clock!Asking
<1> QED
  BY <1>2, <1>3, <1>7 DEF Clock!ClockInv

LEMMA StoreCounterKeeps ==
  ASSUME Sane, Clock!ClockInv, NEW t \in Threads, Clock!StoreCounter(t)
  PROVE  Clock!ClockInv'
<1>1. Clock!TypeOK'
  BY DEF Clock!ClockInv, Clock!TypeOK, Clock!StoreCounter, Clock!Asking, Clock!locals
<1>2. Clock!OneAnchor'
  BY DEF Clock!ClockInv, Clock!TypeOK, Clock!OneAnchor, Clock!StoreCounter, Clock!Asking,
     Clock!locals
<1>3. Clock!Present' = Clock!Present /\ \A u \in Threads : Clock!NewCtr(u)' = Clock!NewCtr(u)
  BY DEF Clock!Present, Clock!NewCtr, Clock!Periods, Clock!StoreCounter, Clock!locals
<1>4. Clock!CountsKeepUp'
  BY <1>3 DEF Clock!ClockInv, Clock!CountsKeepUp, Clock!TypeOK, Clock!StoreCounter,
     Clock!Asking, Clock!locals
<1> QED
  BY <1>1, <1>2, <1>4 DEF Clock!ClockInv

LEMMA ReturnKeeps ==
  ASSUME Sane, Clock!ClockInv, NEW t \in Threads, Clock!Return(t)
  PROVE  Clock!ClockInv'
<1>1. Clock!TypeOK'
  BY DEF Clock!ClockInv, Clock!TypeOK, Clock!Return, Clock!Asking, Clock!locals
<1>2. Clock!OneAnchor'
  BY DEF Clock!ClockInv, Clock!TypeOK, Clock!OneAnchor, Clock!Return, Clock!Asking,
     Clock!locals
<1>3. Clock!Present' = Clock!Present /\ \A u \in Threads : Clock!NewCtr(u)' = Clock!NewCtr(u)
  BY DEF Clock!Present, Clock!NewCtr, Clock!Periods, Clock!Return, Clock!locals
<1>4. Clock!CountsKeepUp'
  BY <1>3 DEF Clock!ClockInv, Clock!CountsKeepUp, Clock!TypeOK, Clock!Return,
     Clock!Asking, Clock!locals
<1> QED
  BY <1>1, <1>2, <1>4 DEF Clock!ClockInv

LEMMA ClockStutterKeeps ==
  ASSUME Clock!ClockInv, UNCHANGED Clock!vars
  PROVE  Clock!ClockInv'
<1>1. Clock!TypeOK'
  BY DEF Clock!ClockInv, Clock!TypeOK, Clock!vars, Clock!locals
<1>2. Clock!OneAnchor'
  BY DEF Clock!ClockInv, Clock!OneAnchor, Clock!vars, Clock!locals
<1>3. Clock!CountsKeepUp'
  BY DEF Clock!ClockInv, Clock!CountsKeepUp, Clock!Present, Clock!NewCtr, Clock!Periods,
     Clock!vars, Clock!locals
<1> QED
  BY <1>1, <1>2, <1>3 DEF Clock!ClockInv

LEMMA ClockStepKeeps ==
  ASSUME Sane, Clock!ClockInv, [Clock!Next]_Clock!vars
  PROVE  Clock!ClockInv'
<1>1. CASE Clock!Tick
  BY <1>1, TickKeeps
<1>2. ASSUME NEW t \in Threads, Clock!Ask(t) \/ Clock!GetZeroTimeStamp(t)
      PROVE  Clock!ClockInv'
  BY <1>2, AskKeeps, LoadAnchorKeeps, MakeAnchorKeeps, StoreAnchorKeeps, LookAtTimeKeeps,
     LoadCounterKeeps, StoreCounterKeeps, ReturnKeeps DEF Clock!GetZeroTimeStamp
<1>3. CASE UNCHANGED Clock!vars
  BY <1>3, ClockStutterKeeps
<1> QED
  BY <1>1, <1>2, <1>3 DEF Clock!Next

-----------------------------------------------------------------------------
(* The theorems                                                            *)

\* The threads agree on the anchor, and no count is ahead of the clock or behind
\* what the call must know.
THEOREM ClockInvariant ==
  ASSUME Sane
  PROVE  Clock!Spec => []Clock!ClockInv
<1>1. Clock!Init => Clock!ClockInv
  BY ClockInitHolds
<1>2. Clock!ClockInv /\ [Clock!Next]_Clock!vars => Clock!ClockInv'
  BY ClockStepKeeps
<1> QED
  BY <1>1, <1>2, PTL DEF Clock!Spec

\* Time never goes back for a client, although two threads may store the counter
\* in the wrong order: each call corrects it by the time it looks at itself.
THEOREM TimeNeverGoesBack ==
  ASSUME Sane
  PROVE  Clock!Spec => []Clock!NeverBack
<1>1. Clock!ClockInv => Clock!NeverBack
  <2> SUFFICES ASSUME Clock!ClockInv, NEW t \in Threads, clockPc[t] = "stamp"
               PROVE  since[t] <= ctr[t]
    BY DEF Clock!NeverBack
  <2>1. since[t] <= Clock!NewCtr(t) /\ Clock!NewCtr(t) <= ctr[t]
    BY DEF Clock!ClockInv, Clock!CountsKeepUp
  <2>2. Clock!NewCtr(t) \in Nat /\ since[t] \in Nat /\ ctr[t] \in Nat
    BY NewCtrIsNat DEF Clock!ClockInv, Clock!TypeOK
  <2> QED
    BY <2>1, <2>2
<1> QED
  BY <1>1, ClockInvariant, PTL

\* No stamp has a host time in the future, whatever period another thread has
\* stored meanwhile.
THEOREM TimeNeverAhead ==
  ASSUME Sane
  PROVE  Clock!Spec => []Clock!NeverAhead
<1>1. Clock!ClockInv => Clock!NeverAhead
  <2> SUFFICES ASSUME Clock!ClockInv, NEW t \in Threads, clockPc[t] = "stamp"
               PROVE  Clock!HostTime(t) <= time
    BY DEF Clock!NeverAhead
  <2>1. /\ anchor[t] = anchorHostTime /\ anchorHostTime # 0 /\ anchorHostTime <= time
        /\ ctr[t] <= Clock!Present
    BY DEF Clock!ClockInv, Clock!OneAnchor, Clock!CountsKeepUp
  <2>2. time - anchorHostTime \in Nat /\ ctr[t] \in Nat
        /\ time \in Nat /\ anchorHostTime \in Nat
    BY <2>1 DEF Clock!ClockInv, Clock!TypeOK
  <2>3. ctr[t] <= Clock!Periods(time - anchorHostTime)
    BY <2>1 DEF Clock!Present
  <2>4. Clock!Ticks(ctr[t]) <= time - anchorHostTime
    BY <2>2, <2>3, PeriodHasBegun
  <2>5. ctr[t] * Num \in Nat
    BY <2>2 DEF Sane
  <2>6. Clock!Ticks(ctr[t]) \in Nat
    BY <2>5, QuotientBounds DEF Clock!Ticks, Sane
  <2> QED
    BY <2>1, <2>2, <2>4, <2>6 DEF Clock!HostTime
<1> QED
  BY <1>1, ClockInvariant, PTL

\* Every stamp is of the period the call was made in, or a later one: the HAL
\* never has to ask again to catch up.
THEOREM TimeNeverStale ==
  ASSUME Sane
  PROVE  Clock!Spec => []Clock!NeverStale
<1>1. Clock!ClockInv => Clock!NeverStale
  <2> SUFFICES ASSUME Clock!ClockInv, NEW t \in Threads, clockPc[t] = "stamp"
               PROVE  (now[t] - anchor[t]) * Den < (ctr[t] + 1) * Num
    BY DEF Clock!NeverStale
  <2>1. anchor[t] <= now[t] /\ Clock!NewCtr(t) <= ctr[t]
    BY DEF Clock!ClockInv, Clock!CountsKeepUp
  <2>2. now[t] - anchor[t] \in Nat /\ ctr[t] \in Nat
    BY <2>1 DEF Clock!ClockInv, Clock!TypeOK
  <2>3. Clock!Periods(now[t] - anchor[t]) <= ctr[t]
    BY <2>1, <2>2 DEF Clock!NewCtr, Clock!ClockInv, Clock!TypeOK
  <2> QED
    BY <2>2, <2>3, PeriodHasNotEnded
<1> QED
  BY <1>1, ClockInvariant, PTL
=============================================================================
