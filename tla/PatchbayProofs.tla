---------------------------- MODULE PatchbayProofs ----------------------------
(***************************************************************************)
(* Theorems about Patchbay, for any entities, streams, names, devices and  *)
(* number of events and picks.                                             *)
(***************************************************************************)
EXTENDS Patchbay, FiniteSetTheorems, SequenceTheorems, WellFoundedInduction, TLAPS

-----------------------------------------------------------------------------
(* Numbers and sequences                                                   *)

\* What holds of 0 and is handed on from each number to the next holds up to n.
LEMMA UpTo ==
  ASSUME NEW n \in Nat, NEW S, 0 \in S, \A i \in 1..n : i - 1 \in S => i \in S
  PROVE  0..n \subseteq S
<1> DEFINE left == {i \in 0..n : i \notin S}
<1>1. SUFFICES ASSUME left # {} PROVE FALSE
  OBVIOUS
<1>2. left \in SUBSET Nat
  OBVIOUS
<1>3. PICK i \in left : \A j \in left : ~(<<j, i>> \in OpToRel(<, Nat))
  BY <1>1, <1>2, NatLessThanWellFounded, WFMin
<1>4. i \in 1..n /\ i - 1 \in 0..n /\ i - 1 < i
  OBVIOUS
<1>5. <<i - 1, i>> \in OpToRel(<, Nat)
  BY <1>4 DEF OpToRel
<1>6. i - 1 \in S
  BY <1>3, <1>4, <1>5
<1> QED
  BY <1>4, <1>6

\* A set of positions in a sequence has a last one.
LEMMA MaxIsLargest ==
  ASSUME NEW n \in Nat, NEW S \in SUBSET (1..n), S # {}
  PROVE  Max(S) \in S /\ \A y \in S : Max(S) >= y
<1> DEFINE T == {m \in Nat : \E x \in S : m = n - x}
<1>1. T \in SUBSET Nat /\ T # {}
  <2>1. PICK x \in S : x \in 1..n
    OBVIOUS
  <2>2. n - x \in T
    BY <2>1
  <2> QED
    BY <2>2
<1>2. PICK m \in T : \A k \in T : ~(<<k, m>> \in OpToRel(<, Nat))
  BY <1>1, NatLessThanWellFounded, WFMin
<1>3. PICK x \in S : m = n - x
  OBVIOUS
<1>4. ASSUME NEW y \in S PROVE x >= y
  <2>1. n - y \in T
    OBVIOUS
  <2>2. ~(<<n - y, n - x>> \in OpToRel(<, Nat))
    BY <1>2, <1>3, <2>1
  <2>3. ~(n - y < n - x)
    BY <1>3, <2>1, <2>2 DEF OpToRel
  <2> QED
    BY <2>3
<1> QED
  BY <1>4 DEF Max

LEMMA MinOfTwo ==
  ASSUME NEW a \in Nat, NEW b \in Nat
  PROVE  Min({a, b}) = IF a <= b THEN a ELSE b
<1> DEFINE m == IF a <= b THEN a ELSE b
<1>1. m \in {a, b} /\ \A y \in {a, b} : m <= y
  OBVIOUS
<1>2. \A x \in {a, b} : (\A y \in {a, b} : x <= y) => x = m
  OBVIOUS
<1> QED
  BY <1>1, <1>2 DEF Min

LEMMA SequenceRange ==
  ASSUME NEW S, NEW s \in Seq(S)
  PROVE  /\ Range(s) \subseteq S /\ (\A i \in DOMAIN s : s[i] \in Range(s))
         /\ IsFiniteSet(Range(s))
<1>1. DOMAIN s = 1..Len(s) /\ Len(s) \in Nat /\ s \in [1..Len(s) -> S]
  BY LenProperties, Zenon
<1>2. Range(s) = {s[i] : i \in 1..Len(s)}
  BY <1>1 DEF Range
<1>3. IsFiniteSet({s[i] : i \in 1..Len(s)})
  <2>1. IsFiniteSet(1..Len(s))
    BY <1>1, FS_Interval
  <2>2. s \in Surjection(1..Len(s), Range(s))
    BY <1>1, <1>2 DEF Surjection
  <2> QED
    BY <1>2, <2>1, <2>2, FS_Surjection
<1>4. Range(s) \subseteq S
  BY <1>1, <1>2
<1>5. \A i \in DOMAIN s : s[i] \in Range(s)
  BY DEF Range
<1> QED
  BY <1>2, <1>3, <1>4, <1>5, Zenon

\* An order of a finite set has all its members, each once.
LEMMA OrdersOfSet ==
  ASSUME NEW T, NEW S \in SUBSET T, IsFiniteSet(S), NEW o \in SetToSeqs(S)
  PROVE  o \in Seq(T) /\ IsInjective(o) /\ Range(o) = S
<1> DEFINE n == Cardinality(S)
<1>1. n \in Nat
  BY FS_CardinalityType
<1>2. o \in [1..n -> S] /\ \A i, j \in 1..n : i # j => o[i] # o[j]
  BY DEF SetToSeqs
<1>3. o \in Seq(T) /\ DOMAIN o = 1..n
  BY <1>1, <1>2
<1>4. IsInjective(o)
  BY <1>2, <1>3 DEF IsInjective
<1>5. o \in Injection(1..n, S)
  BY <1>2 DEF Injection, IsInjective
<1>6. IsFiniteSet(1..n) /\ Cardinality(1..n) = n
  BY <1>1, FS_Interval
<1>7. o \in Surjection(1..n, S)
  BY <1>5, <1>6, FS_Injection
<1>8. Range(o) = S
  BY <1>2, <1>3, <1>7 DEF Surjection, Range
<1> QED
  BY <1>3, <1>4, <1>8

\* What is kept is in the set, and was in the sequence.
LEMMA OnlyKeeps ==
  ASSUME NEW S, NEW seq \in Seq(S), NEW set
  PROVE  Only(seq, set) \in Seq(S \cap set)
<1> DEFINE n == Len(seq)
           Value(f, i) == IF i = 0 THEN << >>
                          ELSE IF seq[i] \in set THEN Append(f[i - 1], seq[i])
                          ELSE f[i - 1]
           T == S \cap set
           upTo(m) == \E f \in [0..m -> Seq(T)] : \A i \in 0..m : f[i] = Value(f, i)
           M == {m \in 0..n : upTo(m)}
<1>1. n \in Nat /\ \A i \in 1..n : seq[i] \in S
  BY LenProperties, ElementOfSeq
<1>2. 0 \in M
  <2>1. [i \in 0..0 |-> << >>] \in [0..0 -> Seq(T)]
    OBVIOUS
  <2>2. \A i \in 0..0 : [j \in 0..0 |-> << >>][i] = Value([j \in 0..0 |-> << >>], i)
    OBVIOUS
  <2>3. upTo(0)
    BY <2>1, <2>2
  <2> HIDE DEF upTo
  <2> QED
    BY <1>1, <2>3
<1>3. ASSUME NEW m \in 1..n, m - 1 \in M
      PROVE  m \in M
  <2>1. PICK f \in [0..(m - 1) -> Seq(T)] : \A i \in 0..(m - 1) : f[i] = Value(f, i)
    BY <1>3
  <2> DEFINE g == [i \in 0..m |-> IF i = m THEN Value(f, m) ELSE f[i]]
  <2>2. m \in Nat /\ m - 1 \in Nat /\ m # 0 /\ m - 1 \in 0..(m - 1) /\ f[m - 1] \in Seq(T)
    BY <1>1, <1>3, <2>1
  <2>3. Value(f, m) \in Seq(T)
    BY <1>1, <2>2, AppendProperties
  <2>4. g \in [0..m -> Seq(T)]
    <3> HIDE DEF Value
    <3>1. \A i \in 0..m : i # m => i \in 0..(m - 1)
      BY <2>2
    <3> QED
      BY <2>1, <2>3, <3>1
  <2>5. ASSUME NEW i \in 0..m
        PROVE  g[i] = Value(g, i)
    <3>1. CASE i = 0
      BY <2>1, <2>2, <3>1
    <3>2. CASE i # 0
      <4>1. i - 1 \in 0..m /\ i - 1 # m /\ i \in 1..m
        BY <2>2, <3>2
      <4>2. g[i - 1] = f[i - 1]
        BY <4>1
      <4>3. Value(g, i) = Value(f, i)
        BY <3>2, <4>2
      <4>4. g[i] = Value(f, i)
        <5> HIDE DEF Value
        <5>1. i # m => i \in 0..(m - 1)
          BY <2>2
        <5> QED
          BY <2>1, <5>1
      <4> QED
        BY <4>3, <4>4
    <3> QED
      BY <3>1, <3>2
  <2> HIDE DEF g, Value
  <2>6. upTo(m)
    BY <2>4, <2>5
  <2> HIDE DEF upTo
  <2> QED
    BY <1>1, <2>6
<1>4. PICK f \in [0..n -> Seq(T)] : \A i \in 0..n : f[i] = Value(f, i)
  <2>1. 0..n \subseteq M
    <3> HIDE DEF M
    <3> QED
      BY <1>1, <1>2, <1>3, UpTo
  <2>2. upTo(n)
    <3> HIDE DEF upTo
    <3> QED
      BY <1>1, <2>1
  <2> HIDE DEF Value
  <2> QED
    BY <2>2
<1>5. f = [i \in 0..n |-> Value(f, i)]
  <2> HIDE DEF Value
  <2> QED
    BY <1>4
<1> DEFINE h == CHOOSE r : r = [i \in 0..n |-> Value(r, i)]
<1>6. h = [i \in 0..n |-> Value(h, i)]
  BY <1>5
<1>7. Only(seq, set) = h[n]
  BY DEF Only
<1> HIDE DEF h
<1> DEFINE Typed == {i \in 0..n : h[i] \in Seq(T)}
<1>8. 0..n \subseteq Typed
  <2>1. \A i \in 0..n : h[i] = Value(h, i)
    <3> HIDE DEF Value
    <3> QED
      BY <1>6, Zenon
  <2>2. 0 \in Typed
    <3>1. 0 \in 0..n /\ h[0] = << >>
      BY <1>1, <2>1
    <3> QED
      BY <3>1
  <2>3. ASSUME NEW i \in 1..n, i - 1 \in Typed
        PROVE  i \in Typed
    <3>1. i \in 0..n /\ i # 0 /\ h[i - 1] \in Seq(T) /\ h[i] = Value(h, i)
      BY <1>1, <2>1, <2>3
    <3>2. Value(h, i) \in Seq(T)
      BY <1>1, <3>1, AppendProperties
    <3> QED
      BY <3>1, <3>2
  <2> HIDE DEF Typed
  <2> QED
    BY <1>1, <2>2, <2>3, UpTo
<1> QED
  BY <1>1, <1>7, <1>8

-----------------------------------------------------------------------------
(* What the operators of the model return                                  *)

Devices == [uid : Nat, channels : 0..Unassigned]
Conns   == [stream : Nat, talker : Listed \cup {0}]

\* A bridge has a channel, and all its channels have numbers.
LEMMA BridgesHaveChannels ==
  ASSUME NEW b \in Bridges
  PROVE  b \in Devices /\ b.channels \in Nat /\ 0 < b.channels /\ b.channels <= Unassigned
<1>1. PICK devices \in DeviceLists : b \in Range(devices)
  BY DEF Bridges
<1>2. devices \in Seq(Devices)
  BY DevicesAssumption DEF Devices
<1>3. b \in Devices
  BY <1>1, <1>2, SequenceRange
<1> QED
  BY <1>3 DEF Bridges, Devices, Unassigned

LEMMA OfferedType ==
  ASSUME NEW devices \in DeviceLists
  PROVE  Offered(devices) \in Seq(Bridges)
<1>1. devices \in Seq(Devices)
  BY DevicesAssumption DEF Devices
<1>2. Offered(devices) \in Seq(Devices \cap Bridges)
  BY <1>1, OnlyKeeps DEF Offered
<1>3. Devices \cap Bridges = Bridges
  BY BridgesHaveChannels
<1> QED
  BY <1>2, <1>3

\* The audio inputs of an entity are among its inputs, and have channels.
LEMMA AudioInputsType ==
  ASSUME NEW e \in Entities
  PROVE  /\ AudioInputs(e) \in Seq(1..Len(Inputs[e]))
         /\ \A i \in DOMAIN AudioInputs(e) : Inputs[e][AudioInputs(e)[i]] \in Nat \ {0}
<1> DEFINE audio == {s \in DOMAIN Inputs[e] : Inputs[e][s] > 0}
           all == [s \in DOMAIN Inputs[e] |-> s]
<1>1. Inputs[e] \in Seq(Nat)
  BY EntitiesAssumption
<1>2. /\ DOMAIN Inputs[e] = 1..Len(Inputs[e]) /\ Len(Inputs[e]) \in Nat
      /\ \A s \in 1..Len(Inputs[e]) : Inputs[e][s] \in Nat
  BY <1>1, LenProperties, ElementOfSeq
<1>3. all \in Seq(1..Len(Inputs[e]))
  BY <1>2
<1>4. AudioInputs(e) \in Seq((1..Len(Inputs[e])) \cap audio)
  <2> HIDE DEF all, audio
  <2>1. Only(all, audio) \in Seq((1..Len(Inputs[e])) \cap audio)
    BY <1>3, OnlyKeeps
  <2> QED
    BY <2>1 DEF AudioInputs, all, audio
<1>5. (1..Len(Inputs[e])) \cap audio = audio
  BY <1>2
<1>6. \A i \in DOMAIN AudioInputs(e) : AudioInputs(e)[i] \in audio
  <2> HIDE DEF audio
  <2> QED
    BY <1>4, <1>5, LenProperties, ElementOfSeq
<1>7. AudioInputs(e) \in Seq(1..Len(Inputs[e]))
  <2> HIDE DEF audio
  <2>1. DOMAIN AudioInputs(e) = 1..Len(AudioInputs(e)) /\ Len(AudioInputs(e)) \in Nat
    BY <1>4, LenProperties
  <2>2. \A i \in 1..Len(AudioInputs(e)) : AudioInputs(e)[i] \in 1..Len(Inputs[e])
    BY <1>4, ElementOfSeq
  <2> QED
    BY <1>4, <2>1, <2>2
<1> QED
  BY <1>2, <1>6, <1>7

\* The streams of a listener, before their talkers are known.
LEMMA StreamsType ==
  ASSUME NEW e \in Entities
  PROVE  /\ Streams(e) \in Seq(Conns) /\ Len(Streams(e)) = Len(AudioInputs(e))
         /\ \A i \in 1..Len(AudioInputs(e)) :
              Streams(e)[i] = [stream |-> AudioInputs(e)[i], talker |-> 0]
<1> DEFINE audio == AudioInputs(e)
<1>1. audio \in Seq(1..Len(Inputs[e])) /\ Len(Inputs[e]) \in Nat
  BY AudioInputsType, EntitiesAssumption, LenProperties
<1>2. DOMAIN audio = 1..Len(audio) /\ Len(audio) \in Nat
  BY <1>1, LenProperties
<1>3. \A i \in 1..Len(audio) : audio[i] \in Nat
  BY <1>1, ElementOfSeq
<1> HIDE DEF audio
<1>4. Streams(e) = [i \in 1..Len(audio) |-> [stream |-> audio[i], talker |-> 0]]
  BY <1>2 DEF Streams, audio
<1>5. Streams(e) \in Seq(Conns) /\ Len(Streams(e)) = Len(audio)
  BY <1>2, <1>3, <1>4 DEF Conns
<1> QED
  BY <1>4, <1>5 DEF audio

LEMMA ConnectionsType ==
  ASSUME bridgeListenerEntityId \in Entities \cup {0}, online \subseteq Entities
  PROVE  Connections \in Seq(Conns)
<1>1. CASE bridgeListenerEntityId \in online
  BY <1>1, StreamsType, EmptySeq DEF Connections
<1>2. CASE bridgeListenerEntityId \notin online
  BY <1>2, EmptySeq DEF Connections
<1> QED
  BY <1>1, <1>2

\* The talkers are put in; nothing else changes.
LEMMA WithTalkersType ==
  ASSUME NEW conns \in Seq(Conns)
  PROVE  /\ WithTalkers(conns) \in Seq(Conns) /\ Len(WithTalkers(conns)) = Len(conns)
         /\ \A i \in 1..Len(conns) :
              LET t == feeds[bridgeListenerEntityId][conns[i].stream] IN
              WithTalkers(conns)[i] =
                [stream |-> conns[i].stream, talker |-> IF t \in Listed \cap online THEN t ELSE 0]
<1> DEFINE t(i) == feeds[bridgeListenerEntityId][conns[i].stream]
           with(i) == [stream |-> conns[i].stream,
                       talker |-> IF t(i) \in Listed \cap online THEN t(i) ELSE 0]
<1>1. DOMAIN conns = 1..Len(conns) /\ Len(conns) \in Nat
  BY LenProperties
<1>2. \A i \in 1..Len(conns) : conns[i] \in Conns
  BY ElementOfSeq
<1>3. WithTalkers(conns) = [i \in 1..Len(conns) |-> with(i)]
  BY <1>1, <1>2 DEF WithTalkers, Conns, Listed
<1>4. \A i \in 1..Len(conns) : with(i) \in Conns
  BY <1>2 DEF Conns
<1> HIDE DEF with
<1>5. WithTalkers(conns) \in Seq(Conns) /\ Len(WithTalkers(conns)) = Len(conns)
  BY <1>1, <1>3, <1>4
<1> QED
  BY <1>3, <1>5 DEF with

\* The streams that reach a channel.
Reach(total, conns, c) ==
  {i \in DOMAIN conns : /\ conns[i].talker # 0
                        /\ Offset(total, conns, i) < c
                        /\ c <= Offset(total, conns, i)
                                 + Inputs[bridgeListenerEntityId][conns[i].stream]}

\* Each channel gets a source; that of the last stream which reaches it, if any.
LEMMA AnnotateType ==
  ASSUME NEW total \in Nat, NEW conns \in Seq(Conns), Listed \subseteq Entities,
         \A e \in Listed : entities[e] \in Names
  PROVE  /\ Annotate(total, conns) \in Seq(Sources) /\ Len(Annotate(total, conns)) = total
         /\ \A c \in 1..total :
              IF Reach(total, conns, c) = {} THEN Annotate(total, conns)[c] = 0
              ELSE \E i \in Reach(total, conns, c) :
                     Annotate(total, conns)[c] =
                       Source(conns[i].talker, entities[conns[i].talker])
<1> DEFINE last(c) == Max(Reach(total, conns, c))
           shown(c) == IF Reach(total, conns, c) = {} THEN 0
                       ELSE Source(conns[last(c)].talker, entities[conns[last(c)].talker])
<1>1. DOMAIN conns = 1..Len(conns) /\ Len(conns) \in Nat
  BY LenProperties
<1>2. \A i \in 1..Len(conns) : conns[i] \in Conns
  BY ElementOfSeq
<1>3. Annotate(total, conns) = [c \in 1..total |-> shown(c)]
  BY Zenon DEF Annotate, Reach
<1>4. ASSUME NEW c \in 1..total, Reach(total, conns, c) # {}
      PROVE  last(c) \in Reach(total, conns, c)
  <2>1. Reach(total, conns, c) \in SUBSET (1..Len(conns))
    BY <1>1 DEF Reach
  <2> QED
    BY <1>1, <1>4, <2>1, MaxIsLargest
<1>5. ASSUME NEW c \in 1..total
      PROVE  shown(c) \in Sources
  <2>1. CASE Reach(total, conns, c) = {}
    BY <2>1 DEF Sources
  <2>2. CASE Reach(total, conns, c) # {}
    <3>1. last(c) \in 1..Len(conns) /\ conns[last(c)].talker # 0
      BY <1>1, <1>4, <2>2 DEF Reach
    <3>2. conns[last(c)].talker \in Listed
      BY <1>2, <3>1 DEF Conns
    <3> QED
      BY <2>2, <3>2 DEF Sources
  <2> QED
    BY <2>1, <2>2
<1> HIDE DEF shown
<1>6. Annotate(total, conns) \in Seq(Sources) /\ Len(Annotate(total, conns)) = total
  BY <1>3, <1>5
<1>7. \A c \in 1..total : Annotate(total, conns)[c] = shown(c)
  BY <1>3
<1>8. ASSUME NEW c \in 1..total
      PROVE  IF Reach(total, conns, c) = {} THEN Annotate(total, conns)[c] = 0
             ELSE \E i \in Reach(total, conns, c) :
                    Annotate(total, conns)[c] =
                      Source(conns[i].talker, entities[conns[i].talker])
  <2>1. CASE Reach(total, conns, c) = {}
    BY <1>7, <2>1 DEF shown
  <2>2. CASE Reach(total, conns, c) # {}
    BY <1>4, <1>7, <2>2, Zenon DEF shown
  <2> QED
    BY <2>1, <2>2, Zenon
<1> QED
  BY <1>6, <1>8, Zenon

\* rebuildPatchbay: a row for each channel, up to MaxRows, with its source.
LEMMA IdentityType ==
  ASSUME NEW infos \in Seq(Sources)
  PROVE  /\ Identity(infos) \in Seq([ch : Nat, eid : Sources])
         /\ Len(Identity(infos)) = Min({Len(infos), MaxRows})
         /\ \A i \in DOMAIN Identity(infos) :
              /\ Identity(infos)[i].ch + 1 \in DOMAIN infos
              /\ Identity(infos)[i].eid = infos[Identity(infos)[i].ch + 1]
<1> DEFINE n == Min({Len(infos), MaxRows})
<1>1. Len(infos) \in Nat /\ DOMAIN infos = 1..Len(infos) /\ MaxRows \in Nat
  BY LenProperties, BoundsAssumption
<1>2. n \in Nat /\ n <= Len(infos)
  BY <1>1, MinOfTwo
<1> HIDE DEF n
<1>3. \A i \in 1..n : infos[i] \in Sources /\ i \in DOMAIN infos
  BY <1>1, <1>2
<1>4. Identity(infos) = [i \in 1..n |-> [ch |-> i - 1, eid |-> infos[i]]]
  BY DEF Identity, n
<1>5. Identity(infos) \in Seq([ch : Nat, eid : Sources]) /\ Len(Identity(infos)) = n
  BY <1>2, <1>3, <1>4
<1>6. ASSUME NEW i \in 1..n
      PROVE  /\ Identity(infos)[i].ch + 1 \in DOMAIN infos
             /\ Identity(infos)[i].eid = infos[Identity(infos)[i].ch + 1]
  <2>1. Identity(infos)[i] = [ch |-> i - 1, eid |-> infos[i]] /\ (i - 1) + 1 = i
    BY <1>2, <1>4
  <2> QED
    BY <1>3, <2>1
<1>7. DOMAIN Identity(infos) = 1..n
  BY <1>4
<1> QED
  BY <1>5, <1>6, <1>7 DEF n

LEMMA MapType ==
  ASSUME NEW rows \in Seq([ch : Nat, eid : Sources])
  PROVE  MapOf(rows) \in Seq(Sources)
<1>1. DOMAIN rows = 1..Len(rows) /\ Len(rows) \in Nat
  BY LenProperties
<1>2. \A i \in 1..Len(rows) : rows[i] \in [ch : Nat, eid : Sources]
  BY ElementOfSeq
<1>3. \A i \in 1..Len(rows) : rows[i].eid \in Sources
  BY <1>2
<1> QED
  BY <1>1, <1>3 DEF MapOf

-----------------------------------------------------------------------------
(* What feeds the listener                                                 *)

\* What a connection is read from is an input of the listener, which is there.
LEMMA ConnectionsAreInputs ==
  ASSUME TypeOK, NEW i \in DOMAIN Connections
  PROVE  /\ bridgeListenerEntityId \in online /\ bridgeListenerEntityId \in Entities
         /\ Connections[i].stream \in DOMAIN feeds[bridgeListenerEntityId]
         /\ feeds[bridgeListenerEntityId][Connections[i].stream]
              \in Range(feeds[bridgeListenerEntityId])
<1> DEFINE l == bridgeListenerEntityId
           audio == AudioInputs(l)
<1>1. l \in online /\ Connections = Streams(l)
  <2>1. CASE bridge.channels > 0 /\ l \in online
    BY <2>1 DEF Connections
  <2>2. CASE ~(bridge.channels > 0 /\ l \in online)
    <3>1. Connections = << >>
      BY <2>2 DEF Connections
    <3> QED
      BY <3>1
  <2> QED
    BY <2>1, <2>2
<1>2. l \in Entities /\ online \subseteq Entities
  BY <1>1 DEF TypeOK
<1>3. /\ Streams(l) \in Seq(Conns) /\ Len(Streams(l)) = Len(audio)
      /\ \A j \in 1..Len(audio) : Streams(l)[j] = [stream |-> audio[j], talker |-> 0]
  BY <1>2, StreamsType
<1>4. i \in 1..Len(audio)
  BY <1>1, <1>3, LenProperties
<1>5. audio \in Seq(1..Len(Inputs[l]))
  BY <1>2, AudioInputsType
<1>6. audio[i] \in 1..Len(Inputs[l])
  BY <1>4, <1>5, ElementOfSeq
<1>7. Connections[i].stream = audio[i]
  <2>1. Streams(l)[i] = [stream |-> audio[i], talker |-> 0]
    BY <1>3, <1>4, Zenon
  <2> QED
    BY <1>1, <2>1
<1>8. feeds[l] \in Seq(Entities \cup {0}) /\ Len(feeds[l]) = Len(Inputs[l])
  BY <1>2 DEF TypeOK
<1>9. DOMAIN feeds[l] = 1..Len(Inputs[l])
  BY <1>8, LenProperties
<1>10. feeds[l][audio[i]] \in Range(feeds[l])
  BY <1>6, <1>8, <1>9, SequenceRange
<1> QED
  BY <1>1, <1>2, <1>6, <1>7, <1>9, <1>10

\* Only those talkers are shown which feed the listener, are there, and are in
\* the table.
LEMMA PresentTalkers ==
  ASSUME TypeOK
  PROVE  /\ Connections \in Seq(Conns) /\ Present \in Seq(Conns)
         /\ Len(Present) = Len(Connections)
         /\ \A i \in 1..Len(Present) :
              LET t == feeds[bridgeListenerEntityId][Connections[i].stream] IN
              Present[i] = [stream |-> Connections[i].stream,
                            talker |-> IF t \in Listed \cap online THEN t ELSE 0]
         /\ \A i \in 1..Len(Present) : Present[i].talker # 0 =>
              /\ bridgeListenerEntityId \in online
              /\ Present[i].talker \in Range(feeds[bridgeListenerEntityId])
              /\ Present[i].talker \in Listed \cap online
<1> DEFINE t(i) == feeds[bridgeListenerEntityId][Connections[i].stream]
<1>1. Connections \in Seq(Conns)
  BY ConnectionsType DEF TypeOK
<1>2. /\ Present \in Seq(Conns) /\ Len(Present) = Len(Connections)
      /\ \A i \in 1..Len(Connections) :
           Present[i] = [stream |-> Connections[i].stream,
                         talker |-> IF t(i) \in Listed \cap online THEN t(i) ELSE 0]
  BY <1>1, WithTalkersType DEF Present
<1>3. \A i \in 1..Len(Connections) :
        bridgeListenerEntityId \in online /\ t(i) \in Range(feeds[bridgeListenerEntityId])
  BY <1>1, ConnectionsAreInputs, LenProperties
<1> HIDE DEF t
<1>4. ASSUME NEW i \in 1..Len(Present), Present[i].talker # 0
      PROVE  /\ bridgeListenerEntityId \in online
             /\ Present[i].talker \in Range(feeds[bridgeListenerEntityId])
             /\ Present[i].talker \in Listed \cap online
  <2>1. Present[i].talker = IF t(i) \in Listed \cap online THEN t(i) ELSE 0
    <3> DEFINE talker == IF t(i) \in Listed \cap online THEN t(i) ELSE 0
    <3>1. Present[i] = [stream |-> Connections[i].stream, talker |-> talker]
      BY <1>2, Zenon
    <3> QED
      BY <3>1
  <2> QED
    BY <1>2, <1>3, <1>4, <2>1
<1> QED
  BY <1>1, <1>2, <1>4 DEF t

\* The talker of a stream of the listener, as it is shown.
TalkerOf(s) == LET t == feeds[bridgeListenerEntityId][s] IN
               IF t \in Listed \cap online THEN t ELSE 0

\* Whatever else changes, what is shown stays the same if the listener does, the
\* talkers of its streams, and their names.
LEMMA PresentKept ==
  ASSUME TypeOK,
         bridge' = bridge, bridgeListenerEntityId' = bridgeListenerEntityId,
         bridgeListenerEntityId \in online' <=> bridgeListenerEntityId \in online,
         bridgeListenerEntityId \in online =>
           /\ \A s \in DOMAIN feeds[bridgeListenerEntityId] : TalkerOf(s)' = TalkerOf(s)
           /\ \A t \in Range(feeds[bridgeListenerEntityId]) \cap Listed \cap online :
                entities'[t] = entities[t]
  PROVE  /\ Connections' = Connections /\ Present' = Present
         /\ Annotate(bridge.channels, Present)' = Annotate(bridge.channels, Present)
<1> DEFINE l == bridgeListenerEntityId
           C == Connections
<1>1. Connections' = C
  BY DEF Connections, Streams
<1>2. Present = [i \in DOMAIN C |-> [C[i] EXCEPT !.talker = TalkerOf(C[i].stream)]]
  BY DEF Present, WithTalkers, TalkerOf, Listed
<1>3. Present' = [i \in DOMAIN C |-> [C[i] EXCEPT !.talker = TalkerOf(C[i].stream)']]
  <2> HIDE DEF C
  <2>1. Present' = [i \in DOMAIN (Connections') |->
                     [Connections'[i] EXCEPT !.talker =
                       IF feeds'[bridgeListenerEntityId'][Connections'[i].stream]
                            \in Range(order') \cap online'
                       THEN feeds'[bridgeListenerEntityId'][Connections'[i].stream] ELSE 0]]
    BY DEF Present, WithTalkers
  <2>2. C' = C
    BY <1>1 DEF C
  <2> QED
    BY <1>1, <2>1, <2>2 DEF TalkerOf, Listed
<1>4. \A i \in DOMAIN C : TalkerOf(C[i].stream)' = TalkerOf(C[i].stream)
  <2>1. \A i \in DOMAIN C : l \in online /\ C[i].stream \in DOMAIN feeds[l]
    BY ConnectionsAreInputs
  <2> HIDE DEF C
  <2>2. C' = C
    BY <1>1 DEF C
  <2> QED
    BY <2>1, <2>2 DEF TalkerOf
<1>5. Present' = Present
  <2> HIDE DEF C
  <2> QED
    BY <1>2, <1>3, <1>4
<1> DEFINE P == Present
           total == bridge.channels
           last(c) == Max(Reach(total, P, c))
<1>6. Annotate(total, P) =
        [c \in 1..total |-> IF Reach(total, P, c) = {} THEN 0
                            ELSE Source(P[last(c)].talker, entities[P[last(c)].talker])]
  BY Zenon DEF Annotate, Reach
<1>7. Annotate(total, P)' =
        [c \in 1..total |-> IF Reach(total, P, c) = {} THEN 0
                            ELSE Source(P[last(c)].talker, entities'[P[last(c)].talker])]
  <2> HIDE DEF P
  <2>1. P' = P
    BY <1>5 DEF P
  <2> QED
    BY <2>1 DEF Annotate, Reach, Offset, Source
<1>8. ASSUME NEW c \in 1..total, Reach(total, P, c) # {}
      PROVE  entities'[P[last(c)].talker] = entities[P[last(c)].talker]
  <2>1. /\ P \in Seq(Conns)
        /\ \A i \in 1..Len(P) : P[i].talker # 0 =>
             l \in online /\ P[i].talker \in Range(feeds[l]) /\ P[i].talker \in Listed \cap online
    BY PresentTalkers
  <2>2. DOMAIN P = 1..Len(P) /\ Len(P) \in Nat
    BY <2>1, LenProperties
  <2> HIDE DEF P
  <2>3. Reach(total, P, c) \in SUBSET (1..Len(P))
    BY <2>2 DEF Reach
  <2>4. last(c) \in Reach(total, P, c)
    BY <1>8, <2>2, <2>3, MaxIsLargest
  <2> HIDE DEF last
  <2>5. last(c) \in 1..Len(P) /\ P[last(c)].talker # 0
    BY <2>2, <2>4 DEF Reach
  <2> QED
    BY <2>1, <2>5
<1>9. Annotate(total, P)' = Annotate(total, P)
  <2> HIDE DEF P, last, total
  <2>1. \A c \in 1..total : (IF Reach(total, P, c) = {} THEN 0
                            ELSE Source(P[last(c)].talker, entities'[P[last(c)].talker]))
                         = (IF Reach(total, P, c) = {} THEN 0
                            ELSE Source(P[last(c)].talker, entities[P[last(c)].talker]))
    BY <1>8
  <2> QED
    BY <1>6, <1>7, <2>1
<1> QED
  BY <1>1, <1>5, <1>9

\* The same when nothing it is made of changes.
LEMMA SameView ==
  ASSUME TypeOK, UNCHANGED <<online, feeds, entities, order, bridge, bridgeListenerEntityId>>
  PROVE  /\ Connections' = Connections /\ Present' = Present
         /\ Annotate(bridge.channels, Present)' = Annotate(bridge.channels, Present)
  BY PresentKept DEF Listed, TalkerOf

-----------------------------------------------------------------------------
(* The types                                                               *)

\* The types, part by part, as a step may change them.
Observing == [pc : {"idle", "online", "rename", "post"}, eid : Entities \cup {0},
              name : Names \cup {0}]
Reading   == [pc : {"idle", "streams", "talkers", "names", "rebuild"}, why : {"list", "pick"},
              conns : Seq(Conns)]
Rows      == [ch : Nat, eid : Sources]

NetworkType ==
  /\ online \subseteq Entities /\ called \in [Entities -> Names]
  /\ feeds \in [Entities -> Seq(Entities \cup {0})]
  /\ \A e \in Entities : Len(feeds[e]) = Len(Inputs[e])
TableType ==
  /\ entities \in [Entities -> Names \cup {0}]
  /\ order \in Seq(Entities) /\ IsInjective(order)
  /\ \A e \in Listed : entities[e] \in Names
ObserverType ==
  /\ la \in Observing
  /\ la.pc \in {"online", "rename"} => la.eid \in Entities /\ la.name \in Names
PostedType == posted \in Seq(Seq(Entities))
ReadingType == msg \in Reading
ShownType ==
  /\ usbChannelInfos \in Seq(Sources) /\ lastMap \in Seq(Sources) /\ routing \in Seq(Rows)
ComboType ==
  /\ bridges \in Seq(Bridges) /\ bridge \in Bridges /\ comboBridge \in 0..Len(bridges)
  /\ listenerEntityIds \in Seq(Entities \cup {0}) /\ comboListener \in 0..Len(listenerEntityIds)
  /\ bridgeListenerEntityId \in Entities \cup {0}
GhostType == silent \in BOOLEAN /\ stirred \in BOOLEAN /\ events \in Nat /\ picks \in Nat

LEMMA TypeParts ==
  TypeOK <=> /\ NetworkType /\ TableType /\ ObserverType /\ PostedType
             /\ ReadingType /\ ShownType /\ ComboType /\ GhostType
  BY DEF TypeOK, NetworkType, TableType, ObserverType, PostedType, ReadingType, ShownType,
         ComboType, GhostType, Observing, Reading, Rows, Conns

LEMMA NextTypeParts ==
  TypeOK' <=> /\ NetworkType' /\ TableType' /\ ObserverType' /\ PostedType'
              /\ ReadingType' /\ ShownType' /\ ComboType' /\ GhostType'
  BY DEF TypeOK, NetworkType, TableType, ObserverType, PostedType, ReadingType, ShownType,
         ComboType, GhostType, Observing, Reading, Rows, Conns

\* A part that a step leaves alone keeps its type.
LEMMA PartsKept ==
  /\ NetworkType /\ UNCHANGED network => NetworkType'
  /\ TableType /\ UNCHANGED <<entities, order>> => TableType'
  /\ ObserverType /\ UNCHANGED la => ObserverType'
  /\ PostedType /\ UNCHANGED posted => PostedType'
  /\ ReadingType /\ UNCHANGED <<msg, order>> => ReadingType'
  /\ ShownType /\ UNCHANGED <<usbChannelInfos, table>> => ShownType'
  /\ ComboType /\ UNCHANGED combos => ComboType'
  /\ GhostType /\ UNCHANGED <<silent, stirred, events, picks>> => GhostType'
  BY DEF NetworkType, TableType, ObserverType, PostedType, ReadingType, ShownType,
         ComboType, GhostType, Listed, Reading, Conns, network, table, combos

LEMMA InitTypes ==
  ASSUME Init
  PROVE  TypeOK
<1>1. /\ Known \in Seq(Entities) /\ Len(Known) >= 1 /\ Known[1] \in Entities
      /\ Range(Known) \subseteq Entities
  BY EntitiesAssumption, EmptySeq, LenProperties, ElementOfSeq, SequenceRange
<1>2. NetworkType
  BY <1>1, EntitiesAssumption, NamesAssumption DEF Init, NetworkType
<1>3. TableType
  BY <1>1, EntitiesAssumption, NamesAssumption DEF Init, TableType, Listed
<1>4. ObserverType /\ PostedType /\ ReadingType /\ GhostType
  <2>1. << >> \in Seq(Conns) /\ << >> \in Seq(Seq(Entities))
    BY EmptySeq
  <2>2. PostedType /\ GhostType
    BY <2>1 DEF Init, PostedType, GhostType
  <2>3. ObserverType
    BY DEF Init, ObserverType, Observing, IdleLa
  <2>4. ReadingType
    BY <2>1 DEF Init, ReadingType, Reading, IdleMsg
  <2> QED
    BY <2>2, <2>3, <2>4
<1>5. bridges \in Seq(Bridges) /\ Len(bridges) >= 1 /\ bridge \in Bridges
  BY OfferedType, EmptySeq, ElementOfSeq DEF Init
<1>6. <<0>> \o Known \in Seq(Entities \cup {0}) /\ Len(<<0>> \o Known) >= 2
  <2>1. <<0>> \in Seq(Entities \cup {0}) /\ Known \in Seq(Entities \cup {0}) /\ Len(<<0>>) = 1
    BY <1>1
  <2> QED
    BY <1>1, <2>1, ConcatProperties
<1>7. ComboType
  BY <1>1, <1>5, <1>6 DEF Init, ComboType
<1>8. bridge.channels \in Nat
  BY <1>5, BridgesHaveChannels, Zenon
<1>9. WithTalkers(Streams(Known[1])) \in Seq(Conns)
  BY <1>1, StreamsType, WithTalkersType
<1>10. Listed \subseteq Entities /\ \A e \in Listed : entities[e] \in Names
  BY <1>1, <1>3 DEF TableType, Listed, Init
<1>11. usbChannelInfos \in Seq(Sources)
  BY <1>8, <1>9, <1>10, AnnotateType DEF Init
<1>12. ShownType
  BY <1>11, IdentityType, MapType DEF Init, ShownType, Rows
<1> QED
  BY <1>2, <1>3, <1>4, <1>7, <1>12, TypeParts

\* A change on the network leaves everything alone but the network.
LEMMA NetworkTypes ==
  ASSUME TypeOK, Network
  PROVE  TypeOK'
<1>1. PICK es : Event(es)
  BY DEF Network, GoesOnline, GoesOffline, IsRenamed, Connects, ListenerNotifies
<1>2. /\ TableType' /\ PostedType' /\ ReadingType' /\ ShownType' /\ ComboType'
  BY <1>1, TypeParts, PartsKept DEF Event
<1>3. GhostType'
  BY <1>1, TypeParts DEF Event, GhostType
<1>4. NetworkType /\ ObserverType
  BY TypeParts
<1>5. IdleLa \in Observing /\ [IdleLa EXCEPT !.pc = "post"] = [pc |-> "post", eid |-> 0, name |-> 0]
  BY DEF IdleLa, Observing
<1>6. NetworkType' /\ ObserverType'
  <2>1. CASE GoesOnline
    BY <1>4, <2>1 DEF GoesOnline, NetworkType, ObserverType, Observing
  <2>2. CASE GoesOffline
    BY <1>4, <1>5, <2>2 DEF GoesOffline, NetworkType, ObserverType, Observing
  <2>3. CASE IsRenamed
    BY <1>4, <2>3 DEF IsRenamed, NetworkType, ObserverType, Observing
  <2>4. CASE Connects
    <3>1. PICK e, s, t :
            /\ e \in Entities /\ s \in DOMAIN Inputs[e] /\ t \in Entities \ {e}
            /\ feeds' = [feeds EXCEPT ![e][s] = IF @ = 0 THEN t ELSE 0]
            /\ la' = IF t \in online THEN [IdleLa EXCEPT !.pc = "post"] ELSE la
            /\ UNCHANGED <<online, called>>
      BY <2>4 DEF Connects
    <3> DEFINE was == feeds[e]
               now == [was EXCEPT ![s] = IF @ = 0 THEN t ELSE 0]
    <3>2. was \in Seq(Entities \cup {0}) /\ Len(was) = Len(Inputs[e])
      BY <1>4, <3>1 DEF NetworkType
    <3>3. Inputs[e] \in Seq(Nat)
      BY <3>1, EntitiesAssumption
    <3>4. s \in 1..Len(was)
      BY <3>1, <3>2, <3>3, LenProperties
    <3>5. now \in Seq(Entities \cup {0}) /\ Len(now) = Len(was)
      <4> DEFINE new == IF was[s] = 0 THEN t ELSE 0
      <4>1. now = [was EXCEPT ![s] = new] /\ new \in Entities \cup {0}
        BY <3>1
      <4> HIDE DEF was, now, new
      <4> QED
        BY <3>2, <3>4, <4>1, ExceptSeq
    <3>6. feeds' = [feeds EXCEPT ![e] = now]
      BY <3>1
    <3> HIDE DEF now
    <3>7. NetworkType'
      BY <1>4, <3>1, <3>2, <3>5, <3>6 DEF NetworkType
    <3>8. ObserverType'
      BY <1>4, <1>5, <3>1 DEF ObserverType, Observing
    <3> QED
      BY <3>7, <3>8
  <2>5. CASE ListenerNotifies
    BY <1>4, <1>5, <2>5, PartsKept DEF ListenerNotifies, ObserverType, Observing
  <2> QED
    BY <2>1, <2>2, <2>3, <2>4, <2>5 DEF Network
<1> QED
  BY <1>2, <1>3, <1>6, NextTypeParts

LEMMA ObserveTypes ==
  ASSUME TypeOK, Observe
  PROVE  TypeOK'
<1>1. /\ NetworkType' /\ ShownType' /\ ComboType' /\ GhostType'
  BY TypeParts, PartsKept DEF Observe, OnEntityOnline, OnEntityNameChanged, OnChange
<1>2. TableType /\ ObserverType /\ PostedType /\ ReadingType
  BY TypeParts
<1>3. TableType' /\ ObserverType' /\ PostedType' /\ ReadingType'
  <2>1. CASE OnEntityOnline
    <3>1. la.eid \in Entities /\ la.name \in Names /\ Listed \subseteq Entities
          /\ IsFiniteSet(Listed)
      BY <1>2, <2>1, SequenceRange DEF OnEntityOnline, ObserverType, TableType, Listed
    <3>2. /\ order' \in Seq(Entities) /\ IsInjective(order')
          /\ Listed' = Listed \cup {la.eid}
      <4>1. CASE la.eid \in Listed
        BY <1>2, <2>1, <4>1 DEF OnEntityOnline, TableType, Listed
      <4>2. CASE la.eid \notin Listed
        <5>1. order' \in SetToSeqs(Listed \cup {la.eid})
          BY <2>1, <4>2 DEF OnEntityOnline, Listed
        <5>2. IsFiniteSet(Listed \cup {la.eid}) /\ Listed \cup {la.eid} \in SUBSET Entities
          BY <3>1, FS_AddElement
        <5>3. order' \in Seq(Entities) /\ IsInjective(order') /\ Range(order') = Listed \cup {la.eid}
          <6>1. \A S \in SUBSET Entities : IsFiniteSet(S) => \A o \in SetToSeqs(S) :
                  o \in Seq(Entities) /\ IsInjective(o) /\ Range(o) = S
            BY OrdersOfSet
          <6> QED
            BY <5>1, <5>2, <6>1, Zenon
        <5> QED
          BY <5>3 DEF Listed
      <4> QED
        BY <4>1, <4>2
    <3>3. TableType'
      BY <1>2, <2>1, <3>1, <3>2 DEF OnEntityOnline, TableType
    <3>4. ObserverType'
      BY <1>2, <2>1 DEF OnEntityOnline, ObserverType, Observing
    <3>5. ReadingType'
      <4>1. Conns \subseteq Conns'
        BY <3>2 DEF Conns
      <4>2. Seq(Conns) \subseteq Seq(Conns')
        BY <4>1
      <4> QED
        BY <1>2, <2>1, <4>2 DEF OnEntityOnline, ReadingType, Reading
    <3> QED
      BY <1>2, <2>1, <3>3, <3>4, <3>5, PartsKept DEF OnEntityOnline
  <2>2. CASE OnEntityNameChanged
    <3>1. TableType'
      BY <1>2, <2>2 DEF OnEntityNameChanged, TableType, ObserverType, Observing, Listed
    <3>2. ObserverType'
      BY <1>2, <2>2 DEF OnEntityNameChanged, ObserverType, Observing
    <3> QED
      BY <1>2, <2>2, <3>1, <3>2, PartsKept DEF OnEntityNameChanged
  <2>3. CASE OnChange
    <3>1. PostedType'
      BY <1>2, <2>3, AppendProperties DEF OnChange, PostedType, TableType
    <3>2. ObserverType'
      BY <2>3 DEF OnChange, ObserverType, Observing, IdleLa
    <3> QED
      BY <1>2, <2>3, <3>1, <3>2, PartsKept DEF OnChange
  <2> QED
    BY <2>1, <2>2, <2>3 DEF Observe
<1> QED
  BY <1>1, <1>3, NextTypeParts

LEMMA UserTypes ==
  ASSUME TypeOK, User \/ TimerCallback
  PROVE  TypeOK'
<1>1. /\ NetworkType /\ TableType /\ ObserverType /\ PostedType
      /\ ReadingType /\ ShownType /\ ComboType /\ GhostType
  BY TypeParts
<1>2. Pick
  BY DEF User, PickBridge, PickListener, PickRow, PickInterface, TimerCallback
<1>3. TableType' /\ PostedType'
  BY <1>1, <1>2, PartsKept DEF Pick
<1>4. NetworkType' /\ ObserverType' /\ GhostType'
  <2>1. /\ online' \in {online, {}} /\ silent' \in {silent, TRUE} /\ stirred' \in {stirred, TRUE}
        /\ UNCHANGED <<feeds, called, la, events>> /\ picks' = picks + 1
    BY <1>2 DEF User, PickBridge, PickListener, PickRow, PickInterface, TimerCallback, Pick
  <2>2. NetworkType'
    BY <1>1, <2>1 DEF NetworkType
  <2>3. ObserverType'
    BY <1>1, <2>1, PartsKept
  <2>4. GhostType'
    <3>1. silent' \in BOOLEAN /\ stirred' \in BOOLEAN
      BY <1>1, <2>1, Zenon DEF GhostType
    <3> QED
      BY <1>1, <2>1, <3>1 DEF GhostType
  <2> QED
    BY <2>2, <2>3, <2>4
<1>5. ReadingType'
  <2>1. << >> \in Seq(Conns')
    BY EmptySeq
  <2>2. CASE PickBridge \/ PickListener
    <3>1. msg' = [pc |-> "streams", why |-> "pick", conns |-> << >>]
      BY <2>2 DEF PickBridge, PickListener, Begin
    <3>2. msg' \in Reading'
      BY <2>1, <3>1 DEF Reading
    <3> QED
      BY <3>2 DEF ReadingType
  <2>3. CASE UNCHANGED msg
    BY <1>1, <1>2, <2>3, PartsKept DEF Pick
  <2> QED
    BY <2>2, <2>3 DEF User, PickRow, PickInterface, TimerCallback
<1>6. ShownType'
  <2>1. CASE PickRow
    <3>1. PICK slot \in DOMAIN routing, ch \in (DOMAIN usbChannelInfos) \cup {0} :
            /\ routing' = [routing EXCEPT ![slot] =
                 IF ch = 0 THEN Blank ELSE [ch |-> ch - 1, eid |-> usbChannelInfos[ch]]]
            /\ lastMap' = MapOf(routing')
      BY <2>1 DEF PickRow
    <3> DEFINE row == IF ch = 0 THEN Blank ELSE [ch |-> ch - 1, eid |-> usbChannelInfos[ch]]
    <3>2. ch # 0 => ch \in 1..Len(usbChannelInfos) /\ Len(usbChannelInfos) \in Nat
                    /\ usbChannelInfos[ch] \in Sources
      BY <1>1, LenProperties, ElementOfSeq DEF ShownType
    <3>3. row \in Rows
      BY <3>2 DEF Rows, Blank, Unassigned, Sources
    <3> HIDE DEF row
    <3>4. slot \in 1..Len(routing)
      BY <1>1, LenProperties DEF ShownType
    <3>5. routing' \in Seq(Rows)
      BY <1>1, <3>1, <3>3, <3>4, ExceptSeq DEF ShownType, row
    <3>6. lastMap' \in Seq(Sources)
      BY <3>1, <3>5, MapType DEF Rows
    <3> QED
      BY <1>1, <1>2, <3>5, <3>6 DEF ShownType, Pick
  <2>2. CASE UNCHANGED <<usbChannelInfos, table>>
    BY <1>1, <2>2, PartsKept
  <2> QED
    BY <1>2, <2>1, <2>2 DEF User, PickBridge, PickListener, PickInterface, TimerCallback, Pick,
       table
<1>7. ComboType'
  <2>1. CASE PickBridge
    <3>1. PICK p \in DOMAIN bridges : comboBridge' = p /\ bridge' = bridges[p]
      BY <2>1 DEF PickBridge
    <3>2. p \in 1..Len(bridges) /\ Len(bridges) \in Nat /\ bridges[p] \in Bridges
      BY <1>1, LenProperties, ElementOfSeq DEF ComboType
    <3> QED
      BY <1>1, <2>1, <3>1, <3>2 DEF PickBridge, ComboType
  <2>2. CASE PickListener
    <3>1. PICK p \in DOMAIN listenerEntityIds :
            comboListener' = p /\ bridgeListenerEntityId' = listenerEntityIds[p]
      BY <2>2 DEF PickListener
    <3>2. /\ p \in 1..Len(listenerEntityIds) /\ Len(listenerEntityIds) \in Nat
          /\ listenerEntityIds[p] \in Entities \cup {0}
      BY <1>1, LenProperties, ElementOfSeq DEF ComboType
    <3> QED
      BY <1>1, <2>2, <3>1, <3>2 DEF PickListener, ComboType
  <2>3. CASE TimerCallback
    <3>1. PICK devices \in DeviceLists : bridges' = Offered(devices)
      BY <2>3 DEF TimerCallback
    <3>2. bridges' \in Seq(Bridges) /\ Len(bridges') \in Nat
      BY <3>1, OfferedType, LenProperties
    <3> QED
      BY <1>1, <2>3, <3>2 DEF TimerCallback, ComboType
  <2>4. CASE UNCHANGED combos
    BY <1>1, <2>4, PartsKept
  <2> QED
    BY <2>1, <2>2, <2>3, <2>4 DEF User, PickRow, PickInterface
<1> QED
  BY <1>3, <1>4, <1>5, <1>6, <1>7, NextTypeParts

LEMMA MessageTypes ==
  ASSUME TypeOK, Message
  PROVE  TypeOK'
<1>1. /\ NetworkType /\ TableType /\ ObserverType /\ PostedType
      /\ ReadingType /\ ShownType /\ ComboType /\ GhostType
  BY TypeParts
<1>2. NetworkType' /\ TableType' /\ ObserverType'
  BY <1>1, PartsKept DEF Message, HandleEntityList, ReadStreams, ReadTalkers, ReadNames, Rebuild, app
<1>3. GhostType'
  BY <1>1 DEF Message, HandleEntityList, ReadStreams, ReadTalkers, ReadNames, Rebuild, GhostType
<1>4. Conns' = Conns
  BY DEF Message, HandleEntityList, ReadStreams, ReadTalkers, ReadNames, Rebuild, app, Conns, Listed
<1>5. CASE HandleEntityList
  <2>1. Head(posted) \in Seq(Entities) /\ posted' \in Seq(Seq(Entities))
    BY <1>1, <1>5, HeadTailProperties DEF HandleEntityList, PostedType
  <2>2. listenerEntityIds' \in Seq(Entities \cup {0}) /\ Len(listenerEntityIds') \in Nat \ {0}
    <3>1. <<0>> \in Seq(Entities \cup {0}) /\ Head(posted) \in Seq(Entities \cup {0})
          /\ Len(<<0>>) = 1 /\ Len(Head(posted)) \in Nat
      BY <2>1
    <3> QED
      BY <1>5, <3>1, ConcatProperties DEF HandleEntityList
  <2>3. comboListener' \in 0..Len(listenerEntityIds')
    <3>1. comboListener \in Nat
      BY <1>1, LenProperties DEF ComboType
    <3>2. comboListener' = IF comboListener > Len(listenerEntityIds') THEN 0
                           ELSE IF comboListener > 1 THEN comboListener ELSE 1
      BY <1>5 DEF HandleEntityList
    <3> QED
      BY <2>2, <3>1, <3>2
  <2>4. ComboType'
    BY <1>1, <1>5, <2>2, <2>3 DEF HandleEntityList, ComboType
  <2>5. ReadingType'
    <3>1. << >> \in Seq(Conns)
      BY EmptySeq
    <3> QED
      BY <1>4, <1>5, <3>1 DEF HandleEntityList, Begin, ReadingType, Reading
  <2>6. ShownType'
    BY <1>1, <1>5, PartsKept DEF HandleEntityList
  <2> QED
    BY <1>2, <1>3, <2>1, <2>4, <2>5, <2>6, NextTypeParts DEF PostedType
<1>6. ASSUME ReadStreams \/ ReadTalkers \/ ReadNames \/ Rebuild
      PROVE  PostedType' /\ ComboType'
  BY <1>1, <1>6, PartsKept DEF ReadStreams, ReadTalkers, ReadNames, Rebuild, app
<1>7. CASE ReadStreams
  <2>1. Connections \in Seq(Conns)
    BY <1>1, ConnectionsType DEF NetworkType, ComboType
  <2>2. ReadingType'
    BY <1>1, <1>4, <1>7, <2>1 DEF ReadStreams, ReadingType, Reading
  <2> QED
    BY <1>1, <1>2, <1>3, <1>6, <1>7, <2>2, PartsKept, NextTypeParts DEF ReadStreams
<1>8. CASE ReadTalkers
  <2>1. WithTalkers(msg.conns) \in Seq(Conns)
    BY <1>1, WithTalkersType DEF ReadingType, Reading
  <2>2. ReadingType'
    BY <1>1, <1>4, <1>8, <2>1 DEF ReadTalkers, ReadingType, Reading
  <2> QED
    BY <1>1, <1>2, <1>3, <1>6, <1>8, <2>2, PartsKept, NextTypeParts DEF ReadTalkers
<1>9. CASE ReadNames
  <2>1. bridge.channels \in Nat
    BY <1>1, BridgesHaveChannels, Zenon DEF ComboType
  <2>2. Listed \subseteq Entities
    BY <1>1, SequenceRange DEF TableType, Listed
  <2>3. usbChannelInfos' \in Seq(Sources)
    <3>1. msg.conns \in Seq(Conns)
      BY <1>1 DEF ReadingType, Reading
    <3> QED
      BY <1>1, <1>9, <2>1, <2>2, <3>1, AnnotateType DEF ReadNames, TableType
  <2>4. ShownType'
    BY <1>1, <1>9, <2>3 DEF ReadNames, ShownType, table
  <2>5. ReadingType'
    <3>1. << >> \in Seq(Conns)
      BY EmptySeq
    <3> QED
      BY <1>1, <1>4, <1>9, <3>1 DEF ReadNames, ReadingType, Reading, IdleMsg
  <2> QED
    BY <1>2, <1>3, <1>6, <1>9, <2>4, <2>5, NextTypeParts
<1>10. CASE Rebuild
  <2>1. routing' \in Seq(Rows)
    BY <1>1, <1>10, IdentityType DEF Rebuild, ShownType, Rows
  <2>2. lastMap' \in Seq(Sources)
    BY <1>10, <2>1, MapType DEF Rebuild, Rows
  <2>3. ShownType'
    BY <1>1, <1>10, <2>1, <2>2 DEF Rebuild, ShownType
  <2>4. ReadingType'
    <3>1. << >> \in Seq(Conns)
      BY EmptySeq
    <3> QED
      BY <1>4, <1>10, <3>1 DEF Rebuild, ReadingType, Reading, IdleMsg
  <2> QED
    BY <1>2, <1>3, <1>6, <1>10, <2>3, <2>4, NextTypeParts
<1> QED
  BY <1>5, <1>7, <1>8, <1>9, <1>10 DEF Message

LEMMA StutterTypes ==
  ASSUME TypeOK, UNCHANGED vars
  PROVE  TypeOK'
  BY TypeParts, NextTypeParts, PartsKept DEF vars, app, network, combos, table

LEMMA StepTypes ==
  ASSUME TypeOK, [Next]_vars
  PROVE  TypeOK'
  BY NetworkTypes, ObserveTypes, UserTypes, MessageTypes, StutterTypes DEF Next

\* Everything keeps its type, whatever happens on the network and is picked:
\* the table has each entity once, and each source that is shown has a name.
THEOREM TypeCorrect == Spec => []TypeOK
<1>1. Init => TypeOK
  BY InitTypes
<1>2. TypeOK /\ [Next]_vars => TypeOK'
  BY StepTypes
<1> QED
  BY <1>1, <1>2, PTL DEF Spec

-----------------------------------------------------------------------------
(* The table follows the network                                           *)

LEMMA TableKept ==
  ASSUME TypeOK, TableFollows, [Next]_vars
  PROVE  TableFollows'
<1> USE DEF TableFollows, Entering
<1>1. CASE Network
  <2>1. la.pc = "idle" /\ UNCHANGED <<entities, order>>
    BY <1>1 DEF Network, GoesOnline, GoesOffline, IsRenamed, Connects, ListenerNotifies, Event
  <2>2. /\ online \subseteq Listed /\ Listed' = Listed
        /\ \A e \in Listed : entities[e] = called[e]
    BY <2>1 DEF Listed
  <2>3. called \in [Entities -> Names] /\ IdleLa.pc = "idle"
    BY DEF TypeOK, IdleLa
  <2>4. CASE GoesOnline
    BY <2>1, <2>2, <2>4 DEF GoesOnline
  <2>5. CASE GoesOffline
    <3>1. la'.pc = "post" /\ called' = called /\ online' \subseteq online
      BY <2>5 DEF GoesOffline, IdleLa
    <3> QED
      BY <2>1, <2>2, <3>1
  <2>6. CASE IsRenamed
    <3>1. PICK e \in online, n \in Names :
            /\ called' = [called EXCEPT ![e] = n] /\ online' = online
            /\ la' = [pc |-> "rename", eid |-> e, name |-> n]
      BY <2>6 DEF IsRenamed
    <3>2. e \in Entities /\ called'[e] = n /\ \A f \in Entities : f # e => called'[f] = called[f]
      BY <2>3, <3>1 DEF TypeOK
    <3>3. Listed \subseteq Entities
      BY SequenceRange DEF TypeOK, Listed
    <3> QED
      BY <2>1, <2>2, <3>1, <3>2, <3>3
  <2>7. CASE Connects \/ ListenerNotifies
    <3>1. la'.pc \in {"post", "idle"} /\ UNCHANGED <<online, called>>
      BY <2>1, <2>7 DEF Connects, ListenerNotifies, IdleLa, network
    <3> QED
      BY <2>1, <2>2, <3>1
  <2> QED
    BY <1>1, <2>4, <2>5, <2>6, <2>7 DEF Network
<1>2. CASE OnEntityOnline
  <2>1. la.eid \in Entities /\ la.eid \in online /\ la.name = called[la.eid]
    BY <1>2 DEF OnEntityOnline, TypeOK
  <2>2. Listed' = Listed \cup {la.eid}
    <3>1. CASE la.eid \in Listed
      BY <1>2, <3>1 DEF OnEntityOnline, Listed
    <3>2. CASE la.eid \notin Listed
      <4>1. order' \in SetToSeqs(Listed \cup {la.eid})
        BY <1>2, <3>2 DEF OnEntityOnline, Listed
      <4>2. Listed \subseteq Entities /\ IsFiniteSet(Listed)
        BY SequenceRange DEF TypeOK, Listed
      <4>3. IsFiniteSet(Listed \cup {la.eid}) /\ Listed \cup {la.eid} \in SUBSET Entities
        BY <2>1, <4>2, FS_AddElement
      <4>4. \A S \in SUBSET Entities : IsFiniteSet(S) => \A o \in SetToSeqs(S) : Range(o) = S
        BY OrdersOfSet
      <4> QED
        BY <4>1, <4>3, <4>4, Zenon DEF Listed
    <3> QED
      BY <3>1, <3>2
  <2>3. entities'[la.eid] = la.name /\ \A e \in Entities : e # la.eid => entities'[e] = entities[e]
    BY <1>2, <2>1 DEF OnEntityOnline, TypeOK
  <2>4. la'.pc = "post" /\ UNCHANGED <<online, called>>
    BY <1>2 DEF OnEntityOnline, network, TypeOK
  <2>5. Listed \subseteq Entities
    BY SequenceRange DEF TypeOK, Listed
  <2> QED
    BY <2>1, <2>2, <2>3, <2>4, <2>5
<1>3. CASE OnEntityNameChanged
  <2>1. la.eid \in Entities /\ la.eid \in online /\ la.name = called[la.eid]
    BY <1>3 DEF OnEntityNameChanged, TypeOK
  <2>2. la.eid \in Listed /\ Listed' = Listed
    BY <1>3, <2>1 DEF OnEntityNameChanged, Listed
  <2>3. entities'[la.eid] = la.name /\ \A e \in Entities : e # la.eid => entities'[e] = entities[e]
    BY <1>3, <2>1, <2>2 DEF OnEntityNameChanged, TypeOK, Listed
  <2>4. la'.pc = "post" /\ UNCHANGED <<online, called>> /\ la.pc = "rename"
    BY <1>3 DEF OnEntityNameChanged, network, TypeOK
  <2>5. Listed \subseteq Entities
    BY SequenceRange DEF TypeOK, Listed
  <2> QED
    BY <2>1, <2>2, <2>3, <2>4, <2>5
<1>4. CASE OnChange
  <2>1. la.pc = "post" /\ la'.pc = "idle" /\ Listed' = Listed /\ UNCHANGED <<online, called, entities>>
    BY <1>4 DEF OnChange, network, IdleLa, Listed
  <2> QED
    BY <2>1
<1>5. CASE PickInterface
  <2>1. la.pc = "idle" /\ online' = {} /\ Listed' = Listed /\ UNCHANGED <<called, entities, la>>
    BY <1>5 DEF PickInterface, Pick, Listed
  <2> QED
    BY <2>1
<1>6. CASE UNCHANGED <<online, called, entities, order, la>>
  BY <1>6 DEF Listed
<1>7. CASE PickBridge \/ PickListener \/ PickRow \/ TimerCallback
  BY <1>6, <1>7 DEF PickBridge, PickListener, PickRow, TimerCallback, Pick
<1>8. CASE Message \/ UNCHANGED vars
  BY <1>6, <1>8 DEF Message, HandleEntityList, ReadStreams, ReadTalkers, ReadNames, Rebuild,
     vars, network, app
<1> QED
  BY <1>1, <1>2, <1>3, <1>4, <1>5, <1>7, <1>8 DEF Next, Observe, User

-----------------------------------------------------------------------------
(* What has been read is right                                             *)

\* A talker that is not there is not shown, connected or not.
LEMMA AbsentTalker ==
  ASSUME TypeOK, Connects, la'.pc = "idle"
  PROVE  /\ Connections' = Connections /\ Present' = Present
         /\ Annotate(bridge.channels, Present)' = Annotate(bridge.channels, Present)
<1> DEFINE l == bridgeListenerEntityId
<1>1. PICK e, s, t :
        /\ e \in Entities /\ s \in DOMAIN Inputs[e] /\ t \in Entities \ {e}
        /\ feeds[e][s] \in {0, t}
        /\ feeds' = [feeds EXCEPT ![e][s] = IF @ = 0 THEN t ELSE 0]
        /\ la' = IF t \in online THEN [IdleLa EXCEPT !.pc = "post"] ELSE la
        /\ UNCHANGED <<online, entities, order, bridge, bridgeListenerEntityId>>
  BY DEF Connects, Event, combos
<1>2. t \notin online /\ 0 \notin online
  BY <1>1, EntitiesAssumption DEF IdleLa, TypeOK
<1>3. ASSUME NEW r \in DOMAIN feeds[l], l \in online
      PROVE  TalkerOf(r)' = TalkerOf(r)
  <2>1. l \in Entities /\ feeds \in [Entities -> Seq(Entities \cup {0})]
    BY <1>3 DEF TypeOK
  <2>2. CASE l = e /\ r = s
    <3>1. feeds[l][r] \in {0, t} /\ feeds'[l][r] \in {0, t}
      BY <1>1, <1>3, <2>1, <2>2
    <3> QED
      BY <1>1, <1>2, <3>1 DEF TalkerOf, Listed
  <2>3. CASE ~(l = e /\ r = s)
    <3>1. feeds'[l][r] = feeds[l][r]
      BY <1>1, <1>3, <2>1, <2>3
    <3> QED
      BY <1>1, <3>1 DEF TalkerOf, Listed
  <2> QED
    BY <2>2, <2>3
<1> QED
  BY <1>1, <1>3, PresentKept

LEMMA ReadingKept ==
  ASSUME TypeOK, ReadingCurrent, [Next]_vars
  PROVE  ReadingCurrent'
<1> SUFFICES ASSUME la'.pc = "idle", posted' = << >>, ~silent'
             PROVE  ReadingHolds' /\ (msg'.pc \in {"idle", "rebuild"} => Current')
  BY DEF ReadingCurrent
<1> USE DEF ReadingHolds, Current
<1>1. CASE Network
  <2>1. Connects /\ la.pc = "idle"
    BY <1>1 DEF Network, GoesOnline, GoesOffline, IsRenamed, Connects, ListenerNotifies, Event,
       IdleLa
  <2>2. UNCHANGED <<msg, usbChannelInfos, posted, silent>>
    BY <2>1 DEF Connects, Event
  <2>3. /\ Connections' = Connections /\ Present' = Present
        /\ Annotate(bridge.channels, Present)' = Annotate(bridge.channels, Present)
    BY <2>1, AbsentTalker
  <2> QED
    BY <2>1, <2>2, <2>3 DEF ReadingCurrent
<1>2. CASE Observe
  <2>1. OnChange
    BY <1>2 DEF Observe, OnEntityOnline, OnEntityNameChanged, TypeOK
  <2>2. posted' = Append(posted, order) /\ posted \in Seq(Seq(Entities)) /\ order \in Seq(Entities)
    BY <2>1 DEF OnChange, TypeOK
  <2> QED
    BY <2>2, AppendProperties
<1>3. CASE PickBridge \/ PickListener \/ HandleEntityList
  BY <1>3 DEF PickBridge, PickListener, HandleEntityList, Begin
<1>4. CASE PickInterface
  BY <1>4 DEF PickInterface
<1>5. CASE PickRow \/ TimerCallback \/ UNCHANGED vars
  <2>1. UNCHANGED <<online, feeds, entities, order, la, posted, msg, usbChannelInfos, bridge,
                    bridgeListenerEntityId, silent>>
    BY <1>5 DEF PickRow, TimerCallback, Pick, combos, vars, network, app
  <2> QED
    BY <2>1, SameView DEF ReadingCurrent
<1>6. ASSUME ReadStreams \/ ReadTalkers \/ ReadNames \/ Rebuild
      PROVE  /\ la.pc = "idle" /\ posted = << >>
             /\ Connections' = Connections /\ Present' = Present
             /\ Annotate(bridge.channels, Present)' = Annotate(bridge.channels, Present)
  <2>1. UNCHANGED <<online, feeds, entities, order, la, posted, bridge, bridgeListenerEntityId>>
    BY <1>6 DEF ReadStreams, ReadTalkers, ReadNames, Rebuild, network, app, combos
  <2> QED
    BY <2>1, SameView
<1>7. CASE ReadStreams
  <2>1. msg'.pc = "talkers" /\ msg'.conns = Connections
    BY <1>7 DEF ReadStreams, TypeOK
  <2> QED
    BY <1>6, <1>7, <2>1
<1>8. CASE ReadTalkers
  <2>1. msg.conns = Connections
    BY <1>6, <1>8 DEF ReadTalkers, ReadingCurrent
  <2>2. msg'.pc = "names" /\ msg'.conns = Present
    BY <1>8, <2>1 DEF ReadTalkers, Present, TypeOK
  <2> QED
    BY <1>6, <1>8, <2>2
<1>9. CASE ReadNames
  <2>1. msg.conns = Present
    BY <1>6, <1>9 DEF ReadNames, ReadingCurrent
  <2>2. usbChannelInfos' = Annotate(bridge.channels, Present) /\ msg'.pc \in {"idle", "rebuild"}
    BY <1>9, <2>1 DEF ReadNames, IdleMsg
  <2> QED
    BY <1>6, <1>9, <2>2
<1>10. CASE Rebuild
  <2>1. usbChannelInfos = Annotate(bridge.channels, Present)
    BY <1>6, <1>10 DEF Rebuild, ReadingCurrent
  <2>2. msg'.pc = "idle" /\ usbChannelInfos' = usbChannelInfos
    BY <1>10 DEF Rebuild, IdleMsg
  <2> QED
    BY <1>6, <1>10, <2>1, <2>2
<1> QED
  BY <1>1, <1>2, <1>3, <1>4, <1>5, <1>7, <1>8, <1>9, <1>10 DEF Next, User, Message

-----------------------------------------------------------------------------
(* Nothing is stale while nothing concerns the listener                    *)

\* Entities that do not concern the listener may come, go, connect and be
\* renamed: what is shown stays the same.
LEMMA BystandersKeepView ==
  ASSUME TypeOK, TypeOK', NEW es, \A e \in es : ~Concerns(e),
         bridge' = bridge, bridgeListenerEntityId' = bridgeListenerEntityId,
         \A e \in Entities \ es :
           /\ feeds'[e] = feeds[e]
           /\ e \in online' <=> e \in online
           /\ e \in Listed' <=> e \in Listed
           /\ e \in Listed => entities'[e] = entities[e]
  PROVE  /\ Connections' = Connections /\ Present' = Present
         /\ Annotate(bridge.channels, Present)' = Annotate(bridge.channels, Present)
<1> DEFINE l == bridgeListenerEntityId
<1>1. online \subseteq Entities /\ online' \subseteq Entities /\ l \in Entities \cup {0}
      /\ 0 \notin Entities
  BY EntitiesAssumption DEF TypeOK
<1>2. l # 0 => l \in Entities \ es
  BY <1>1 DEF Concerns
<1>3. l \in online' <=> l \in online
  BY <1>1, <1>2
<1>4. ASSUME NEW t \in Range(feeds[l]), l \in online
      PROVE  t \in Entities \ es \/ t = 0
  <2>1. l \in Entities /\ l # 0 /\ feeds[l] \in Seq(Entities \cup {0})
    BY <1>1, <1>4 DEF TypeOK
  <2>2. t \in Entities \cup {0}
    BY <2>1, SequenceRange
  <2> QED
    BY <2>1, <2>2 DEF Concerns
<1>5. 0 \notin Listed /\ 0 \notin Listed'
  <2>1. Listed \subseteq Entities /\ Range(order') \subseteq Entities
    BY SequenceRange DEF TypeOK, Listed
  <2> QED
    BY <1>1, <2>1 DEF Listed
<1>6. ASSUME NEW t \in Range(feeds[l]), l \in online
      PROVE  /\ t \in Listed' \cap online' <=> t \in Listed \cap online
             /\ t \in Listed \cap online => entities'[t] = entities[t]
  BY <1>1, <1>4, <1>5, <1>6
<1>7. ASSUME NEW s \in DOMAIN feeds[l], l \in online
      PROVE  TalkerOf(s)' = TalkerOf(s)
  <2>1. l \in Entities /\ feeds'[l] = feeds[l]
    BY <1>1, <1>2, <1>7
  <2>2. feeds[l][s] \in Range(feeds[l])
    BY DEF Range
  <2> QED
    BY <1>6, <1>7, <2>1, <2>2 DEF TalkerOf
<1> QED
  BY <1>3, <1>6, <1>7, PresentKept

LEMMA UndisturbedKept ==
  ASSUME TypeOK, TypeOK', TableFollows, TableFollows', ReadingCurrent, Undisturbed, [Next]_vars
  PROVE  Undisturbed'
<1> SUFFICES ASSUME ~stirred'
             PROVE  /\ ~silent' /\ Current' /\ ReadingHolds'
                    /\ msg'.pc # "rebuild" /\ (msg'.pc # "idle" => msg'.why = "list")
                    /\ la'.pc \in {"online", "rename"} => ~Concerns(la.eid)'
  BY DEF Undisturbed, Concerns
<1> DEFINE Calm == /\ ~silent /\ Current /\ ReadingHolds
                   /\ msg.pc # "rebuild" /\ (msg.pc # "idle" => msg.why = "list")
           View == /\ Connections' = Connections /\ Present' = Present
                   /\ Annotate(bridge.channels, Present)' = Annotate(bridge.channels, Present)
\* A change on the network: a quiet app has read everything.
<1>1. ASSUME NEW es, Event(es)
      PROVE  /\ Calm /\ \A e \in es : ~Concerns(e)
             /\ la.pc = "idle"
             /\ UNCHANGED <<entities, order, posted, msg, usbChannelInfos, bridge,
                            bridgeListenerEntityId, silent>>
  <2>1. (\A e \in es : ~Concerns(e)) /\ (~stirred \/ (Quiet /\ ~silent)) /\ la.pc = "idle"
    BY <1>1 DEF Event
  <2>2. CASE ~stirred
    BY <1>1, <2>1, <2>2 DEF Undisturbed, Event, combos
  <2>3. CASE Quiet /\ ~silent
    <3>1. Current /\ ReadingHolds /\ msg.pc = "idle"
      BY <2>3 DEF Quiet, ReadingCurrent
    <3> QED
      BY <1>1, <2>1, <2>3, <3>1 DEF Event, combos
  <2> QED
    BY <2>1, <2>2, <2>3
<1>2. ASSUME NEW es, Event(es), View,
             la'.pc \in {"online", "rename"} => la'.eid \in es /\ feeds' = feeds
      PROVE  /\ ~silent' /\ Current' /\ ReadingHolds'
             /\ msg'.pc # "rebuild" /\ (msg'.pc # "idle" => msg'.why = "list")
             /\ la'.pc \in {"online", "rename"} => ~Concerns(la.eid)'
  <2>1. Calm /\ UNCHANGED <<msg, usbChannelInfos, bridge, bridgeListenerEntityId, silent>>
    BY <1>1, <1>2
  <2>2. Current' /\ ReadingHolds'
    BY <1>2, <2>1 DEF Current, ReadingHolds
  <2>3. la'.pc \in {"online", "rename"} => ~Concerns(la.eid)'
    BY <1>1, <1>2, <2>1 DEF Concerns
  <2> QED
    BY <2>1, <2>2, <2>3
<1> HIDE DEF View, Calm
<1>3. CASE GoesOnline
  <2>1. PICK e \in Entities \ online :
          /\ Event({e}) /\ online' = online \cup {e} /\ UNCHANGED <<feeds, called>>
          /\ la' = [pc |-> "online", eid |-> e, name |-> called[e]]
    BY <1>3 DEF GoesOnline
  <2>2. View
    BY <1>1, <2>1, BystandersKeepView DEF Listed, View
  <2> QED
    BY <1>2, <2>1, <2>2
<1>4. CASE GoesOffline
  <2>1. PICK e \in online :
          /\ Event({e}) /\ online' = online \ {e} /\ UNCHANGED <<feeds, called>>
          /\ la'.pc = "post"
    BY <1>4 DEF GoesOffline, IdleLa
  <2>2. View
    BY <1>1, <2>1, BystandersKeepView DEF Listed, View
  <2> QED
    BY <1>2, <2>1, <2>2
<1>5. CASE IsRenamed
  <2>1. PICK e \in online, n \in Names :
          /\ Event({e}) /\ UNCHANGED <<online, feeds>>
          /\ la' = [pc |-> "rename", eid |-> e, name |-> n]
    BY <1>5 DEF IsRenamed
  <2>2. View
    BY <1>1, <2>1, BystandersKeepView DEF Listed, View
  <2> QED
    BY <1>2, <2>1, <2>2
<1>6. CASE Connects
  <2>1. PICK e, s, t :
          /\ e \in Entities /\ s \in DOMAIN Inputs[e] /\ t \in Entities \ {e}
          /\ Event({e, t})
          /\ feeds' = [feeds EXCEPT ![e][s] = IF @ = 0 THEN t ELSE 0]
          /\ la' = IF t \in online THEN [IdleLa EXCEPT !.pc = "post"] ELSE la
          /\ UNCHANGED <<online, called>>
    BY <1>6 DEF Connects
  <2>2. la'.pc \in {"post", "idle"}
    BY <1>1, <2>1 DEF IdleLa
  <2>3. \A f \in Entities \ {e, t} : feeds'[f] = feeds[f]
    BY <2>1 DEF TypeOK
  <2>4. View
    BY <1>1, <2>1, <2>3, BystandersKeepView DEF Listed, View
  <2> QED
    BY <1>2, <2>1, <2>2, <2>4
<1>7. CASE ListenerNotifies
  <2>1. Event({}) /\ UNCHANGED network /\ la'.pc = "post"
    BY <1>7 DEF ListenerNotifies, IdleLa
  <2>2. View
    BY <1>1, <2>1, SameView DEF network, View
  <2> QED
    BY <1>2, <2>1, <2>2
\* The observers enter what does not concern the listener.
<1>8. CASE Observe
  <2>1. /\ ~stirred /\ UNCHANGED <<online, feeds, called, msg, usbChannelInfos, bridge,
                                   bridgeListenerEntityId, silent>>
    BY <1>8 DEF Observe, OnEntityOnline, OnEntityNameChanged, OnChange, network, combos
  <2>2. la'.pc \in {"post", "idle"}
    BY <1>8 DEF Observe, OnEntityOnline, OnEntityNameChanged, OnChange, IdleLa, TypeOK
  <2>3. Calm
    BY <2>1 DEF Undisturbed, Calm
  <2>4. View
    <3>1. CASE OnChange
      BY <2>1, <3>1, SameView DEF OnChange, View
    <3>2. CASE OnEntityOnline \/ OnEntityNameChanged
      <4>1. ~Concerns(la.eid) /\ la.eid \in Entities
        BY <2>1, <3>2 DEF OnEntityOnline, OnEntityNameChanged, Undisturbed, TypeOK
      <4>2. \A e \in Entities : e # la.eid => entities'[e] = entities[e]
        BY <3>2 DEF OnEntityOnline, OnEntityNameChanged, TypeOK
      <4>3. \A e \in Entities : e # la.eid => (e \in Listed' <=> e \in Listed)
        <5>1. CASE order' = order
          BY <5>1 DEF Listed
        <5>2. CASE order' \in SetToSeqs(Listed \cup {la.eid})
          <6>1. Listed \subseteq Entities /\ IsFiniteSet(Listed)
            BY SequenceRange DEF TypeOK, Listed
          <6>2. IsFiniteSet(Listed \cup {la.eid}) /\ Listed \cup {la.eid} \in SUBSET Entities
            BY <4>1, <6>1, FS_AddElement
          <6>3. \A S \in SUBSET Entities : IsFiniteSet(S) => \A o \in SetToSeqs(S) : Range(o) = S
            BY OrdersOfSet
          <6>4. Listed' = Listed \cup {la.eid}
            BY <5>2, <6>2, <6>3, Zenon DEF Listed
          <6> QED
            BY <6>4
        <5> QED
          BY <3>2, <5>1, <5>2 DEF OnEntityOnline, OnEntityNameChanged, Listed
      <4> DEFINE es == {la.eid}
      <4>4. \A e \in es : ~Concerns(e)
        BY <4>1
      <4>5. \A e \in Entities \ es :
              /\ feeds'[e] = feeds[e]
              /\ e \in online' <=> e \in online
              /\ e \in Listed' <=> e \in Listed
              /\ e \in Listed => entities'[e] = entities[e]
        BY <2>1, <4>2, <4>3
      <4> HIDE DEF es
      <4> QED
        BY <2>1, <4>4, <4>5, BystandersKeepView DEF View
    <3> QED
      BY <1>8, <3>1, <3>2 DEF Observe
  <2> QED
    BY <2>1, <2>2, <2>3, <2>4 DEF Calm, View, Current, ReadingHolds
\* Picks stir; rows and bridges offered change nothing here.
<1>9. CASE PickBridge \/ PickListener \/ PickInterface
  BY <1>9 DEF PickBridge, PickListener, PickInterface
<1>10. CASE PickRow \/ TimerCallback \/ UNCHANGED vars
  <2>1. UNCHANGED <<online, feeds, entities, order, la, posted, msg, usbChannelInfos, bridge,
                    bridgeListenerEntityId, silent, stirred>>
    BY <1>10 DEF PickRow, TimerCallback, Pick, combos, vars, network, app
  <2>2. View
    BY <2>1, SameView DEF View
  <2> QED
    BY <2>1, <2>2 DEF Undisturbed, View, Current, ReadingHolds, Concerns
\* The handler reads what is so.
<1>11. CASE Message
  <2>1. UNCHANGED <<online, feeds, entities, order, la, bridge, bridgeListenerEntityId, stirred>>
    BY <1>11 DEF Message, HandleEntityList, ReadStreams, ReadTalkers, ReadNames, Rebuild,
       network, app, combos
  <2>2. View
    BY <2>1, SameView DEF View
  <2>3. Calm /\ (la.pc \in {"online", "rename"} => ~Concerns(la.eid))
    BY <2>1 DEF Undisturbed, Calm
  <2>4. la'.pc \in {"online", "rename"} => ~Concerns(la.eid)'
    BY <2>1, <2>3 DEF Concerns
  <2>5. CASE HandleEntityList
    <3>1. /\ msg' = [pc |-> "streams", why |-> "list", conns |-> << >>]
          /\ UNCHANGED <<usbChannelInfos, silent>>
      BY <2>5 DEF HandleEntityList, Begin
    <3> QED
      BY <2>1, <2>2, <2>3, <2>4, <3>1 DEF Calm, View, Current, ReadingHolds
  <2>6. CASE ReadStreams
    <3>1. /\ msg.pc = "streams" /\ msg'.pc = "talkers" /\ msg'.why = msg.why
          /\ msg'.conns = Connections /\ ~silent' /\ UNCHANGED usbChannelInfos
      BY <2>6 DEF ReadStreams, TypeOK
    <3> QED
      BY <2>1, <2>2, <2>3, <2>4, <3>1 DEF Calm, View, Current, ReadingHolds
  <2>7. CASE ReadTalkers
    <3>1. msg.pc = "talkers" /\ msg.conns = Connections
      BY <2>3, <2>7 DEF ReadTalkers, Calm, ReadingHolds
    <3>2. /\ msg'.pc = "names" /\ msg'.why = msg.why /\ msg'.conns = Present
          /\ UNCHANGED <<usbChannelInfos, silent>>
      BY <2>7, <3>1 DEF ReadTalkers, Present, TypeOK
    <3> QED
      BY <2>1, <2>2, <2>3, <2>4, <3>1, <3>2 DEF Calm, View, Current, ReadingHolds
  <2>8. CASE ReadNames
    <3>1. msg.pc = "names" /\ msg.conns = Present /\ msg.why = "list"
      BY <2>3, <2>8 DEF ReadNames, Calm, ReadingHolds
    <3>2. usbChannelInfos' = usbChannelInfos /\ silent' = silent
      BY <2>3, <2>8, <3>1 DEF ReadNames, Calm, Current
    <3>3. msg'.pc = "idle"
      BY <2>8, <3>1, <3>2 DEF ReadNames, IdleMsg
    <3> QED
      BY <2>1, <2>2, <2>3, <2>4, <3>2, <3>3 DEF Calm, View, Current, ReadingHolds
  <2>9. CASE Rebuild
    BY <2>3, <2>9 DEF Rebuild, Calm
  <2> QED
    BY <1>11, <2>5, <2>6, <2>7, <2>8, <2>9 DEF Message
<1> QED
  BY <1>3, <1>4, <1>5, <1>6, <1>7, <1>8, <1>9, <1>10, <1>11 DEF Next, Network, User

-----------------------------------------------------------------------------
(* The rows follow the channels                                            *)

LEMMA RowsKept ==
  ASSUME TypeOK, RowsFollow, [Next]_vars
  PROVE  RowsFollow'
<1> USE DEF RowsFollow, Shown
<1>1. CASE UNCHANGED <<routing, lastMap, msg, usbChannelInfos, bridge>>
  BY <1>1 DEF MapOf
<1>2. CASE Network \/ Observe \/ PickInterface \/ TimerCallback \/ UNCHANGED vars
  <2>1. CASE Network
    BY <1>1, <2>1 DEF Network, GoesOnline, GoesOffline, IsRenamed, Connects, ListenerNotifies,
       Event, combos, table
  <2>2. CASE Observe
    BY <1>1, <2>2 DEF Observe, OnEntityOnline, OnEntityNameChanged, OnChange, combos, table
  <2> QED
    BY <1>1, <1>2, <2>1, <2>2 DEF PickInterface, TimerCallback, Pick, combos, table, vars
<1>3. CASE PickBridge \/ PickListener
  <2>1. msg'.pc = "streams" /\ msg'.why = "pick" /\ UNCHANGED <<routing, lastMap>>
    BY <1>3 DEF PickBridge, PickListener, Begin, table
  <2> QED
    BY <2>1 DEF MapOf
<1>4. CASE PickRow
  <2>1. PICK slot \in DOMAIN routing, ch \in (DOMAIN usbChannelInfos) \cup {0} :
          /\ routing' = [routing EXCEPT ![slot] =
               IF ch = 0 THEN Blank ELSE [ch |-> ch - 1, eid |-> usbChannelInfos[ch]]]
          /\ lastMap' = MapOf(routing') /\ msg.pc = "idle"
          /\ UNCHANGED <<msg, usbChannelInfos, bridge>>
    BY <1>4 DEF PickRow, Pick, combos
  <2> DEFINE row == IF ch = 0 THEN Blank ELSE [ch |-> ch - 1, eid |-> usbChannelInfos[ch]]
  <2>2. routing \in Seq(Rows) /\ DOMAIN usbChannelInfos \subseteq Nat
    BY DEF TypeOK, Rows
  <2>3. row = Blank \/ (/\ row.ch + 1 \in DOMAIN usbChannelInfos
                        /\ row.eid = usbChannelInfos[row.ch + 1])
    <3>1. CASE ch = 0
      BY <3>1
    <3>2. CASE ch # 0
      <4>1. ch \in Nat /\ ch \in DOMAIN usbChannelInfos /\ (ch - 1) + 1 = ch
        BY <2>2, <3>2
      <4>2. row.ch = ch - 1 /\ row.eid = usbChannelInfos[ch]
        BY <3>2
      <4> QED
        BY <4>1, <4>2
    <3> QED
      BY <3>1, <3>2
  <2> HIDE DEF row
  <2>4. /\ DOMAIN routing' = DOMAIN routing /\ Len(routing') = Len(routing)
        /\ routing'[slot] = row /\ \A i \in DOMAIN routing : i # slot => routing'[i] = routing[i]
    <3>1. routing' = [routing EXCEPT ![slot] = row]
      BY <2>1 DEF row
    <3> QED
      BY <2>2, <3>1
  <2>5. /\ Len(routing) = Min({bridge.channels, MaxRows}) /\ Len(usbChannelInfos) = bridge.channels
        /\ \A i \in DOMAIN routing :
             \/ routing[i] = Blank
             \/ /\ routing[i].ch + 1 \in DOMAIN usbChannelInfos
                /\ routing[i].eid = usbChannelInfos[routing[i].ch + 1]
    BY <2>1
  <2>6. \A i \in DOMAIN routing' :
          \/ routing'[i] = Blank
          \/ /\ routing'[i].ch + 1 \in DOMAIN usbChannelInfos
             /\ routing'[i].eid = usbChannelInfos[routing'[i].ch + 1]
    <3> SUFFICES ASSUME NEW i \in DOMAIN routing'
                 PROVE  \/ routing'[i] = Blank
                        \/ /\ routing'[i].ch + 1 \in DOMAIN usbChannelInfos
                           /\ routing'[i].eid = usbChannelInfos[routing'[i].ch + 1]
      OBVIOUS
    <3>1. CASE i = slot
      BY <2>3, <2>4, <3>1
    <3>2. CASE i # slot
      <4>1. i \in DOMAIN routing /\ routing'[i] = routing[i]
        BY <2>4, <3>2
      <4> QED
        BY <2>5, <4>1
    <3> QED
      BY <3>1, <3>2
  <2> QED
    BY <2>1, <2>4, <2>5, <2>6
<1>5. CASE HandleEntityList
  <2>1. /\ msg.pc = "idle" /\ msg'.pc = "streams"
        /\ UNCHANGED <<routing, lastMap, usbChannelInfos, bridge>>
    BY <1>5 DEF HandleEntityList, Begin, table
  <2> QED
    BY <2>1 DEF MapOf
<1>6. CASE ReadStreams \/ ReadTalkers
  <2>1. /\ msg.pc \in {"streams", "talkers"} /\ msg'.pc \in {"talkers", "names"}
        /\ msg'.why = msg.why /\ UNCHANGED <<routing, lastMap, usbChannelInfos, bridge>>
    BY <1>6 DEF ReadStreams, ReadTalkers, TypeOK, combos, table
  <2> QED
    BY <2>1 DEF MapOf
<1>7. CASE ReadNames
  <2>1. Listed \subseteq Entities /\ \A e \in Listed : entities[e] \in Names
    BY SequenceRange DEF TypeOK, Listed
  <2>2. msg.conns \in Seq(Conns) /\ msg.why \in {"list", "pick"}
    BY DEF TypeOK, Conns
  <2>3. bridge.channels \in Nat
    BY BridgesHaveChannels, Zenon DEF TypeOK
  <2>4. Len(usbChannelInfos') = bridge.channels
    BY <1>7, <2>1, <2>2, <2>3, AnnotateType DEF ReadNames
  <2>5. msg.pc = "names" /\ UNCHANGED <<routing, lastMap, bridge>>
    BY <1>7 DEF ReadNames, table, combos
  <2>6. CASE msg'.pc = "rebuild"
    BY <2>4, <2>5, <2>6 DEF MapOf
  <2>7. CASE msg'.pc # "rebuild"
    <3>1. msg.why = "list" /\ usbChannelInfos' = usbChannelInfos
      BY <1>7, <2>2, <2>7 DEF ReadNames
    <3> QED
      BY <2>4, <2>5, <3>1 DEF MapOf
  <2> QED
    BY <2>6, <2>7
<1>8. CASE Rebuild
  <2>1. /\ msg.pc = "rebuild" /\ msg'.pc = "idle" /\ UNCHANGED <<usbChannelInfos, bridge>>
        /\ routing' = Identity(usbChannelInfos) /\ lastMap' = MapOf(routing')
    BY <1>8 DEF Rebuild, IdleMsg, combos
  <2>2. usbChannelInfos \in Seq(Sources) /\ Len(usbChannelInfos) = bridge.channels
    BY <2>1 DEF TypeOK
  <2>3. /\ Len(routing') = Min({bridge.channels, MaxRows})
        /\ \A i \in DOMAIN routing' :
             /\ routing'[i].ch + 1 \in DOMAIN usbChannelInfos
             /\ routing'[i].eid = usbChannelInfos[routing'[i].ch + 1]
    BY <2>1, <2>2, IdentityType
  <2> QED
    BY <2>1, <2>2, <2>3
<1> QED
  BY <1>2, <1>3, <1>4, <1>5, <1>6, <1>7, <1>8 DEF Next, User, Message

-----------------------------------------------------------------------------
(* The invariant                                                           *)

LEMMA InitHolds ==
  ASSUME Init
  PROVE  PatchbayInv
<1>1. TypeOK
  BY InitTypes
<1>2. TableFollows
  <2>1. /\ la.pc = "idle" /\ online = Listed
        /\ \A e \in Entities : called[e] = 1 /\ (e \in Listed => entities[e] = 1)
    BY DEF Init, Listed, IdleLa
  <2>2. Listed \subseteq Entities
    BY <1>1, SequenceRange DEF TypeOK, Listed
  <2> QED
    BY <2>1, <2>2 DEF TableFollows
<1>3. bridge \in Bridges /\ bridge.channels \in Nat /\ 0 < bridge.channels
  BY <1>1, BridgesHaveChannels, Zenon DEF TypeOK
<1>4. Known[1] \in online /\ Known[1] = bridgeListenerEntityId
  <2>1. Known \in Seq(Entities) /\ Len(Known) \in Nat \ {0}
    BY EntitiesAssumption, EmptySeq
  <2>2. 1 \in DOMAIN Known
    BY <2>1, LenProperties
  <2> QED
    BY <2>1, <2>2, SequenceRange DEF Init
<1>5. Current
  <2>1. Connections = Streams(Known[1])
    <3>1. bridge.channels > 0
      BY <1>3
    <3> QED
      BY <1>4, <3>1 DEF Connections
  <2> QED
    BY <2>1 DEF Init, Current, Present
<1>6. ReadingCurrent /\ Undisturbed
  BY <1>5 DEF Init, ReadingCurrent, Undisturbed, ReadingHolds, IdleMsg, IdleLa
<1>7. RowsFollow
  <2>1. Listed \subseteq Entities /\ \A e \in Listed : entities[e] \in Names
    BY <1>1, SequenceRange DEF TypeOK, Listed
  <2>2. Present \in Seq(Conns)
    BY <1>1, PresentTalkers
  <2>3. usbChannelInfos \in Seq(Sources) /\ Len(usbChannelInfos) = bridge.channels
    <3>1. Annotate(bridge.channels, Present) \in Seq(Sources)
          /\ Len(Annotate(bridge.channels, Present)) = bridge.channels
      BY <1>3, <2>1, <2>2, AnnotateType
    <3> QED
      BY <1>5, <3>1 DEF Current
  <2>4. routing = Identity(usbChannelInfos) /\ lastMap = MapOf(routing) /\ msg.pc = "idle"
    BY DEF Init, IdleMsg
  <2> QED
    BY <2>3, <2>4, IdentityType DEF RowsFollow, Shown
<1> QED
  BY <1>1, <1>2, <1>6, <1>7 DEF PatchbayInv

LEMMA StepKeeps ==
  ASSUME PatchbayInv, [Next]_vars
  PROVE  PatchbayInv'
<1>1. TypeOK /\ TypeOK'
  BY StepTypes DEF PatchbayInv
<1>2. TableFollows /\ TableFollows'
  BY <1>1, TableKept DEF PatchbayInv
<1>3. ReadingCurrent' /\ RowsFollow'
  BY <1>1, ReadingKept, RowsKept DEF PatchbayInv
<1>4. Undisturbed'
  BY <1>1, <1>2, UndisturbedKept DEF PatchbayInv
<1> QED
  BY <1>1, <1>2, <1>3, <1>4 DEF PatchbayInv

\* The table follows the network, what the handler has read is right unless word
\* of a change is on its way, nothing is stale while nothing concerns the
\* listener, and the rows show what has been read.
THEOREM PatchbayInvariant == Spec => []PatchbayInv
<1>1. Init => PatchbayInv
  BY InitHolds
<1>2. PatchbayInv /\ [Next]_vars => PatchbayInv'
  BY StepKeeps
<1> QED
  BY <1>1, <1>2, PTL DEF Spec

\* However the observers, the posted lists and the three steps of reading the
\* network interleave, a map that the app sends by itself goes back to a change
\* that concerned the picked listener, or to a pick: bystanders never reset the
\* user's routing.
THEOREM BystandersLeaveRouting == Spec => BystandersSendNoMap
<1>1. PatchbayInv /\ [Next]_vars => [msg.pc = "rebuild" /\ msg'.pc = "idle" => stirred]_vars
  BY DEF PatchbayInv, Undisturbed
<1> QED
  BY <1>1, PatchbayInvariant, PTL DEF Spec, BystandersSendNoMap

-----------------------------------------------------------------------------
(* What is shown is true                                                   *)

\* Multiples of c are ordered as their factors.
LEMMA FactorOrder ==
  ASSUME NEW c \in Nat, c > 0, NEW a \in Int, NEW b \in Int, a * c < b * c
  PROVE  a < b
<1> SUFFICES ASSUME a >= b PROVE FALSE
  OBVIOUS
<1>1. (a - b) * c = a * c - b * c
  OBVIOUS
<1>2. (a - b) * c >= 0
  OBVIOUS
<1> QED
  BY <1>1, <1>2

\* A channel is in the group that its number divided by the size of a group
\* gives, at the place that is left over.
LEMMA GroupOfChannel ==
  ASSUME NEW g \in Nat, g > 0, NEW ch \in Nat, NEW w \in Nat, w <= g, NEW i \in Nat, i >= 1
  PROVE  (i - 1) * g < ch + 1 /\ ch + 1 <= (i - 1) * g + w <=> i = 1 + ch \div g /\ ch % g < w
<1> DEFINE q == ch \div g
           r == ch % g
           k == i - 1
<1>1. q \in Nat /\ r \in 0..(g - 1) /\ ch = q * g + r
  OBVIOUS
<1>2. k \in Nat /\ (i = 1 + q <=> k = q)
  BY <1>1
<1> HIDE DEF q, r, k
<1>3. k * g \in Int /\ q * g \in Int /\ (k + 1) * g = k * g + g /\ (q + 1) * g = q * g + g
  BY <1>1, <1>2
<1>4. ASSUME k * g < ch + 1, ch + 1 <= k * g + w
      PROVE  k = q /\ r < w
  <2>1. k * g < (q + 1) * g /\ q * g < (k + 1) * g
    BY <1>1, <1>3, <1>4
  <2>2. k < q + 1 /\ q < k + 1
    BY <1>1, <1>2, <2>1, FactorOrder
  <2>3. k = q
    BY <1>1, <1>2, <2>2
  <2> QED
    BY <1>1, <1>3, <1>4, <2>3
<1>5. ASSUME k = q, r < w
      PROVE  k * g < ch + 1 /\ ch + 1 <= k * g + w
  BY <1>1, <1>3, <1>5
<1> QED
  BY <1>2, <1>4, <1>5 DEF q, r, k

\* When the table has everything that is there, under its name, each channel
\* shows the talker that feeds its group.
LEMMA ShownIsTrue ==
  ASSUME StreamsFit, TypeOK, TableFollows, la.pc = "idle", NEW ch \in 0..(bridge.channels - 1)
  PROVE  Annotate(bridge.channels, Present)[ch + 1] = TrueSource(ch)
<1> DEFINE l == bridgeListenerEntityId
           audio == AudioInputs(l)
           n == Len(audio)
           g == bridge.channels \div n
           t(i) == feeds[l][audio[i]]
           w(i) == Inputs[l][audio[i]]
           shown == Annotate(bridge.channels, Present)[ch + 1]
           reach == Reach(bridge.channels, Present, ch + 1)
<1>1. bridge \in Bridges /\ bridge.channels \in Nat /\ 0 < bridge.channels
  BY BridgesHaveChannels, Zenon DEF TypeOK
<1>2. ch \in Nat /\ ch + 1 \in 1..bridge.channels
  BY <1>1
<1>3. /\ online \subseteq Listed /\ Listed \subseteq Entities /\ 0 \notin Listed
      /\ \A e \in Listed : entities[e] = called[e] /\ entities[e] \in Names
  BY SequenceRange, EntitiesAssumption DEF TypeOK, TableFollows, Entering, Listed
<1>4. Present \in Seq(Conns) /\ Len(Present) = Len(Connections)
  BY PresentTalkers
<1>5. IF reach = {} THEN shown = 0
      ELSE \E i \in reach : shown = Source(Present[i].talker, entities[Present[i].talker])
  BY <1>1, <1>2, <1>3, <1>4, AnnotateType
<1>6. CASE l \notin online
  <2>1. Connections = << >>
    BY <1>6 DEF Connections
  <2>2. reach = {}
    BY <1>4, <2>1, LenProperties DEF Reach
  <2>3. TrueSource(ch) = 0
    BY <1>6 DEF TrueSource
  <2> QED
    BY <1>5, <2>2, <2>3
<1>7. CASE l \in online
  <2>1. l \in Entities /\ Connections = Streams(l)
    BY <1>1, <1>3, <1>7 DEF Connections
  <2>2. /\ audio \in Seq(1..Len(Inputs[l])) /\ n \in Nat /\ DOMAIN audio = 1..n
        /\ \A i \in 1..n : w(i) \in Nat \ {0}
    BY <2>1, AudioInputsType, LenProperties
  <2>3. \A i \in 1..n : w(i) <= g
    BY <1>1, <2>1, <2>2 DEF StreamsFit
  <2>4. Len(Present) = n /\ DOMAIN Present = 1..n
    BY <1>4, <2>1, StreamsType, LenProperties
  <2>5. ASSUME NEW i \in 1..n
        PROVE  Present[i].stream = audio[i] /\ Present[i].talker = IF t(i) \in online THEN t(i) ELSE 0
    <3>1. Streams(l)[i] = [stream |-> audio[i], talker |-> 0]
      BY <2>1, StreamsType
    <3>2. Connections[i].stream = audio[i]
      BY <2>1, <3>1
    <3>3. LET s == feeds[l][Connections[i].stream] IN
          Present[i] = [stream |-> Connections[i].stream,
                        talker |-> IF s \in Listed \cap online THEN s ELSE 0]
      BY <2>4, PresentTalkers
    <3>4. Present[i] = [stream |-> audio[i], talker |-> IF t(i) \in Listed \cap online THEN t(i) ELSE 0]
      BY <3>2, <3>3
    <3> QED
      BY <1>3, <3>4
  <2>6. ASSUME NEW i \in 1..n
        PROVE  i \in reach <=> i = 1 + ch \div g /\ ch % g < w(i) /\ t(i) \in online
    <3>1. g \in Nat /\ g > 0
      <4>1. n \in Nat /\ n > 0
        BY <2>2
      <4>2. g \in Nat
        BY <1>1, <4>1
      <4> HIDE DEF g, w
      <4> QED
        BY <2>2, <2>3, <4>2
    <3>2. w(i) \in Nat /\ w(i) <= g
      BY <2>2, <2>3
    <3>3. Offset(bridge.channels, Present, i) = (i - 1) * g
      BY <2>4 DEF Offset
    <3>4. i \in reach <=> /\ Present[i].talker # 0
                          /\ (i - 1) * g < ch + 1 /\ ch + 1 <= (i - 1) * g + w(i)
      BY <2>4, <2>5, <3>3 DEF Reach
    <3> HIDE DEF g, w, reach
    <3>5. Present[i].talker # 0 <=> t(i) \in online
      BY <1>3, <2>5
    <3>6. i \in Nat /\ i >= 1
      BY <2>2
    <3> QED
      BY <1>2, <3>1, <3>2, <3>4, <3>5, <3>6, GroupOfChannel
  <2>7. reach \subseteq 1..n
    BY <2>4 DEF Reach
  <2> DEFINE k == 1 + ch \div g
  <2>8. TrueSource(ch) = IF n # 0 /\ k <= n /\ ch % g < w(k) /\ t(k) \in online
                         THEN Source(t(k), called[t(k)]) ELSE 0
    <3>1. audio # << >> <=> n # 0
      BY <2>2, EmptySeq
    <3> QED
      BY <1>7, <3>1 DEF TrueSource
  <2>9. n # 0 => k \in Nat /\ k >= 1
    <3>1. ASSUME n # 0 PROVE g \in Nat /\ g > 0
      <4>1. n \in Nat /\ n > 0
        BY <2>2, <3>1
      <4>2. g \in Nat
        BY <1>1, <4>1
      <4>3. 1 \in 1..n
        BY <4>1
      <4> HIDE DEF g, w
      <4> QED
        BY <2>2, <2>3, <4>2, <4>3
    <3> HIDE DEF g
    <3> QED
      BY <1>2, <3>1
  <2> HIDE DEF k, g, w, t, reach, shown
  <2>10. ASSUME reach = {} PROVE shown = TrueSource(ch)
    <3>1. ~(n # 0 /\ k <= n /\ ch % g < w(k) /\ t(k) \in online)
      BY <2>2, <2>6, <2>9, <2>10 DEF k
    <3> QED
      BY <1>5, <2>8, <2>10, <3>1, Zenon
  <2>11. ASSUME reach # {} PROVE shown = TrueSource(ch)
    <3>1. PICK i \in reach : shown = Source(Present[i].talker, entities[Present[i].talker])
      BY <1>5, <2>11
    <3>2. i \in 1..n /\ i = k /\ ch % g < w(k) /\ t(k) \in online
      BY <2>6, <2>7, <3>1 DEF k
    <3>3. Present[i].talker = t(k)
      BY <2>5, <3>2
    <3>4. entities[t(k)] = called[t(k)]
      BY <1>3, <3>2
    <3>5. n # 0 /\ k <= n
      BY <2>2, <3>2
    <3> QED
      BY <2>8, <3>1, <3>2, <3>3, <3>4, <3>5, Zenon
  <2> QED
    BY <2>10, <2>11 DEF shown
<1> QED
  BY <1>6, <1>7

\* When all is quiet, the driver was last sent, for each slot, the talker that
\* really feeds its USB channel, under its present name: for any number of
\* entities, streams, changes and picks, if no stream is wider than its group.
THEOREM QuietPatchbayIsTruthful ==
  ASSUME StreamsFit
  PROVE  Spec => []PatchbayTruthful
<1>1. PatchbayInv => PatchbayTruthful
  <2> SUFFICES ASSUME PatchbayInv, Quiet, ~silent
               PROVE  Truthful
    BY DEF PatchbayTruthful
  <2> USE DEF PatchbayInv
  <2>1. la.pc = "idle" /\ msg.pc = "idle" /\ Current
    BY DEF Quiet, ReadingCurrent
  <2>2. /\ Len(routing) = Min({bridge.channels, MaxRows}) /\ lastMap = MapOf(routing)
        /\ Len(usbChannelInfos) = bridge.channels
        /\ \A i \in DOMAIN routing :
             \/ routing[i] = Blank
             \/ /\ routing[i].ch + 1 \in DOMAIN usbChannelInfos
                /\ routing[i].eid = usbChannelInfos[routing[i].ch + 1]
    BY <2>1 DEF RowsFollow, Shown
  <2>3. bridge.channels \in Nat /\ bridge.channels <= Unassigned
    BY BridgesHaveChannels, Zenon DEF TypeOK
  <2>4. DOMAIN usbChannelInfos = 1..bridge.channels
    BY <2>2, LenProperties DEF TypeOK
  <2>5. \A c \in 0..(bridge.channels - 1) : usbChannelInfos[c + 1] = TrueSource(c)
    BY <2>1, ShownIsTrue DEF Current
  <2>6. ASSUME NEW i \in DOMAIN routing
        PROVE  routing[i].eid = IF routing[i].ch = Unassigned THEN 0 ELSE TrueSource(routing[i].ch)
    <3>1. CASE routing[i] = Blank
      BY <3>1 DEF Blank
    <3>2. CASE routing[i] # Blank
      <4>1. routing[i].ch \in Nat
        <5>1. routing \in Seq(Rows)
          BY DEF TypeOK, Rows
        <5>2. routing[i] \in Rows
          BY <5>1, LenProperties, ElementOfSeq
        <5> QED
          BY <5>2 DEF Rows
      <4>2. /\ routing[i].ch + 1 \in 1..bridge.channels
            /\ routing[i].eid = usbChannelInfos[routing[i].ch + 1]
        BY <2>2, <2>4, <3>2
      <4>3. routing[i].ch \in 0..(bridge.channels - 1) /\ routing[i].ch # Unassigned
        BY <2>3, <4>1, <4>2 DEF Unassigned
      <4> QED
        BY <2>5, <4>2, <4>3
    <3> QED
      BY <3>1, <3>2
  <2>7. MapOf(routing) = [i \in DOMAIN routing |->
          IF routing[i].ch = Unassigned THEN 0 ELSE TrueSource(routing[i].ch)]
    BY <2>6, Zenon DEF MapOf
  <2> QED
    BY <2>2, <2>7, Zenon DEF Truthful
<1> QED
  BY <1>1, PatchbayInvariant, PTL
=============================================================================
