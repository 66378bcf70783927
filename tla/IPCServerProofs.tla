--------------------------- MODULE IPCServerProofs ---------------------------
(***************************************************************************)
(* Theorems about IPCServer, for any connections, descriptors, maps and    *)
(* UIDs.                                                                   *)
(***************************************************************************)
EXTENDS IPCServer, WellFoundedInduction, TLAPS

USE FdsAssumption, ValuesAssumption, NamesAssumption

\* A set of natural numbers has a smallest element.
LEMMA Smallest ==
  ASSUME NEW S \in SUBSET Nat, S # {}
  PROVE  \E n \in S : \A m \in S : n <= m
<1>1. PICK n \in S : \A m \in S : ~(<<m, n>> \in OpToRel(<, Nat))
  BY NatLessThanWellFounded, WFMin
<1>2. ASSUME NEW m \in S
      PROVE  n <= m
  <2>1. m \in Nat /\ n \in Nat
    OBVIOUS
  <2>2. m < n => <<m, n>> \in OpToRel(<, Nat)
    BY <2>1 DEF OpToRel
  <2>3. <<m, n>> \notin OpToRel(<, Nat)
    BY <1>1, <1>2
  <2>4. ~(m < n)
    BY <2>2, <2>3
  <2> QED
    BY <2>1, <2>4
<1> QED
  BY <1>2

\* So Lowest is a free descriptor, if there is one.
LEMMA LowestIsFree ==
  ASSUME HasFree
  PROVE  Lowest \in Fds /\ table[Lowest] = None
<1> DEFINE free == {f \in Fds : table[f] = None}
<1>1. free \in SUBSET Nat /\ free # {}
  BY DEF HasFree
<1>2. PICK f \in free : \A g \in free : f <= g
  BY <1>1, Smallest
<1> QED
  BY <1>2 DEF Lowest

\* Any set of positions has its elements in order.
Ordered(p, left) == Range(p) = left /\ \A j, k \in DOMAIN p : j < k => p[j] < p[k]

LEMMA PositionsInOrder ==
  ASSUME NEW n \in Nat, NEW left \in SUBSET (1..n)
  PROVE  \E p \in BoundedSeq(left, n) : Ordered(p, left)
<1> DEFINE Holds(m) == \A s \in SUBSET (1..m) : \E p \in BoundedSeq(s, m) : Ordered(p, s)
           failing  == {m \in Nat : ~Holds(m)}
<1>1. ASSUME NEW m \in Nat, NEW s, NEW k \in 0..m, NEW p \in [1..k -> s]
      PROVE  p \in BoundedSeq(s, m)
  BY <1>1 DEF BoundedSeq, SeqOf
<1>2. ASSUME NEW m \in Nat, NEW s, NEW p \in BoundedSeq(s, m)
      PROVE  \E k \in 0..m : p \in [1..k -> s]
  BY <1>2 DEF BoundedSeq, SeqOf
<1>3. Holds(0)
  <2> SUFFICES ASSUME NEW s \in SUBSET (1..0)
               PROVE  \E p \in BoundedSeq(s, 0) : Ordered(p, s)
    OBVIOUS
  <2>1. s = {} /\ << >> \in [1..0 -> s] /\ 0 \in 0..0
    OBVIOUS
  <2>2. << >> \in BoundedSeq(s, 0)
    BY <1>1, <2>1
  <2> QED
    BY <2>1, <2>2 DEF Ordered, Range
<1>4. ASSUME NEW m \in Nat, m # 0, Holds(m - 1)
      PROVE  Holds(m)
  <2> SUFFICES ASSUME NEW s \in SUBSET (1..m)
               PROVE  \E p \in BoundedSeq(s, m) : Ordered(p, s)
    OBVIOUS
  <2>0. m - 1 \in Nat /\ s \ {m} \in SUBSET (1..(m - 1))
    BY <1>4
  <2>1. PICK p \in BoundedSeq(s \ {m}, m - 1) : Ordered(p, s \ {m})
    BY <1>4, <2>0
  <2>2. PICK k \in 0..(m - 1) : p \in [1..k -> s \ {m}]
    BY <1>2, <2>0, <2>1
  <2>3. CASE m \notin s
    <3>1. s \ {m} = s /\ k \in 0..m
      BY <2>0, <2>2, <2>3
    <3>2. p \in BoundedSeq(s, m)
      BY <1>1, <2>2, <3>1
    <3> QED
      BY <2>1, <3>1, <3>2
  <2>4. CASE m \in s
    <3> DEFINE q == [i \in 1..(k + 1) |-> IF i = k + 1 THEN m ELSE p[i]]
    <3>1. q \in [1..(k + 1) -> s] /\ k + 1 \in 0..m
      BY <2>2, <2>4
    <3>2. q \in BoundedSeq(s, m)
      BY <1>1, <3>1
    <3>3. Range(q) = s
      BY <2>1, <2>2, <2>4 DEF Ordered, Range
    <3>4. \A i, j \in 1..(k + 1) : i < j => q[i] < q[j]
      <4>1. \A i \in 1..k : p[i] \in 1..(m - 1)
        BY <2>0, <2>2
      <4>2. \A i \in 1..k : p[i] < m
        BY <2>0, <4>1
      <4>3. \A i, j \in 1..k : i < j => p[i] < p[j]
        BY <2>1, <2>2 DEF Ordered
      <4>4. k \in Nat /\ \A i \in 1..(k + 1) : i \in 1..k \/ i = k + 1
        BY <2>0, <2>2
      <4>5. \A i, j \in 1..(k + 1) : i < j => i \in 1..k /\ (j \in 1..k \/ j = k + 1)
        BY <4>4
      <4>6. \A i \in 1..k : q[i] = p[i] /\ q[k + 1] = m
        BY <4>4
      <4> QED
        BY <4>2, <4>3, <4>5, <4>6
    <3> QED
      BY <3>2, <3>3, <3>4 DEF Ordered
  <2> QED
    BY <2>3, <2>4
<1>5. failing = {}
  <2> SUFFICES ASSUME failing # {} PROVE FALSE
    OBVIOUS
  <2>1. failing \in SUBSET Nat
    OBVIOUS
  <2>2. PICK m \in failing : \A j \in failing : m <= j
    BY <2>1, Smallest
  <2>3. m \in Nat /\ ~Holds(m)
    BY <2>2
  <2>4. m # 0
    BY <1>3, <2>3
  <2>5. m - 1 \in Nat /\ m - 1 < m
    BY <2>3, <2>4
  <2>6. m - 1 \notin failing
    BY <2>2, <2>3, <2>5
  <2>7. Holds(m - 1)
    BY <2>5, <2>6
  <2> QED
    BY <1>4, <2>3, <2>4, <2>7
<1>6. Holds(n)
  BY <1>5
<1> QED
  BY <1>6

\* What is left of a sequence are its other elements, each once if each was once.
LEMMA WithoutKeeps ==
  ASSUME NEW S, NEW s \in Seq(S), NEW dead
  PROVE  /\ Without(s, dead) \in Seq(S)
         /\ Range(Without(s, dead)) = Range(s) \ dead
         /\ IsInjective(s) => IsInjective(Without(s, dead))
<1> DEFINE left == {i \in DOMAIN s : s[i] \notin dead}
           at   == CHOOSE p \in BoundedSeq(left, Len(s)) :
                     Range(p) = left /\ \A j, k \in DOMAIN p : j < k => p[j] < p[k]
           r    == Without(s, dead)
<1>1. Len(s) \in Nat /\ DOMAIN s = 1..Len(s) /\ left \in SUBSET (1..Len(s))
  OBVIOUS
<1>2. \E p \in BoundedSeq(left, Len(s)) : Ordered(p, left)
  BY <1>1, PositionsInOrder
<1>3. at \in BoundedSeq(left, Len(s)) /\ Ordered(at, left)
  BY <1>2 DEF Ordered
<1>4. r = [k \in DOMAIN at |-> s[at[k]]]
  BY DEF Without
<1> HIDE DEF at, r
<1>5. PICK n \in 0..Len(s) : at \in [1..n -> left]
  BY <1>1, <1>3 DEF BoundedSeq, SeqOf
<1>6. \A k \in 1..n : at[k] \in left /\ s[at[k]] \in S
  BY <1>1, <1>5
<1>7. r \in [1..n -> S] /\ n \in Nat
  BY <1>1, <1>4, <1>5, <1>6
<1>8. r \in Seq(S)
  BY <1>7
<1>9. Range(r) = Range(s) \ dead
  BY <1>3, <1>4, <1>5 DEF Ordered, Range
<1>10. ASSUME IsInjective(s), NEW j \in 1..n, NEW k \in 1..n, r[j] = r[k]
       PROVE  j = k
  <2>1. at[j] = at[k]
    BY <1>4, <1>5, <1>6, <1>10 DEF IsInjective
  <2>2. at[j] \in Nat /\ ~(j < k) /\ ~(k < j)
    BY <1>1, <1>3, <1>5, <1>6, <2>1 DEF Ordered
  <2> QED
    BY <1>7, <2>2
<1>11. IsInjective(s) => IsInjective(r)
  BY <1>7, <1>10 DEF IsInjective
<1> QED
  BY <1>8, <1>9, <1>11 DEF r

-----------------------------------------------------------------------------
Seen == [map: MapValues \cup {0}, uid: Uids \cup {0}]

\* The client list is a list of descriptors.
LEMMA ListedAreDescriptors ==
  ASSUME TypeOK
  PROVE  Range(clients) \subseteq Fds
BY DEF TypeOK, Range

\* What the app closes keeps its type, and is not new.
LEMMA DroppedTypes ==
  ASSUME TypeOK, NEW cs, Dropped(cs)
  PROVE  /\ peer' \in [Conns -> {"new", "waiting", "connected", "gone"}]
         /\ inbox' \in [Conns -> BOOLEAN]
         /\ \A c \in Conns : peer'[c] \in {"new", "waiting"} => peer[c] = peer'[c]
BY DEF Dropped, TypeOK

\* A broadcast leaves exactly the clients it reached, and each has seen it.
LEMMA SendKeeps ==
  ASSUME TypeOK, VictimKnown, ListedExactly, OneDescriptor,
         NEW after \in [Conns -> Seen], SendToClients(after), UNCHANGED server
  PROVE  /\ clients' \in Seq(Fds) /\ IsInjective(clients')
         /\ table' \in [Fds -> Conns \cup {None, Other}] /\ seen' \in [Conns -> Seen]
         /\ peer' \in [Conns -> {"new", "waiting", "connected", "gone"}]
         /\ inbox' \in [Conns -> BOOLEAN]
         /\ VictimKnown' /\ ListedExactly' /\ OneDescriptor'
         /\ \A f \in Range(clients') : table'[f] \in Conns =>
              f \in Range(clients) /\ table'[f] = table[f] /\ seen'[table'[f]] = after[table[f]]
<1>1. PICK dead \in SUBSET Range(clients) :
        /\ clients' = Without(clients, dead)
        /\ table' = [f \in Fds |-> IF f \in dead THEN None ELSE table[f]]
        /\ seen' = [c \in Conns |-> IF \E f \in Range(clients) \ dead : table[f] = c
                                    THEN after[c] ELSE Nothing]
        /\ Dropped({c \in Conns : \E f \in dead : table[f] = c})
  BY DEF SendToClients
<1>2. clients' \in Seq(Fds) /\ IsInjective(clients') /\ Range(clients') = Range(clients) \ dead
  BY <1>1, WithoutKeeps DEF TypeOK
<1>3. Range(clients) \subseteq Fds
  BY ListedAreDescriptors
<1>4. table' \in [Fds -> Conns \cup {None, Other}] /\ seen' \in [Conns -> Seen]
  BY <1>1 DEF TypeOK, Seen, Nothing
<1>5. /\ peer' \in [Conns -> {"new", "waiting", "connected", "gone"}]
      /\ inbox' \in [Conns -> BOOLEAN]
      /\ \A c \in Conns : peer'[c] \in {"new", "waiting"} => peer[c] = peer'[c]
  BY <1>1, DroppedTypes
<1>6. ListedExactly'
  BY <1>1, <1>2, <1>3 DEF ListedExactly, server
<1>7. OneDescriptor'
  BY <1>1, <1>5 DEF OneDescriptor
<1>8. ASSUME NEW f \in Range(clients'), table'[f] \in Conns
      PROVE  f \in Range(clients) /\ table'[f] = table[f] /\ seen'[table'[f]] = after[table[f]]
  <2>1. f \in Range(clients) \ dead /\ f \in Fds /\ table'[f] = table[f]
    BY <1>1, <1>2, <1>3, <1>8
  <2> QED
    BY <1>1, <1>8, <2>1
<1>9. VictimKnown'
  BY <1>1 DEF VictimKnown, server
<1> QED
  BY <1>2, <1>4, <1>5, <1>6, <1>7, <1>8, <1>9

\* A step of the server thread, or of a client, that changes neither the client
\* list, the descriptors, nor the caches, keeps it.
LEMMA QuietStep ==
  ASSUME ServerInv, TypeOK', VictimKnown', UNCHANGED <<shared, table, peer>>,
         pc # "erase" \/ (pc' = pc /\ victim' = victim)
  PROVE  ServerInv'
BY DEF shared, ServerInv, ListedExactly, OneDescriptor, CacheFollows, ClientsUpToDate

\* A new element goes to the end of a sequence.
LEMMA AppendKeeps ==
  ASSUME NEW S, NEW s \in Seq(S), NEW e \in S
  PROVE  /\ Append(s, e) \in Seq(S) /\ Range(Append(s, e)) = Range(s) \cup {e}
         /\ IsInjective(s) /\ e \notin Range(s) => IsInjective(Append(s, e))
<1> DEFINE r == Append(s, e)
<1>1. /\ Len(s) \in Nat /\ DOMAIN s = 1..Len(s) /\ DOMAIN r = 1..(Len(s) + 1)
      /\ r \in Seq(S) /\ r[Len(s) + 1] = e /\ \A i \in 1..Len(s) : r[i] = s[i]
  OBVIOUS
<1>2. \A i \in DOMAIN r : i \in DOMAIN s \/ i = Len(s) + 1
  BY <1>1
<1> HIDE DEF r
<1>3. Range(r) = Range(s) \cup {e}
  BY <1>1, <1>2 DEF Range
<1>4. IsInjective(s) /\ e \notin Range(s) => IsInjective(r)
  BY <1>1, <1>2 DEF IsInjective, Range
<1> QED
  BY <1>1, <1>3, <1>4 DEF r

\* Every step keeps the inductive invariant.
LEMMA ServerStep ==
  ASSUME ServerInv, [Next]_vars
  PROVE  ServerInv'
<1> USE DEF server, shared, world, Seen
<1>0. /\ TypeOK /\ VictimKnown /\ ListedExactly /\ OneDescriptor /\ CacheFollows
      /\ ClientsUpToDate /\ Range(clients) \subseteq Fds
  BY ListedAreDescriptors DEF ServerInv
<1>1. CASE BroadcastChannelMap
  <2>1. PICK m \in MapValues :
          /\ currentChannelMap' = (IF m = 0 THEN currentChannelMap ELSE m) /\ lastMap' = m
          /\ SendToClients([c \in Conns |-> [seen[c] EXCEPT !.map = m]])
          /\ UNCHANGED <<server, phase, currentBridgeUID>>
    BY <1>1 DEF BroadcastChannelMap
  <2> DEFINE after == [c \in Conns |-> [seen[c] EXCEPT !.map = m]]
  <2>2. after \in [Conns -> Seen]
    BY <1>0 DEF TypeOK
  <2>3. TypeOK' /\ VictimKnown' /\ ListedExactly' /\ OneDescriptor' /\ CacheFollows'
    BY <1>0, <2>1, <2>2, SendKeeps DEF TypeOK, VictimKnown, CacheFollows
  <2>4. ASSUME NEW f \in Range(clients'), table'[f] \in Conns
        PROVE  seen'[table'[f]].map = m /\ seen'[table'[f]].uid = currentBridgeUID
    <3>1. f \in Range(clients) /\ table'[f] = table[f] /\ seen'[table'[f]] = after[table[f]]
      BY <1>0, <2>1, <2>2, <2>4, SendKeeps
    <3>2. seen[table[f]].uid = currentBridgeUID /\ seen[table[f]] \in Seen
      BY <1>0, <2>4, <3>1 DEF ClientsUpToDate, TypeOK
    <3> QED
      BY <2>4, <3>1, <3>2
  <2>5. ClientsUpToDate'
    BY <2>1, <2>4 DEF ClientsUpToDate
  <2> QED
    BY <2>3, <2>5 DEF ServerInv
<1>2. CASE BroadcastUSBBridge
  <2>1. PICK u \in Uids :
          /\ currentBridgeUID' = u
          /\ SendToClients([c \in Conns |-> [seen[c] EXCEPT !.uid = u]])
          /\ UNCHANGED <<server, phase, currentChannelMap, lastMap>>
    BY <1>2 DEF BroadcastUSBBridge
  <2> DEFINE after == [c \in Conns |-> [seen[c] EXCEPT !.uid = u]]
  <2>2. after \in [Conns -> Seen]
    BY <1>0 DEF TypeOK
  <2>3. TypeOK' /\ VictimKnown' /\ ListedExactly' /\ OneDescriptor' /\ CacheFollows'
    BY <1>0, <2>1, <2>2, SendKeeps DEF TypeOK, VictimKnown, CacheFollows
  <2>4. ASSUME NEW f \in Range(clients'), table'[f] \in Conns
        PROVE  /\ \/ seen'[table'[f]].map = lastMap
                  \/ lastMap = 0 /\ seen'[table'[f]].map = currentChannelMap
               /\ seen'[table'[f]].uid = u
    <3>1. f \in Range(clients) /\ table'[f] = table[f] /\ seen'[table'[f]] = after[table[f]]
      BY <1>0, <2>1, <2>2, <2>4, SendKeeps
    <3>2. /\ \/ seen[table[f]].map = lastMap
             \/ lastMap = 0 /\ seen[table[f]].map = currentChannelMap
          /\ seen[table[f]] \in Seen
      BY <1>0, <2>4, <3>1 DEF ClientsUpToDate, TypeOK
    <3> QED
      BY <2>4, <3>1, <3>2
  <2>5. ClientsUpToDate'
    BY <2>1, <2>4 DEF ClientsUpToDate
  <2> QED
    BY <2>3, <2>5 DEF ServerInv
<1>3. CASE BroadcastOther
  <2>1. seen \in [Conns -> Seen] /\ SendToClients(seen)
        /\ UNCHANGED <<server, phase, currentChannelMap, currentBridgeUID, lastMap>>
    BY <1>0, <1>3 DEF BroadcastOther, TypeOK
  <2>2. TypeOK' /\ VictimKnown' /\ ListedExactly' /\ OneDescriptor' /\ CacheFollows'
    BY <1>0, <2>1, SendKeeps DEF TypeOK, VictimKnown, CacheFollows
  <2>3. ClientsUpToDate'
    BY <1>0, <2>1, SendKeeps DEF ClientsUpToDate
  <2> QED
    BY <2>2, <2>3 DEF ServerInv
<1>4. CASE Snapshot \/ LeaveLoop \/ CopyClients \/ SkipClient \/ EndLoop \/ Poll
  <2>1. CASE Snapshot \/ LeaveLoop \/ CopyClients
    BY <1>0, <2>1, QuietStep DEF Snapshot, LeaveLoop, CopyClients, TypeOK, VictimKnown
  <2>2. CASE SkipClient
    BY <1>0, <2>2, QuietStep DEF SkipClient, InLoop, TypeOK, VictimKnown
  <2>3. CASE EndLoop
    <3>1. << >> \in Seq(Fds) /\ << >> \in Seq(BOOLEAN)
      OBVIOUS
    <3>2. TypeOK' /\ VictimKnown'
      BY <1>0, <2>3, <3>1 DEF EndLoop, TypeOK, VictimKnown
    <3> QED
      BY <1>0, <2>3, <3>2, QuietStep DEF EndLoop
  <2>4. CASE Poll
    <3>1. ready' \in [1..Len(pfds) -> BOOLEAN] /\ Len(pfds) \in Nat
      BY <1>0, <2>4 DEF Poll, TypeOK
    <3>2. ready' \in Seq(BOOLEAN)
      BY <3>1
    <3>3. pc' \in {"accept", "copy", "top"}
      BY <2>4 DEF Poll, AfterPoll
    <3>4. TypeOK' /\ VictimKnown'
      BY <1>0, <2>4, <3>2, <3>3 DEF Poll, TypeOK, VictimKnown
    <3> QED
      BY <1>0, <2>4, <3>4, QuietStep DEF Poll
  <2> QED
    BY <1>4, <2>1, <2>2, <2>3, <2>4
<1>5. CASE ReadClient
  <2>1. CASE UNCHANGED inbox
    <3>1. idx' \in Nat \ {0}
      BY <1>0, <1>5 DEF ReadClient, TypeOK
    <3> QED
      BY <1>0, <1>5, <2>1, <3>1, QuietStep DEF ReadClient, InLoop, TypeOK, VictimKnown
  <2>2. CASE \E c \in Conns : inbox' = [inbox EXCEPT ![c] = FALSE]
    <3>1. inbox' \in [Conns -> BOOLEAN]
      BY <1>0, <2>2 DEF TypeOK
    <3>2. idx' \in Nat \ {0}
      BY <1>0, <1>5 DEF ReadClient, TypeOK
    <3>3. TypeOK' /\ VictimKnown'
      BY <1>0, <1>5, <3>1, <3>2 DEF ReadClient, TypeOK, VictimKnown
    <3> QED
      BY <1>0, <1>5, <3>3, QuietStep DEF ReadClient, InLoop
  <2> QED
    BY <1>5, <2>1, <2>2 DEF ReadClient
<1>6. ASSUME NEW c \in Waiting, Accept, HasFree,
             table' = [table EXCEPT ![Lowest] = c], clients' = Append(clients, Lowest),
             peer' = [peer EXCEPT ![c] = "connected"], seen' = [seen EXCEPT ![c] = Greeting]
      PROVE  ServerInv'
  <2>1. /\ Lowest \in Fds /\ table[Lowest] = None /\ c \in Conns /\ peer[c] = "waiting"
        /\ Lowest \notin Range(clients)
    BY <1>0, <1>6, LowestIsFree DEF Waiting, ListedExactly, Accept
  <2>2. clients' \in Seq(Fds) /\ Range(clients') = Range(clients) \cup {Lowest}
    BY <1>0, <1>6, <2>1, AppendKeeps DEF TypeOK
  <2>3. IsInjective(clients')
    BY <1>0, <1>6, <2>1, AppendKeeps DEF TypeOK
  <2>4. TypeOK'
    BY <1>0, <1>6, <2>1, <2>2, <2>3 DEF Accept, Greeting, TypeOK
  <2>5. VictimKnown' /\ ListedExactly' /\ CacheFollows'
    BY <1>0, <1>6, <2>1, <2>2 DEF Accept, VictimKnown, ListedExactly, CacheFollows, TypeOK
  <2>6. OneDescriptor'
    BY <1>0, <1>6, <2>1 DEF OneDescriptor, TypeOK
  <2>7. ClientsUpToDate'
    BY <1>0, <1>6, <2>1, <2>2 DEF Accept, Greeting, ClientsUpToDate, CacheFollows, OneDescriptor,
       TypeOK
  <2> QED
    BY <2>4, <2>5, <2>6, <2>7 DEF ServerInv
<1>7. CASE Accept /\ UNCHANGED <<table, clients, peer, seen>>
  BY <1>0, <1>7
  DEF Accept, ServerInv, TypeOK, VictimKnown, ListedExactly, OneDescriptor, CacheFollows,
      ClientsUpToDate
<1>8. CASE ReadFails
  <2>1. copy[idx] \in Fds
    BY <1>0, <1>8 DEF ReadFails, InLoop, TypeOK
  <2>2. pc = "loop"
    BY <1>8 DEF ReadFails, InLoop
  <2>3. TypeOK' /\ VictimKnown'
    BY <1>0, <1>8, <2>1 DEF ReadFails, TypeOK, VictimKnown
  <2> QED
    BY <1>0, <1>8, <2>2, <2>3, QuietStep DEF ReadFails
<1>9. CASE CloseVictim
  <2>1. victim \in Fds /\ Dropped({table[victim]} \cap Conns)
    BY <1>0, <1>9 DEF CloseVictim, VictimKnown
  <2>2. TypeOK' /\ VictimKnown'
    BY <1>0, <1>9, <2>1, DroppedTypes DEF CloseVictim, Nothing, TypeOK, VictimKnown
  <2>3. ListedExactly' /\ CacheFollows'
    BY <1>0, <1>9, <2>1 DEF CloseVictim, ListedExactly, CacheFollows, TypeOK
  <2>4. OneDescriptor'
    BY <1>0, <1>9, <2>1, DroppedTypes DEF CloseVictim, OneDescriptor, TypeOK
  <2>5. ClientsUpToDate'
    BY <1>0, <1>9, <2>1 DEF CloseVictim, OneDescriptor, ClientsUpToDate, TypeOK
  <2> QED
    BY <2>2, <2>3, <2>4, <2>5 DEF ServerInv
<1>10. CASE EraseVictim
  <2>1. /\ clients' \in Seq(Fds) /\ IsInjective(clients')
        /\ Range(clients') = Range(clients) \ {victim}
    BY <1>0, <1>10, WithoutKeeps DEF EraseVictim, TypeOK
  <2>2. TypeOK' /\ VictimKnown'
    BY <1>0, <1>10, <2>1 DEF EraseVictim, TypeOK, VictimKnown
  <2>3. ListedExactly'
    BY <1>0, <1>10, <2>1 DEF EraseVictim, VictimKnown, ListedExactly
  <2>4. OneDescriptor' /\ CacheFollows' /\ ClientsUpToDate'
    BY <1>0, <1>10, <2>1 DEF EraseVictim, OneDescriptor, CacheFollows, ClientsUpToDate
  <2> QED
    BY <2>2, <2>3, <2>4 DEF ServerInv
<1>11. CASE Stop
  BY <1>0, <1>11, QuietStep DEF Stop, TypeOK, VictimKnown
<1>12. CASE StopJoined
  <2>1. clients' = << >> /\ Range(clients') = {} /\ IsInjective(clients') /\ clients' \in Seq(Fds)
    BY <1>12 DEF StopJoined, Range, IsInjective
  <2>2. \A f \in Fds : table'[f] \notin Conns
    BY <1>0, <1>12 DEF StopJoined, ListedExactly
  <2>3. Dropped({c \in Conns : \E f \in Range(clients) : table[f] = c})
    BY <1>12 DEF StopJoined
  <2>4. TypeOK' /\ VictimKnown'
    BY <1>0, <1>12, <2>1, <2>3, DroppedTypes DEF StopJoined, Nothing, TypeOK, VictimKnown
  <2> QED
    BY <1>0, <1>12, <2>1, <2>2, <2>4
    DEF StopJoined, ServerInv, ListedExactly, OneDescriptor, CacheFollows, ClientsUpToDate
<1>13. CASE Connect
  <2>1. PICK c \in Conns : peer[c] = "new" /\ peer' = [peer EXCEPT ![c] = "waiting"]
    BY <1>13 DEF Connect
  <2>2. TypeOK' /\ VictimKnown' /\ OneDescriptor'
    BY <1>0, <1>13, <2>1 DEF Connect, TypeOK, VictimKnown, OneDescriptor
  <2> QED
    BY <1>0, <1>13, <2>2 DEF Connect, ServerInv, ListedExactly, CacheFollows, ClientsUpToDate
<1>14. CASE PeerSends
  BY <1>0, <1>14, QuietStep DEF PeerSends, TypeOK, VictimKnown
<1>15. CASE HangUp
  <2>1. PICK c \in Conns : peer[c] = "connected" /\ peer' = [peer EXCEPT ![c] = "gone"]
    BY <1>15 DEF HangUp, Live
  <2>2. TypeOK' /\ VictimKnown' /\ OneDescriptor'
    BY <1>0, <1>15, <2>1 DEF HangUp, TypeOK, VictimKnown, OneDescriptor
  <2> QED
    BY <1>0, <1>15, <2>2 DEF HangUp, ServerInv, ListedExactly, CacheFollows, ClientsUpToDate
<1>16. ASSUME NEW f \in Fds, table[f] \notin Conns, NEW owner \in {None, Other},
              table' = [table EXCEPT ![f] = owner], UNCHANGED <<server, phase, shared, world>>
       PROVE  ServerInv'
  <2>1. TypeOK' /\ VictimKnown'
    BY <1>0, <1>16 DEF TypeOK, VictimKnown
  <2>2. \A g \in Fds : table'[g] \in Conns \/ table[g] \in Conns => table'[g] = table[g]
    BY <1>0, <1>16 DEF TypeOK
  <2>3. ListedExactly' /\ OneDescriptor'
    BY <1>0, <1>16, <2>2 DEF ListedExactly, OneDescriptor
  <2>4. ClientsUpToDate' /\ CacheFollows'
    BY <1>0, <1>16, <2>2 DEF ClientsUpToDate, CacheFollows
  <2> QED
    BY <2>1, <2>3, <2>4 DEF ServerInv
<1>17. CASE OtherOpens
  BY <1>16, <1>17, LowestIsFree DEF OtherOpens
<1>18. CASE OtherCloses
  BY <1>16, <1>18 DEF OtherCloses
<1>19. CASE UNCHANGED vars
  BY <1>0, <1>19, QuietStep DEF vars, TypeOK, VictimKnown
<1>20. CASE Accept
  BY <1>6, <1>7, <1>20 DEF Accept
<1> QED
  BY <1>1, <1>2, <1>3, <1>4, <1>5, <1>8, <1>9, <1>10, <1>11, <1>12, <1>13, <1>14, <1>15,
     <1>17, <1>18, <1>19, <1>20 DEF Next, Broadcast, RunLoop, Outside

\* However accepts, hang-ups, broadcasts and stop() interleave, descriptors,
\* clients and what they were sent stay in step.
THEOREM ServerInvariant == Spec => []ServerInv
<1>1. Init => ServerInv
  <2> SUFFICES ASSUME Init PROVE ServerInv
    OBVIOUS
  <2>1. << >> \in Seq(Fds) /\ << >> \in Seq(BOOLEAN) /\ Range(<< >>) = {} /\ IsInjective(<< >>)
    BY DEF Range, IsInjective
  <2>2. TypeOK
    BY <2>1 DEF Init, TypeOK, Nothing
  <2> QED
    BY <2>1, <2>2
    DEF Init, ServerInv, VictimKnown, ListedExactly, OneDescriptor, CacheFollows, ClientsUpToDate
<1>2. ServerInv /\ [Next]_vars => ServerInv'
  BY ServerStep
<1> QED
  BY <1>1, <1>2, PTL DEF Spec

\* Every variable keeps its type, and no descriptor is listed twice.
THEOREM TypeCorrect == Spec => []TypeOK
<1>1. ServerInv => TypeOK
  BY DEF ServerInv
<1> QED
  BY <1>1, ServerInvariant, PTL

\* A listed client has been sent the current map and bridge.
THEOREM NobodyMissesTheMap == Spec => []ClientsUpToDate
<1>1. ServerInv => ClientsUpToDate
  BY DEF ServerInv
<1> QED
  BY <1>1, ServerInvariant, PTL

\* No descriptor leaks and no client is lost.
THEOREM NoDescriptorLeaks == Spec => []ListedExactly
<1>1. ServerInv => ListedExactly
  BY DEF ServerInv
<1> QED
  BY <1>1, ServerInvariant, PTL
=============================================================================
