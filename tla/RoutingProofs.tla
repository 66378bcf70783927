---------------------------- MODULE RoutingProofs ----------------------------
(***************************************************************************)
(* Theorems about Routing, for any number of slots, channels, talkers and  *)
(* changes, with and without changes made by clients.                      *)
(***************************************************************************)
EXTENDS Routing, TLAPS

USE SlotsAssumption, ChannelsAssumption

MapsSent == BoundedSeq(Talkers \cup {0}, MaxSlots)
Record   == [pc : {"idle", "clear", "routes", "build", "buildOne", "send", "sendOne", "list",
                   "tell"},
             next : {"idle", "build", "buildOne"}, map : MapsSent, tell : Tables]

\* A bounded sequence is a function on 1..n.
LEMMA BoundedSequence ==
  ASSUME NEW S, NEW n \in Nat
  PROVE  /\ \A s \in BoundedSeq(S, n) :
              /\ Len(s) \in 0..n /\ DOMAIN s = 1..Len(s) /\ s \in Seq(S)
              /\ s \in [1..Len(s) -> S]
         /\ \A m \in 0..n : [1..m -> S] \subseteq BoundedSeq(S, n)
         /\ << >> \in BoundedSeq(S, n)
<1>1. BoundedSeq(S, n) = UNION {[1..m -> S] : m \in 0..n}
  BY DEF BoundedSeq, SeqOf
<1>2. \A m \in 0..n : [1..m -> S] \subseteq BoundedSeq(S, n)
  BY <1>1
<1>3. << >> \in [1..0 -> S]
  OBVIOUS
<1>4. ASSUME NEW s \in BoundedSeq(S, n)
      PROVE  /\ Len(s) \in 0..n /\ DOMAIN s = 1..Len(s) /\ s \in Seq(S)
             /\ s \in [1..Len(s) -> S]
  <2>1. PICK m \in 0..n : s \in [1..m -> S]
    BY <1>1
  <2>2. m \in Nat
    OBVIOUS
  <2>3. s \in Seq(S) /\ Len(s) = m
    BY <2>1, <2>2
  <2> QED
    BY <2>1, <2>2, <2>3
<1>5. << >> \in BoundedSeq(S, n)
  <2>1. 0 \in 0..n
    OBVIOUS
  <2> QED
    BY <1>2, <1>3, <2>1
<1> QED
  BY <1>2, <1>4, <1>5

\* What the operations on a table return.
LEMMA TableOperations ==
  ASSUME NEW s \in Tables
  PROVE  /\ MapOf(s) \in MapsSent /\ Len(MapOf(s)) = Len(s)
         /\ \A i \in DOMAIN s, e \in Entries : [s EXCEPT ![i] = e] \in Tables
<1>1. s \in [1..Len(s) -> Entries] /\ Len(s) \in 0..MaxSlots
  BY BoundedSequence DEF Tables
<1>2. MapOf(s) \in [1..Len(s) -> Talkers \cup {0}]
  BY <1>1 DEF MapOf, Entries, Blank
<1>3. MapOf(s) \in MapsSent /\ Len(MapOf(s)) = Len(s)
  <2>1. Len(s) \in Nat
    BY <1>1
  <2>2. MapOf(s) \in MapsSent
    BY <1>1, <1>2, BoundedSequence DEF MapsSent
  <2> QED
    BY <1>2, <2>1, <2>2
<1>4. ASSUME NEW i \in DOMAIN s, NEW e \in Entries
      PROVE  [s EXCEPT ![i] = e] \in Tables
  <2>1. [s EXCEPT ![i] = e] \in [1..Len(s) -> Entries]
    BY <1>1
  <2>2. MaxSlots \in Nat
    OBVIOUS
  <2>3. [1..Len(s) -> Entries] \subseteq Tables
    BY <1>1, <2>2, BoundedSequence DEF Tables
  <2> QED
    BY <2>1, <2>3
<1> QED
  BY <1>3, <1>4

LEMMA EmptyValues ==
  /\ << >> \in Tables /\ << >> \in MapsSent /\ Idle \in Record /\ "message" \in Threads
  /\ "free" \notin Threads
<1>1. << >> \in Tables /\ << >> \in MapsSent
  BY BoundedSequence DEF Tables, MapsSent
<1> QED
  BY <1>1 DEF Idle, Record, Threads

\* The matrix of a table lays a packet out slot by slot: each has its own
\* channel, and silence if it is not assigned.
LEMMA LayoutFollows ==
  ASSUME NEW s \in Tables
  PROVE  /\ Layout(MatrixOf(s)) = [i \in DOMAIN s |-> s[i].ch]
         /\ MatrixOf(s).numDst = Len(s)
<1>1. s \in [1..Len(s) -> Entries] /\ Len(s) \in Nat
  BY BoundedSequence DEF Tables
<1>2. MatrixOf(s).numDst = Len(s) /\ MatrixOf(s).routes = Routes(s)
  BY DEF MatrixOf
<1>3. ASSUME NEW i \in 1..Len(s)
      PROVE  Layout(MatrixOf(s))[i] = s[i].ch
  <2> DEFINE from == {r \in Routes(s) : r.dst = i - 1}
  <2>1. Layout(MatrixOf(s))[i] = IF from = {} THEN Unassigned ELSE (CHOOSE r \in from : TRUE).src
    BY <1>2, <1>3 DEF Layout
  <2>2. CASE s[i].ch = Unassigned
    <3>1. from = {}
      BY <1>1, <2>2 DEF Routes
    <3> QED
      BY <2>1, <2>2, <3>1
  <2>3. CASE s[i].ch # Unassigned
    <3>1. [src |-> s[i].ch, dst |-> i - 1] \in from
      BY <1>1, <2>3 DEF Routes
    <3>2. \A r \in from : r.src = s[i].ch
      BY <1>1 DEF Routes
    <3> QED
      BY <2>1, <3>1, <3>2
  <2> QED
    BY <2>2, <2>3
<1>4. DOMAIN Layout(MatrixOf(s)) = 1..Len(s) /\ DOMAIN s = 1..Len(s)
  BY <1>1, <1>2 DEF Layout
<1>5. Layout(MatrixOf(s)) = [i \in 1..Len(s) |-> Layout(MatrixOf(s))[i]]
  BY <1>2 DEF Layout
<1> QED
  BY <1>2, <1>3, <1>4, <1>5

-----------------------------------------------------------------------------
\* A change starts from an idle thread.
LEMMA ChangesUpdate ==
  ASSUME TypeOK, InitializeSlots \/ ResetSlots \/ ClearSlot \/ \E t \in Threads : SetSlot(t)
  PROVE  \E t \in Threads, s \in Tables, next \in {"build", "buildOne"}, tell \in Tables :
            Update(t, s, next, tell) /\ (next = "build" => tell = s)
<1>0. routing \in Tables
  BY DEF TypeOK
<1>1. CASE InitializeSlots
  BY <1>1, EmptyValues DEF InitializeSlots
<1>2. CASE ResetSlots
  <2>1. PICK n \in 0..MaxSlots : Update("message", [i \in 1..n |-> Blank], "build", [i \in 1..n |-> Blank])
    BY <1>2 DEF ResetSlots
  <2>2. [i \in 1..n |-> Blank] \in Tables
    BY BoundedSequence DEF Tables, Entries
  <2> QED
    BY <2>1, <2>2, EmptyValues
<1>3. CASE ClearSlot
  <2>1. PICK i \in DOMAIN routing : Update("message", [routing EXCEPT ![i] = Blank], "buildOne", << >>)
    BY <1>3 DEF ClearSlot
  <2>2. [routing EXCEPT ![i] = Blank] \in Tables
    BY <1>0, TableOperations DEF Entries
  <2> QED
    BY <2>1, <2>2, EmptyValues
<1>4. ASSUME NEW t \in Threads, SetSlot(t)
      PROVE  \E s \in Tables : Update(t, s, "buildOne", << >>)
  BY <1>0, <1>4, TableOperations DEF SetSlot
<1> QED
  BY <1>1, <1>2, <1>3, <1>4, EmptyValues

\* What a step leaves in a thread's record.
LEMMA RecordSteps ==
  ASSUME NEW r \in Record
  PROVE  /\ \A m \in MapsSent, pc \in {"send", "sendOne"} :
               [r EXCEPT !.map = m, !.pc = pc] \in Record
         /\ \A s \in Tables : [r EXCEPT !.pc = "tell", !.tell = s] \in Record
<1>1. ASSUME NEW m \in MapsSent, NEW pc \in {"send", "sendOne"}
      PROVE  [r EXCEPT !.map = m, !.pc = pc] \in Record
  BY DEF Record
<1>2. ASSUME NEW s \in Tables
      PROVE  [r EXCEPT !.pc = "tell", !.tell = s] \in Record
  BY DEF Record
<1> QED
  BY <1>1, <1>2

\* Every step keeps every variable in its type.
LEMMA TypeStep ==
  ASSUME TypeOK, [Next]_vars
  PROVE  TypeOK'
<1> USE DEF begun
<1>0. thread \in [Threads -> Record] /\ routing \in Tables
  BY DEF TypeOK, Record, MapsSent
<1>1. CASE InitializeSlots \/ ResetSlots \/ ClearSlot \/ \E t \in Threads : SetSlot(t)
  <2>1. PICK t \in Threads, s \in Tables, next \in {"build", "buildOne"}, tell \in Tables :
           Update(t, s, next, tell)
    BY <1>1, ChangesUpdate
  <2> DEFINE new == [pc |-> "clear", next |-> next, map |-> << >>, tell |-> tell]
  <2>2. new \in Record
    BY EmptyValues DEF Record
  <2>3. thread' = [thread EXCEPT ![t] = new] /\ thread' \in [Threads -> Record]
    BY <1>0, <2>1, <2>2 DEF Update
  <2>4. \A u \in Threads : mutex' = u <=> thread'[u].pc \in {"clear", "routes"}
    BY <1>0, <2>1, <2>3, EmptyValues DEF Update, TypeOK
  <2>5. overlap' \in BOOLEAN /\ changes' \in Nat
    BY <2>1 DEF Update, TypeOK
  <2> QED
    BY <2>1, <2>3, <2>4, <2>5 DEF Update, TypeOK, Record, MapsSent
<1>2. ASSUME NEW t \in Threads, ClearRoutes(t) PROVE TypeOK'
  BY <1>2 DEF ClearRoutes, TypeOK
<1>3. ASSUME NEW t \in Threads, AddRoutes(t) PROVE TypeOK'
  <2>1. thread' \in [Threads -> Record]
    BY <1>0, <1>3 DEF AddRoutes, Record
  <2>2. \A u \in Threads : mutex' = u <=> thread'[u].pc \in {"clear", "routes"}
    BY <1>0, <1>3, EmptyValues DEF AddRoutes, TypeOK, Record
  <2> QED
    BY <1>3, <2>1, <2>2 DEF AddRoutes, TypeOK, Record, MapsSent
<1>4. ASSUME NEW t \in Threads, BuildMap(t) PROVE TypeOK'
  <2> DEFINE pc == IF thread[t].pc = "build" THEN "send" ELSE "sendOne"
  <2>1. MapOf(routing) \in MapsSent
    BY <1>0, TableOperations
  <2>2. [thread[t] EXCEPT !.map = MapOf(routing), !.pc = pc] \in Record
    <3>1. thread[t] \in Record /\ pc \in {"send", "sendOne"}
      BY <1>0
    <3> HIDE DEF pc
    <3> QED
      BY <2>1, <3>1, <1>0, RecordSteps, Zenon
  <2>3. /\ thread' = [thread EXCEPT ![t] = [thread[t] EXCEPT !.map = MapOf(routing), !.pc = pc]]
        /\ thread' \in [Threads -> Record]
    BY <1>0, <1>4, <2>2 DEF BuildMap
  <2>4. \A u \in Threads : mutex' = u <=> thread'[u].pc \in {"clear", "routes"}
    BY <1>0, <1>4, EmptyValues DEF BuildMap, TypeOK, Record
  <2> QED
    BY <1>4, <2>3, <2>4 DEF BuildMap, TypeOK, Record, MapsSent
<1>5. ASSUME NEW t \in Threads, BroadcastMap(t) PROVE TypeOK'
  <2>1. thread' \in [Threads -> Record] /\ thread[t].map \in MapsSent
    BY <1>0, <1>5 DEF BroadcastMap, Record
  <2>2. \A u \in Threads : mutex' = u <=> thread'[u].pc \in {"clear", "routes"}
    BY <1>0, <1>5, EmptyValues DEF BroadcastMap, TypeOK, Record
  <2> QED
    BY <1>5, <2>1, <2>2 DEF BroadcastMap, TypeOK, Record, MapsSent
<1>6. ASSUME NEW t \in Threads, BuildSlotConfigs(t) PROVE TypeOK'
  <2>1. [thread[t] EXCEPT !.pc = "tell", !.tell = routing] \in Record
    <3>1. thread[t] \in Record
      BY <1>0
    <3> QED
      BY <1>0, <3>1, RecordSteps, Zenon
  <2>2. /\ thread' = [thread EXCEPT ![t] = [thread[t] EXCEPT !.pc = "tell", !.tell = routing]]
        /\ thread' \in [Threads -> Record]
    BY <1>0, <1>6, <2>1 DEF BuildSlotConfigs
  <2>3. \A u \in Threads : mutex' = u <=> thread'[u].pc \in {"clear", "routes"}
    BY <1>0, <1>6, EmptyValues DEF BuildSlotConfigs, TypeOK, Record
  <2> QED
    BY <1>6, <2>2, <2>3 DEF BuildSlotConfigs, TypeOK, Record, MapsSent
<1>7. ASSUME NEW t \in Threads, TellUI(t) PROVE TypeOK'
  <2>1. thread' \in [Threads -> Record] /\ thread[t].tell \in Tables
    BY <1>0, <1>7, EmptyValues DEF TellUI, Record
  <2> QED
    BY <1>0, <1>7, <2>1 DEF TellUI, TypeOK, Record, MapsSent, Idle
<1>8. CASE CopyMatrix
  BY <1>8 DEF CopyMatrix, TypeOK
<1>9. CASE SendPacket
  <2>1. packet'.pc \in {"send", "sent"}
    BY <1>9 DEF SendPacket
  <2> QED
    BY <1>9, <2>1 DEF SendPacket, TypeOK
<1>10. CASE UNCHANGED vars
  BY <1>10 DEF vars, TypeOK
<1> QED
  BY <1>1, <1>2, <1>3, <1>4, <1>5, <1>6, <1>7, <1>8, <1>9, <1>10 DEF Next, Step

LEMMA InitType ==
  ASSUME Init
  PROVE  TypeOK
<1>1. thread \in [Threads -> Record] /\ shown \in [table : Tables, on : Threads]
  BY EmptyValues DEF Init
<1> QED
  BY <1>1, EmptyValues DEF Init, TypeOK, Record, MapsSent, Idle

\* Every variable keeps its type, and the mutex is held exactly by the thread
\* that rebuilds the matrix.
THEOREM TypeCorrect == Spec => []TypeOK
<1>1. Init => TypeOK
  BY InitType
<1>2. TypeOK /\ [Next]_vars => TypeOK'
  BY TypeStep
<1> QED
  BY <1>1, <1>2, PTL DEF Spec

-----------------------------------------------------------------------------
\* Every step keeps the inductive invariant.
LEMMA RoutingStep ==
  ASSUME RoutingInv, [Next]_vars
  PROVE  RoutingInv'
<1> USE DEF begun
<1>0. /\ TypeOK /\ TypeOK' /\ thread \in [Threads -> Record] /\ routing \in Tables
      /\ "free" \notin Threads
  BY TypeStep, EmptyValues DEF RoutingInv, TypeOK, Record, MapsSent
<1>1. CASE InitializeSlots \/ ResetSlots \/ ClearSlot \/ \E t \in Threads : SetSlot(t)
  <2>1. PICK t \in Threads, s \in Tables, next \in {"build", "buildOne"}, tell \in Tables :
           Update(t, s, next, tell) /\ (next = "build" => tell = s)
    BY <1>0, <1>1, ChangesUpdate
  <2>2. MatrixFollows'
    BY <1>0, <2>1 DEF Update, MatrixFollows
  <2>3. ChangeFollows'
    BY <2>1 DEF Update, RoutingInv, ChangeFollows, Busy
  <2>4. MapFollowsRouting'
    BY <1>0, <2>1 DEF Update, MapFollowsRouting
  <2> QED
    BY <1>0, <2>2, <2>3, <2>4 DEF RoutingInv
<1>2. ASSUME NEW t \in Threads, ClearRoutes(t) PROVE RoutingInv'
  <2>1. MatrixFollows'
    BY <1>0, <1>2 DEF ClearRoutes, TypeOK, MatrixFollows
  <2>2. ChangeFollows'
    BY <1>2 DEF ClearRoutes, RoutingInv, ChangeFollows, Busy
  <2>3. MapFollowsRouting'
    BY <1>2 DEF ClearRoutes, MapFollowsRouting
  <2> QED
    BY <1>0, <2>1, <2>2, <2>3 DEF RoutingInv
<1>3. ASSUME NEW t \in Threads, AddRoutes(t) PROVE RoutingInv'
  <2>1. MatrixFollows'
    BY <1>3 DEF AddRoutes, MatrixFollows
  <2>2. ChangeFollows'
    BY <1>0, <1>3 DEF AddRoutes, RoutingInv, Record, ChangeFollows, Busy
  <2>3. MapFollowsRouting'
    BY <1>3 DEF AddRoutes, RoutingInv, ChangeFollows, MapFollowsRouting
  <2> QED
    BY <1>0, <2>1, <2>2, <2>3 DEF RoutingInv
<1>4. ASSUME NEW t \in Threads, BuildMap(t) PROVE RoutingInv'
  <2>1. MatrixFollows'
    BY <1>0, <1>4 DEF BuildMap, Record
  <2>2. ChangeFollows'
    BY <1>0, <1>4 DEF BuildMap, Record
  <2>3. MapFollowsRouting'
    BY <1>0, <1>4 DEF BuildMap, MapFollowsRouting
  <2> QED
    BY <1>0, <2>1, <2>2, <2>3 DEF RoutingInv
<1>5. ASSUME NEW t \in Threads, BroadcastMap(t) PROVE RoutingInv'
  <2>1. MatrixFollows'
    BY <1>5 DEF BroadcastMap, RoutingInv, MatrixFollows
  <2>2. ChangeFollows'
    BY <1>5 DEF BroadcastMap, RoutingInv, ChangeFollows, Busy
  <2>3. MapFollowsRouting'
    BY <1>5 DEF BroadcastMap, MapFollowsRouting
  <2> QED
    BY <1>0, <2>1, <2>2, <2>3 DEF RoutingInv
<1>6. ASSUME NEW t \in Threads, BuildSlotConfigs(t) PROVE RoutingInv'
  <2>1. MatrixFollows'
    BY <1>6 DEF BuildSlotConfigs, RoutingInv, MatrixFollows
  <2>2. ChangeFollows'
    BY <1>0, <1>6 DEF BuildSlotConfigs, RoutingInv, ChangeFollows, Busy
  <2>3. MapFollowsRouting'
    BY <1>0, <1>6 DEF BuildSlotConfigs, MapFollowsRouting
  <2> QED
    BY <1>0, <2>1, <2>2, <2>3 DEF RoutingInv
<1>7. ASSUME NEW t \in Threads, TellUI(t) PROVE RoutingInv'
  <2>1. MatrixFollows'
    BY <1>7 DEF TellUI, RoutingInv, MatrixFollows
  <2>2. ChangeFollows'
    BY <1>7 DEF TellUI, RoutingInv, ChangeFollows, Busy, Idle
  <2>3. ASSUME \A u \in Threads : thread'[u].pc = "idle", ~overlap'
        PROVE  (lastMap = MapOf(routing) /\ Len(lastMap) = matrix.numDst /\ shown.table = routing)'
    <3>1. lastMap = MapOf(routing) /\ thread[t].tell = routing
      BY <1>7, <2>3 DEF TellUI, RoutingInv, ChangeFollows
    <3>2. mutex = "free"
      BY <1>0, <1>7, <2>3 DEF TellUI, TypeOK
    <3>3. Len(lastMap) = matrix.numDst
      BY <1>0, <3>1, <3>2, LayoutFollows, TableOperations DEF RoutingInv, MatrixFollows
    <3> QED
      BY <1>7, <3>1, <3>3 DEF TellUI
  <2> QED
    BY <1>0, <2>1, <2>2, <2>3 DEF RoutingInv, MapFollowsRouting
<1>8. CASE CopyMatrix \/ SendPacket \/ UNCHANGED vars
  BY <1>0, <1>8 DEF CopyMatrix, SendPacket, vars, RoutingInv, MatrixFollows, ChangeFollows,
     MapFollowsRouting, Busy
<1> QED
  BY <1>1, <1>2, <1>3, <1>4, <1>5, <1>6, <1>7, <1>8 DEF Next, Step

\* However changes, packets and the two threads interleave, a matrix that is not
\* being rebuilt is the table's, and a change that no other overlaps takes the
\* table to the map and the UI unchanged.
THEOREM RoutingInvariant == Spec => []RoutingInv
<1>1. Init => RoutingInv
  <2> SUFFICES ASSUME Init PROVE RoutingInv
    OBVIOUS
  <2>1. MatrixFollows /\ ChangeFollows
    BY DEF Init, MatrixFollows, ChangeFollows, Busy, Idle
  <2>2. MapFollowsRouting
    BY EmptyValues, LayoutFollows DEF Init, MapFollowsRouting, MapOf
  <2> QED
    BY <2>1, <2>2, InitType DEF RoutingInv
<1>2. RoutingInv /\ [Next]_vars => RoutingInv'
  BY RoutingStep
<1> QED
  BY <1>1, <1>2, PTL DEF Spec

\* Once every change is through, driver, packets and UI agree with the table.
THEOREM ChangesArrive == Spec => []MapFollowsRouting
<1>1. RoutingInv => MapFollowsRouting
  BY DEF RoutingInv
<1> QED
  BY <1>1, RoutingInvariant, PTL

\* Each packet is laid out by the table of the moment.
THEOREM PacketsFollowTable == Spec => AudioFollowsRouting
<1>1. ASSUME RoutingInv, [Next]_vars, packet.pc = "sent", packet'.pc = "send"
      PROVE  Layout(packet'.matrix) = [i \in DOMAIN routing |-> routing[i].ch]
  <2>1. CopyMatrix
    BY <1>1 DEF Next, Step, InitializeSlots, ResetSlots, ClearSlot, SetSlot, Update, ClearRoutes,
       AddRoutes, BuildMap, BroadcastMap, BuildSlotConfigs, TellUI, SendPacket, vars
  <2>2. packet'.matrix = MatrixOf(routing)
    BY <1>1, <2>1 DEF CopyMatrix, RoutingInv, MatrixFollows
  <2> QED
    BY <1>1, <2>2, LayoutFollows DEF RoutingInv, TypeOK
<1> QED
  BY <1>1, RoutingInvariant, PTL DEF Spec, AudioFollowsRouting
=============================================================================
