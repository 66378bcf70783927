-------------------------------- MODULE Routing --------------------------------
(***************************************************************************)
(* The app's routing table (app/src/GLA_AppBackend.h): which USB channel   *)
(* and which talker each slot of the virtual device has.  A change stores  *)
(* the table and rebuilds the matrix under the mutex, then builds a        *)
(* channel map from the table under the mutex again, then broadcasts it to *)
(* the driver, then tells the UI.  Meanwhile the sender thread of          *)
(* USBCapture copies the matrix for each frame, under the same mutex, and  *)
(* sends a packet.                                                         *)
(*                                                                         *)
(* The UI changes the table from the message thread; a SetRouting message  *)
(* from a client changes it from the server thread of IPCServer.  The UI   *)
(* offers at most 32 channels, so indices fit their uint8_t.               *)
(***************************************************************************)
EXTENDS ChannelMatrix, SequencesExt, FiniteSets

CONSTANTS Server,      \* TRUE: a client sends SetRouting messages
          MaxSlots,    \* bound: slots (32 in the UI)
          Channels,    \* the bridge's USB channels, from 0
          Talkers,     \* entity ids; 0 is none
          MaxChanges   \* bound: changes made

ASSUME SlotsAssumption == MaxSlots \in 0..254 /\ MaxChanges \in Nat /\ Server \in BOOLEAN
ASSUME ChannelsAssumption == Channels \subseteq 0..254 /\ Talkers \subseteq Nat

VARIABLES
  routing,     \* one entry per slot
  matrix,      \* matrix_
  mutex,       \* who holds AppBackend's mutex
  thread,      \* each thread: its step, the map it built, what it tells the UI
  lastMap,     \* the channel map broadcast last
  shown,       \* what the UI was told last, and on which thread
  packet,      \* the sender: its copy of the matrix, or the packet it sent last
  overlap,     \* another change was under way when the last one began
  changes

vars  == <<routing, matrix, mutex, thread, lastMap, shown, packet, overlap, changes>>
begun == <<overlap, changes>>

Threads == IF Server THEN {"message", "server"} ELSE {"message"}
Entries == [ch : Channels, eid : Talkers] \cup {Blank}
Tables  == BoundedSeq(Entries, MaxSlots)

Idle == [pc |-> "idle", next |-> "idle", map |-> << >>, tell |-> << >>]

Init ==
  /\ routing = << >> /\ matrix = MatrixOf(<< >>) /\ mutex = "free"
  /\ thread = [t \in Threads |-> Idle]
  /\ lastMap = << >> /\ shown = [table |-> << >>, on |-> "message"]
  /\ packet = [pc |-> "sent", matrix |-> MatrixOf(<< >>)]
  /\ overlap = FALSE /\ changes = 0

\* The first step of every change: the mutex, and the table.
Update(t, table, next, tell) ==
  /\ thread[t].pc = "idle" /\ changes < MaxChanges /\ mutex = "free"
  /\ mutex' = t
  /\ routing' = table
  /\ thread' = [thread EXCEPT ![t] = [pc |-> "clear", next |-> next, map |-> << >>, tell |-> tell]]
  /\ overlap' = (\E u \in Threads : thread[u].pc # "idle")
  /\ changes' = changes + 1
  /\ UNCHANGED <<matrix, lastMap, shown, packet>>

\* rebuildMatrix: the new size and no routes, then the routes.
ClearRoutes(t) ==
  /\ thread[t].pc = "clear"
  /\ matrix' = [numDst |-> Len(routing), routes |-> {}]
  /\ thread' = [thread EXCEPT ![t].pc = "routes"]
  /\ UNCHANGED <<routing, mutex, lastMap, shown, packet, begun>>

\* Variant: the mutex is not released.
AddRoutesHolding(t) ==
  /\ thread[t].pc = "routes"
  /\ matrix' = MatrixOf(routing)
  /\ thread' = [thread EXCEPT ![t].pc = thread[t].next]
  /\ UNCHANGED <<routing, mutex, lastMap, shown, packet, begun>>

AddRoutes(t) ==
  /\ thread[t].pc = "routes"
  /\ matrix' = MatrixOf(routing)
  /\ mutex' = "free"
  /\ thread' = [thread EXCEPT ![t].pc = thread[t].next]
  /\ UNCHANGED <<routing, lastMap, shown, packet, begun>>

\* A new table: the UI is told the table it asked for.
InitializeSlots == \E slots \in Tables : Update("message", slots, "build", slots)

ResetSlots == \E n \in 0..MaxSlots :
  LET slots == [i \in 1..n |-> Blank] IN Update("message", slots, "build", slots)

\* One slot: the UI is told the table as it is by then.  A client's message
\* names one number, both slot and USB channel.
SetSlot(t) == \E slot \in DOMAIN routing, e \in Entries :
  /\ e.ch # Unassigned /\ (t = "server" => e.ch = slot - 1)
  /\ Update(t, [routing EXCEPT ![slot] = e], "buildOne", << >>)

ClearSlot == \E slot \in DOMAIN routing :
  Update("message", [routing EXCEPT ![slot] = Blank], "buildOne", << >>)

BuildMap(t) ==
  /\ thread[t].pc \in {"build", "buildOne"} /\ mutex = "free"
  /\ thread' = [thread EXCEPT ![t].map = MapOf(routing),
                              ![t].pc = IF thread[t].pc = "build" THEN "send" ELSE "sendOne"]
  /\ UNCHANGED <<routing, matrix, mutex, lastMap, shown, packet, begun>>

\* Variant: an empty map is not sent.
BroadcastUnlessEmpty(t) ==
  /\ thread[t].pc \in {"send", "sendOne"}
  /\ lastMap' = IF thread[t].map = << >> THEN lastMap ELSE thread[t].map
  /\ thread' = [thread EXCEPT ![t].pc = IF thread[t].pc = "send" THEN "tell" ELSE "list"]
  /\ UNCHANGED <<routing, matrix, mutex, shown, packet, begun>>

BroadcastMap(t) ==
  /\ thread[t].pc \in {"send", "sendOne"}
  /\ lastMap' = thread[t].map
  /\ thread' = [thread EXCEPT ![t].pc = IF thread[t].pc = "send" THEN "tell" ELSE "list"]
  /\ UNCHANGED <<routing, matrix, mutex, shown, packet, begun>>

BuildSlotConfigs(t) ==
  /\ thread[t].pc = "list" /\ mutex = "free"
  /\ thread' = [thread EXCEPT ![t].pc = "tell", ![t].tell = routing]
  /\ UNCHANGED <<routing, matrix, mutex, lastMap, shown, packet, begun>>

\* onChannelMap, on whatever thread this is.
TellUI(t) ==
  /\ thread[t].pc = "tell"
  /\ shown' = [table |-> thread[t].tell, on |-> t]
  /\ thread' = [thread EXCEPT ![t] = Idle]
  /\ UNCHANGED <<routing, matrix, mutex, lastMap, packet, begun>>

\* Variant: the mutex is not taken.
CopyMatrixUnlocked ==
  /\ packet.pc = "sent"
  /\ packet' = [pc |-> "send", matrix |-> matrix]
  /\ UNCHANGED <<routing, matrix, mutex, thread, lastMap, shown, begun>>

\* The capture callback: a copy of the matrix under the mutex, then the packet.
CopyMatrix ==
  /\ packet.pc = "sent" /\ mutex = "free"
  /\ packet' = [pc |-> "send", matrix |-> matrix]
  /\ UNCHANGED <<routing, matrix, mutex, thread, lastMap, shown, begun>>

SendPacket ==
  /\ packet.pc = "send"
  /\ packet' = [packet EXCEPT !.pc = "sent"]
  /\ UNCHANGED <<routing, matrix, mutex, thread, lastMap, shown, begun>>

Step(t) == \/ SetSlot(t) \/ ClearRoutes(t) \/ AddRoutes(t) \/ BuildMap(t)
           \/ BroadcastMap(t) \/ BuildSlotConfigs(t) \/ TellUI(t)

Next == \/ InitializeSlots \/ ResetSlots \/ ClearSlot
        \/ \E t \in Threads : Step(t)
        \/ CopyMatrix \/ SendPacket

Spec == Init /\ [][Next]_vars

-----------------------------------------------------------------------------
(* Properties                                                              *)

\* Every variable has its type, and the mutex is held exactly by the thread that
\* rebuilds the matrix.
TypeOK ==
  /\ routing \in Tables
  /\ thread \in [Threads -> [pc : {"idle", "clear", "routes", "build", "buildOne", "send",
                                 "sendOne", "list", "tell"},
                           next : {"idle", "build", "buildOne"},
                           map : BoundedSeq(Talkers \cup {0}, MaxSlots), tell : Tables]]
  /\ mutex \in Threads \cup {"free"}
  /\ \A t \in Threads : mutex = t <=> thread[t].pc \in {"clear", "routes"}
  /\ lastMap \in BoundedSeq(Talkers \cup {0}, MaxSlots)
  /\ shown \in [table : Tables, on : Threads]
  /\ packet.pc \in {"send", "sent"} /\ overlap \in BOOLEAN /\ changes \in Nat

\* Each packet is laid out by the table as it is when the packet is made, one
\* channel per slot, never by a matrix that is being rebuilt or that an earlier
\* table left behind (GLA_AppBackend.h:374-388, 415-426).
AudioFollowsRouting ==
  [][packet.pc = "sent" /\ packet'.pc = "send" =>
       Layout(packet'.matrix) = [i \in DOMAIN routing |-> routing[i].ch]]_vars

\* Once every change is through, the driver was sent the map of the table last,
\* with a channel for each channel of the packets, and the UI shows the table
\* (GLA_AppBackend.h:117-118); unless two changes overlapped, and even then
\* after the next one that does not.
MapFollowsRouting ==
  (\A t \in Threads : thread[t].pc = "idle") /\ ~overlap =>
    lastMap = MapOf(routing) /\ Len(lastMap) = matrix.numDst /\ shown.table = routing

\* The UI is told on the message thread (GLA_AppBackend.h:275).
ToldOnMessageThread == shown.on = "message"

-----------------------------------------------------------------------------
(* Why: the inductive invariant of RoutingProofs                           *)

Busy(t) == thread[t].pc # "idle"

\* Whoever does not hold the mutex finds the matrix of the table.
MatrixFollows == mutex = "free" => matrix = MatrixOf(routing)

\* The thread that makes the one change under way, if no other overlapped it,
\* tells the UI the table as it is, and has built and sent its map when its step
\* says so.
ChangeFollows ==
  /\ \A t \in Threads : thread[t].pc \in {"clear", "routes"} => thread[t].next # "idle"
  /\ ~overlap => \A t \in Threads :
       /\ Busy(t) => \A u \in Threads \ {t} : ~Busy(u)
       /\ \/ thread[t].pc \in {"clear", "routes"} /\ thread[t].next = "build"
          \/ thread[t].pc \in {"build", "send", "tell"}
          => thread[t].tell = routing
       /\ thread[t].pc \in {"send", "sendOne"} => thread[t].map = MapOf(routing)
       /\ thread[t].pc \in {"list", "tell"} => lastMap = MapOf(routing)

RoutingInv == TypeOK /\ MatrixFollows /\ ChangeFollows /\ MapFollowsRouting
=============================================================================
