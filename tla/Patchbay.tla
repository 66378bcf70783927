------------------------------- MODULE Patchbay -------------------------------
(***************************************************************************)
(* How the slots of the virtual device get the names of the talkers that   *)
(* feed them: the AVDECC controller (app/src/GLA_AVDECCController.h), the  *)
(* backend's entity list and annotation (app/src/GLA_AppBackend.h), and    *)
(* the patchbay (app/src/GLA_MainComponent.h).                             *)
(*                                                                         *)
(* Two threads run here.  la_avdecc's thread calls the observers, which    *)
(* record the change and post the entity list to the message thread.  The  *)
(* message thread handles posted lists, the user's picks and the timer one *)
(* at a time, but reads the network in three steps that the other thread   *)
(* may come between.  A change of the slot table is one step here; its own *)
(* steps, and the server thread's changes, are Routing's.                  *)
(*                                                                         *)
(* la_avdecc and CoreAudio are external: an observer is called after the   *)
(* controller's own state has changed, one at a time, and unregistering    *)
(* waits for the one that runs.  A stream input is fed by one talker.      *)
(***************************************************************************)
EXTENDS ChannelMatrix, SequencesExt, FiniteSetsExt

CONSTANTS Entities,      \* entity ids; 0 is none
          Inputs,        \* of each entity: the channels of each stream input;
                         \* 0 for a clock reference stream
          Names,         \* entity names, the first being 1; 0 is empty
          DeviceLists,   \* what CoreAudio may enumerate: [uid, channels], in order
          OwnUID,        \* kGLADriverUID
          Known,         \* the entities found at the start, in the table's order
          KnownFeeds,    \* and what feeds them
          MaxRows,       \* maxBridgeChannels (32)
          MaxEvents,     \* bound: changes on the network
          MaxPicks       \* bound: the user's picks and timer ticks

ASSUME EntitiesAssumption ==
  /\ Entities \subseteq Nat \ {0} /\ Inputs \in [Entities -> Seq(Nat)]
  /\ Known \in Seq(Entities) /\ Known # << >> /\ IsInjective(Known)
  /\ KnownFeeds \in [Entities -> Seq(Entities \cup {0})]
  /\ \A e \in Entities : Len(KnownFeeds[e]) = Len(Inputs[e])
ASSUME NamesAssumption == 1 \in Names /\ Names \subseteq 1..9
\* A channel's number is a uint8_t, and the last one means unassigned: what a
\* device with more channels does is not modelled.
ASSUME DevicesAssumption == DeviceLists \subseteq Seq([uid : Nat, channels : 0..Unassigned])
ASSUME BoundsAssumption == MaxRows \in Nat /\ MaxEvents \in Nat /\ MaxPicks \in Nat

VARIABLES
  online, feeds, called,   \* the network: entities the controller has found, the
                           \* talker of each stream input, the name of each entity
  entities, order,         \* the names in the controller's table, and the entities
                           \* that are in it, in its iteration order
  la, posted,              \* the observer that runs; entity lists posted
  msg,                     \* the message thread's handler and what it has read
  usbChannelInfos,         \* the source of each USB channel
  bridges, comboBridge,    \* devices offered; the position the combo shows
  bridge,                  \* bridgeChannelCount and the backend's usbBridgeUID
  listenerEntityIds, comboListener, bridgeListenerEntityId,
  routing, lastMap,        \* the backend's slot table and the map it sent last
  silent,                  \* the controller was replaced, and nothing read since
  stirred,                 \* what concerns the listener may have changed, or been
                           \* picked, since the last time all was quiet
  events, picks

network == <<online, feeds, called>>
app     == <<entities, order, la, posted>>
combos  == <<bridges, comboBridge, bridge, listenerEntityIds, comboListener,
             bridgeListenerEntityId>>
table   == <<routing, lastMap>>
vars    == <<network, app, msg, usbChannelInfos, combos, table,
             silent, stirred, events, picks>>

\* A source is an entity id and the name it is shown under, in one number; 0 is
\* none.
Source(eid, name) == 10 * eid + name
IdleLa   == [pc |-> "idle", eid |-> 0, name |-> 0]
IdleMsg  == [pc |-> "idle", why |-> "pick", conns |-> << >>]
Quiet    == msg.pc = "idle" /\ posted = << >> /\ la.pc = "idle"

\* Those in a sequence that are also in a set, in order: SelectSeq, as a function.
Only(seq, set) ==
  LET kept[i \in 0..Len(seq)] == IF i = 0 THEN << >>
                                 ELSE IF seq[i] \in set THEN Append(kept[i - 1], seq[i])
                                 ELSE kept[i - 1]
  IN kept[Len(seq)]

\* getAudioInputDevices: inputs only, and never the driver's own device.
Bridges == {d \in UNION {Range(devices) : devices \in DeviceLists} :
              d.channels > 0 /\ d.uid # OwnUID}
Offered(devices) == Only(devices, Bridges)

\* The audio stream inputs of an entity, in order.
AudioInputs(e) ==
  Only([s \in DOMAIN Inputs[e] |-> s], {s \in DOMAIN Inputs[e] : Inputs[e][s] > 0})

\* getListenerConnections, step 1: the listener's streams, if it is there and a
\* bridge is picked; step 2: the talkers among the entities in the table that
\* are there.
Streams(e) == [i \in DOMAIN AudioInputs(e) |-> [stream |-> AudioInputs(e)[i], talker |-> 0]]

Connections == IF bridge.channels > 0 /\ bridgeListenerEntityId \in online
               THEN Streams(bridgeListenerEntityId) ELSE << >>

\* Variant: every entity the controller has found.
WithTalkersUnlisted(conns) ==
  [i \in DOMAIN conns |->
    LET t == feeds[bridgeListenerEntityId][conns[i].stream] IN
    [conns[i] EXCEPT !.talker = IF t \in online THEN t ELSE 0]]

WithTalkers(conns) ==
  [i \in DOMAIN conns |->
    LET t == feeds[bridgeListenerEntityId][conns[i].stream] IN
    [conns[i] EXCEPT !.talker = IF t \in Range(order) \cap online THEN t ELSE 0]]

\* Variant: the streams are packed by their own channel counts.
OffsetPacked(total, conns, i) ==
  MapThenSumSet(LAMBDA j : Inputs[bridgeListenerEntityId][conns[j].stream], 1..(i - 1))

\* Each stream has a group of USB channels, all groups being equal.
Offset(total, conns, i) == (i - 1) * (total \div Len(conns))

\* getUSBChannelInfos: a stream's channels from the offset of its group; where
\* two streams reach, the later one.
Annotate(total, conns) ==
  [c \in 1..total |->
    LET reach == {i \in DOMAIN conns :
                    /\ conns[i].talker # 0
                    /\ Offset(total, conns, i) < c
                    /\ c <= Offset(total, conns, i)
                             + Inputs[bridgeListenerEntityId][conns[i].stream]}
    IN IF reach = {} THEN 0
       ELSE LET t == conns[Max(reach)].talker IN Source(t, entities[t])]

\* rebuildPatchbay: each row gets its own channel.
Identity(infos) == [i \in 1..Min({Len(infos), MaxRows}) |-> [ch |-> i - 1, eid |-> infos[i]]]

\* The app has been up for a while: it has found some entities, and the user has
\* picked the first of the bridges and the first of them to listen.
Init ==
  /\ online = Range(Known) /\ called = [e \in Entities |-> 1] /\ feeds = KnownFeeds
  /\ entities = [e \in Entities |-> IF e \in Range(Known) THEN 1 ELSE 0] /\ order = Known
  /\ la = IdleLa /\ posted = << >> /\ msg = IdleMsg
  /\ bridges \in {Offered(devices) : devices \in DeviceLists}
  /\ bridges # << >> /\ comboBridge = 1 /\ bridge = bridges[1]
  /\ listenerEntityIds = <<0>> \o Known
  /\ comboListener = 2 /\ bridgeListenerEntityId = Known[1]
  /\ usbChannelInfos = Annotate(bridge.channels, WithTalkers(Streams(Known[1])))
  /\ routing = Identity(usbChannelInfos) /\ lastMap = MapOf(routing)
  /\ silent = FALSE /\ stirred = FALSE /\ events = 0 /\ picks = 0

-----------------------------------------------------------------------------
(* The network, and the observers on la_avdecc's thread                    *)

Concerns(e) == /\ bridgeListenerEntityId # 0
               /\ e = bridgeListenerEntityId \/ e \in Range(feeds[bridgeListenerEntityId])

\* A change on the network that concerns the entities es.
Event(es) ==
  /\ la.pc = "idle" /\ events < MaxEvents
  /\ events' = events + 1
  /\ stirred' = ((\E e \in es : Concerns(e)) \/ (stirred /\ ~(Quiet /\ ~silent)))
  /\ UNCHANGED <<entities, order, posted, msg, usbChannelInfos, combos, table,
                 silent, picks>>

GoesOnline == \E e \in Entities \ online :
  /\ Event({e})
  /\ online' = online \cup {e}
  /\ la' = [pc |-> "online", eid |-> e, name |-> called[e]]
  /\ UNCHANGED <<feeds, called>>

\* onEntityOffline changes a flag the patchbay does not read: the entity stays
\* listed.
GoesOffline == \E e \in online :
  /\ Event({e})
  /\ online' = online \ {e}
  /\ la' = [IdleLa EXCEPT !.pc = "post"]
  /\ UNCHANGED <<feeds, called>>

IsRenamed == \E e \in online : \E n \in Names \ {called[e]} :
  /\ Event({e})
  /\ called' = [called EXCEPT ![e] = n]
  /\ la' = [pc |-> "rename", eid |-> e, name |-> n]
  /\ UNCHANGED <<online, feeds>>

\* The talker's list of connections changes; nobody is told of a talker that
\* was not found yet.
Connects == \E e \in Entities : \E s \in DOMAIN Inputs[e] : \E t \in Entities \ {e} :
  /\ feeds[e][s] \in {0, t}
  /\ Event({e, t})
  /\ feeds' = [feeds EXCEPT ![e][s] = IF @ = 0 THEN t ELSE 0]
  /\ la' = IF t \in online THEN [IdleLa EXCEPT !.pc = "post"] ELSE la
  /\ UNCHANGED <<online, called>>

\* The listener's own view of a connection changes, which nothing reads.
ListenerNotifies ==
  /\ online # {}
  /\ Event({})
  /\ la' = [IdleLa EXCEPT !.pc = "post"]
  /\ UNCHANGED network

\* entities[eid] = ...: a new key may reorder the table.
OnEntityOnline ==
  /\ la.pc = "online"
  /\ entities' = [entities EXCEPT ![la.eid] = la.name]
  /\ order' \in IF la.eid \in Range(order) THEN {order} ELSE SetToSeqs(Range(order) \cup {la.eid})
  /\ la' = [la EXCEPT !.pc = "post"]
  /\ UNCHANGED <<network, posted, msg, usbChannelInfos, combos, table,
                 silent, stirred, events, picks>>

\* Variant: a new name is recorded but not announced.
OnEntityNameChangedQuietly ==
  /\ la.pc = "rename"
  /\ entities' = IF la.eid \in Range(order) THEN [entities EXCEPT ![la.eid] = la.name] ELSE entities
  /\ la' = IdleLa
  /\ UNCHANGED <<network, order, posted, msg, usbChannelInfos, combos, table,
                 silent, stirred, events, picks>>

OnEntityNameChanged ==
  /\ la.pc = "rename"
  /\ entities' = IF la.eid \in Range(order) THEN [entities EXCEPT ![la.eid] = la.name] ELSE entities
  /\ la' = [la EXCEPT !.pc = "post"]
  /\ UNCHANGED <<network, order, posted, msg, usbChannelInfos, combos, table,
                 silent, stirred, events, picks>>

\* onChange: buildEntityList and callAsync.
OnChange ==
  /\ la.pc = "post"
  /\ posted' = Append(posted, order)
  /\ la' = IdleLa
  /\ UNCHANGED <<network, entities, order, msg, usbChannelInfos, combos, table,
                 silent, stirred, events, picks>>

-----------------------------------------------------------------------------
(* The message thread: lists and picks                                     *)

Begin(why) == msg.pc = "idle" /\ msg' = [pc |-> "streams", why |-> why, conns |-> << >>]

\* onEntityListReceived: the listener combo is refilled, and its position
\* restored; then the annotation is refreshed.
HandleEntityList ==
  /\ posted # << >>
  /\ Begin("list")
  /\ posted' = Tail(posted)
  /\ listenerEntityIds' = <<0>> \o Head(posted)
  /\ comboListener' = IF comboListener > Len(listenerEntityIds') THEN 0
                      ELSE IF comboListener > 1 THEN comboListener ELSE 1
  /\ UNCHANGED <<network, entities, order, la, usbChannelInfos, bridges, comboBridge,
                 bridge, bridgeListenerEntityId, table, silent, stirred, events, picks>>

Pick ==
  /\ msg.pc = "idle" /\ picks < MaxPicks
  /\ picks' = picks + 1
  /\ UNCHANGED <<feeds, called, entities, order, la, posted, usbChannelInfos, events>>

PickBridge == \E p \in (DOMAIN bridges) \ {comboBridge} :
  /\ Pick /\ Begin("pick")
  /\ comboBridge' = p /\ bridge' = bridges[p]
  /\ stirred' = TRUE
  /\ UNCHANGED <<online, bridges, listenerEntityIds, comboListener, bridgeListenerEntityId,
                 table, silent>>

PickListener == \E p \in (DOMAIN listenerEntityIds) \ {comboListener} :
  /\ Pick /\ Begin("pick")
  /\ comboListener' = p /\ bridgeListenerEntityId' = listenerEntityIds[p]
  /\ stirred' = TRUE
  /\ UNCHANGED <<online, bridges, comboBridge, bridge, listenerEntityIds, table, silent>>

\* A row's combo: the source shown for the channel goes with it.
PickRow == \E slot \in DOMAIN routing, ch \in (DOMAIN usbChannelInfos) \cup {0} :
  /\ Pick
  /\ routing' = [routing EXCEPT ![slot] =
       IF ch = 0 THEN Blank ELSE [ch |-> ch - 1, eid |-> usbChannelInfos[ch]]]
  /\ routing' # routing
  /\ lastMap' = MapOf(routing')
  /\ UNCHANGED <<online, msg, combos, silent, stirred>>

\* The controller is replaced: what it had found is gone, and nobody is told.
PickInterface ==
  /\ la.pc = "idle"
  /\ Pick
  /\ online' = {}
  /\ silent' = TRUE /\ stirred' = TRUE
  /\ UNCHANGED <<msg, combos, table>>

\* Every 5 s the bridge combo is refilled, and its position restored.
TimerCallback == \E devices \in DeviceLists :
  /\ Pick
  /\ bridges' = Offered(devices) /\ bridges' # bridges
  /\ comboBridge' = IF comboBridge <= Len(bridges') THEN comboBridge ELSE 0
  /\ UNCHANGED <<online, msg, bridge, listenerEntityIds, comboListener, bridgeListenerEntityId,
                 table, silent, stirred>>

-----------------------------------------------------------------------------
(* The message thread: refreshBridgeStreamInfo and rebuildPatchbay         *)

\* refreshBridgeStreamInfo reads the network in three steps.
ReadStreams ==
  /\ msg.pc = "streams"
  /\ msg' = [msg EXCEPT !.pc = "talkers", !.conns = Connections]
  /\ silent' = FALSE
  /\ UNCHANGED <<network, app, usbChannelInfos, combos, table, stirred, events, picks>>

ReadTalkers ==
  /\ msg.pc = "talkers"
  /\ msg' = [msg EXCEPT !.pc = "names", !.conns = WithTalkers(@)]
  /\ UNCHANGED <<network, app, usbChannelInfos, combos, table,
                 silent, stirred, events, picks>>

\* Variant: every list rebuilds the patchbay.
ReadNamesAlways ==
  /\ msg.pc = "names"
  /\ usbChannelInfos' = Annotate(bridge.channels, msg.conns)
  /\ msg' = [IdleMsg EXCEPT !.pc = "rebuild", !.why = msg.why]
  /\ UNCHANGED <<network, app, combos, table, silent, stirred, events, picks>>

\* A list rebuilds the patchbay only if the annotation has changed.
ReadNames ==
  /\ msg.pc = "names"
  /\ usbChannelInfos' = Annotate(bridge.channels, msg.conns)
  /\ msg' = IF msg.why = "pick" \/ usbChannelInfos' # usbChannelInfos
            THEN [IdleMsg EXCEPT !.pc = "rebuild", !.why = msg.why] ELSE IdleMsg
  /\ UNCHANGED <<network, app, combos, table, silent, stirred, events, picks>>

\* rebuildPatchbay: the whole table in one broadcast.
Rebuild ==
  /\ msg.pc = "rebuild"
  /\ routing' = Identity(usbChannelInfos)
  /\ lastMap' = MapOf(routing')
  /\ msg' = IdleMsg
  /\ UNCHANGED <<network, app, usbChannelInfos, combos, silent, stirred, events, picks>>

-----------------------------------------------------------------------------
Network == GoesOnline \/ GoesOffline \/ IsRenamed \/ Connects \/ ListenerNotifies
Observe == OnEntityOnline \/ OnEntityNameChanged \/ OnChange
User    == PickBridge \/ PickListener \/ PickRow \/ PickInterface
Message == HandleEntityList \/ ReadStreams \/ ReadTalkers \/ ReadNames \/ Rebuild

Next == Network \/ Observe \/ User \/ Message \/ TimerCallback

\* An observer that was called returns, and the message thread handles what is
\* posted.  Nothing has to happen on the network, and the user need not pick.
Spec     == Init /\ [][Next]_vars
FairSpec == Spec /\ WF_vars(Observe) /\ WF_vars(Message)

-----------------------------------------------------------------------------
(* Properties                                                              *)

\* The talker that feeds a USB channel, if the hardware gives each audio stream
\* of the listener a group of equal size.
TrueSource(ch) ==
  LET audio == AudioInputs(bridgeListenerEntityId)
      group == bridge.channels \div Len(audio)
      i     == 1 + ch \div group
      t     == feeds[bridgeListenerEntityId][audio[i]]
  IN IF /\ bridgeListenerEntityId \in online
        /\ audio # << >> /\ i <= Len(audio)
        /\ ch % group < Inputs[bridgeListenerEntityId][audio[i]]
        /\ t \in online
     THEN Source(t, called[t]) ELSE 0

Truthful ==
  /\ Len(routing) = Min({bridge.channels, MaxRows})
  /\ lastMap = [i \in DOMAIN routing |->
       IF routing[i].ch = Unassigned THEN 0 ELSE TrueSource(routing[i].ch)]

\* Once observers, posted lists and handlers are through, the driver was last
\* sent, for each slot, the talker that really feeds the USB channel routed to
\* it, under its present name, however events, lists, picks and the steps of
\* reading the network interleave (GLA_AppBackend.h:212-272,
\* GLA_MainComponent.h:220-252); unless the interface was switched and nothing
\* has been found on the new one yet.
PatchbayTruthful == Quiet /\ ~silent => Truthful

\* The same of a switch to another interface that has found nothing yet
\* (GLA_AVDECCController.h:75-82).
SwitchIsShown == Quiet => Truthful

\* An entity that is neither the picked listener nor one of its talkers never
\* makes the app send a map, which would reset the user's routing
\* (GLA_MainComponent.h:244-246).
BystandersSendNoMap == [][msg.pc = "rebuild" /\ msg'.pc = "idle" => stirred]_vars

\* When the network and the user leave off, the patchbay ends up right.
PatchbayCatchesUp == <>[](silent \/ Truthful)

\* The listener combo shows the listener that is in use
\* (GLA_MainComponent.h:226).
ListenerShown ==
  bridgeListenerEntityId # 0 /\ msg.pc = "idle" =>
    comboListener # 0 /\ listenerEntityIds[comboListener] = bridgeListenerEntityId

-----------------------------------------------------------------------------
(* Why: the inductive invariant of PatchbayProofs                          *)

Sources == {0} \cup {Source(e, n) : e \in Entities, n \in Names}
Listed  == Range(order)

\* Every variable has its type; the table has each entity once, and what is
\* shown always has a name.
TypeOK ==
  /\ online \subseteq Entities /\ called \in [Entities -> Names]
  /\ feeds \in [Entities -> Seq(Entities \cup {0})]
  /\ \A e \in Entities : Len(feeds[e]) = Len(Inputs[e])
  /\ entities \in [Entities -> Names \cup {0}]
  /\ order \in Seq(Entities) /\ IsInjective(order)
  /\ \A e \in Listed : entities[e] \in Names
  /\ la \in [pc : {"idle", "online", "rename", "post"}, eid : Entities \cup {0},
             name : Names \cup {0}]
  /\ la.pc \in {"online", "rename"} => la.eid \in Entities /\ la.name \in Names
  /\ posted \in Seq(Seq(Entities))
  /\ msg \in [pc : {"idle", "streams", "talkers", "names", "rebuild"}, why : {"list", "pick"},
              conns : Seq([stream : Nat, talker : Listed \cup {0}])]
  /\ usbChannelInfos \in Seq(Sources) /\ lastMap \in Seq(Sources)
  /\ routing \in Seq([ch : Nat, eid : Sources])
  /\ bridges \in Seq(Bridges) /\ bridge \in Bridges /\ comboBridge \in 0..Len(bridges)
  /\ listenerEntityIds \in Seq(Entities \cup {0}) /\ comboListener \in 0..Len(listenerEntityIds)
  /\ bridgeListenerEntityId \in Entities \cup {0}
  /\ silent \in BOOLEAN /\ stirred \in BOOLEAN /\ events \in Nat /\ picks \in Nat

\* The controller's table has everything that is there, under its name, except
\* for what the running observer is about to enter.
Entering(e) == la.pc \in {"online", "rename"} /\ la.eid = e

TableFollows ==
  /\ \A e \in online : e \in Listed \/ (la.pc = "online" /\ la.eid = e)
  /\ \A e \in Listed : entities[e] = called[e] \/ Entering(e)
  /\ la.pc \in {"online", "rename"} => la.eid \in online /\ la.name = called[la.eid]

\* What feeds the listener now, and what that makes of the USB channels.
Present == WithTalkers(Connections)
Current == usbChannelInfos = Annotate(bridge.channels, Present)

\* What the handler has read so far is still so.
ReadingHolds ==
  /\ msg.pc = "talkers" => msg.conns = Connections
  /\ msg.pc = "names" => msg.conns = Present

\* What has been read is right unless word of a change is still on its way.
ReadingCurrent ==
  la.pc = "idle" /\ posted = << >> /\ ~silent =>
    ReadingHolds /\ (msg.pc \in {"idle", "rebuild"} => Current)

\* While nothing has happened that concerns the listener, nothing is stale.
Undisturbed ==
  ~stirred =>
    /\ ~silent /\ Current /\ ReadingHolds
    /\ msg.pc # "rebuild" /\ (msg.pc # "idle" => msg.why = "list")
    /\ la.pc \in {"online", "rename"} => ~Concerns(la.eid)

\* The driver was sent the sources of the rows; these are those of the channels
\* whenever the handler is through or has nothing new.
Shown == msg.pc = "idle" \/ (msg.why = "list" /\ msg.pc # "rebuild")

RowsFollow ==
  /\ lastMap = MapOf(routing)
  /\ Shown \/ msg.pc = "rebuild" => Len(usbChannelInfos) = bridge.channels
  /\ Shown =>
       /\ Len(routing) = Min({bridge.channels, MaxRows})
       /\ \A i \in DOMAIN routing :
            \/ routing[i] = Blank
            \/ /\ routing[i].ch + 1 \in DOMAIN usbChannelInfos
               /\ routing[i].eid = usbChannelInfos[routing[i].ch + 1]

PatchbayInv == TypeOK /\ TableFollows /\ ReadingCurrent /\ Undisturbed /\ RowsFollow

\* No stream is wider than its group, whichever bridge is picked: what
\* PatchbayTruthful needs (GLA_AppBackend.h:246-249).
StreamsFit ==
  \A b \in Bridges, e \in Entities : \A i \in DOMAIN AudioInputs(e) :
    Inputs[e][AudioInputs(e)[i]] <= b.channels \div Len(AudioInputs(e))
=============================================================================
