---------------------------- MODULE ChannelMatrix ----------------------------
(***************************************************************************)
(* A slot table of the app and what is derived from it, as values: the     *)
(* matrix (common/GLA_ChannelMatrix.h) that lays out a packet, and the     *)
(* channel map that the driver is sent (app/src/GLA_AppBackend.h).  A slot *)
(* has a USB channel, from 0, and the entity id of the talker that feeds   *)
(* it; 0 is none.                                                          *)
(***************************************************************************)
EXTENDS Integers, Sequences

Unassigned == 255
Blank      == [ch |-> Unassigned, eid |-> 0]

\* rebuildMatrix: a route for each assigned slot, numbered from 0.
Routes(t) == {[src |-> t[i].ch, dst |-> i - 1] : i \in {j \in DOMAIN t : t[j].ch # Unassigned}}

MatrixOf(t) == [numDst |-> Len(t), routes |-> Routes(t)]

\* apply: the USB channel in each channel of a packet, silence if none.
Layout(m) == [i \in 1..m.numDst |->
               LET from == {r \in m.routes : r.dst = i - 1} IN
               IF from = {} THEN Unassigned ELSE (CHOOSE r \in from : TRUE).src]

\* buildChannelMap
MapOf(t) == [i \in DOMAIN t |-> t[i].eid]
=============================================================================
