----------------------------- MODULE MCPatchbay -----------------------------
(* Instances of Patchbay for TLC. *)
EXTENDS Patchbay

\* Entity 1 listens: the clock and two streams of one channel.
MCInputs == <<(<<0, 1, 1>>), << >>, << >>>>

\* The same with a first stream wider than a group of the larger bridge.
MCWideInputs == <<(<<0, 3, 1>>), << >>, << >>>>

\* It was found, and a talker that feeds its first stream.
MCKnown == <<1, 2>>
MCFeeds == <<(<<0, 2, 0>>), << >>, << >>>>

\* A bridge of two groups of two and one channel left over, beside the driver's
\* own device; or behind it, and behind one of two groups of one.
MCDevices == {<<[uid |-> 1, channels |-> 5], [uid |-> 9, channels |-> 2]>>,
              <<[uid |-> 9, channels |-> 2], [uid |-> 2, channels |-> 2], [uid |-> 1, channels |-> 5]>>}
=============================================================================
