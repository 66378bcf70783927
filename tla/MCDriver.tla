------------------------------- MODULE MCDriver -------------------------------
(* Instances of Driver for TLC. *)
EXTENDS Driver

\* No map, the stub, two maps of two channels and one of three.
MCMaps == {<< >>, <<0>>, <<1, 2>>, <<1, 3>>, <<1, 2, 3>>}

\* The real maps only; two of the same length, two other lengths.
MCRealMaps == {<<1, 2>>, <<1, 3>>, <<1, 2, 3>>, <<1, 2, 3, 4>>}

\* A real map of one channel, which the stub's FIFO count already fits.
MCSingleMaps == {<<1>>, <<1, 2>>}

\* A real map and none.
MCWithdrawnMaps == {<< >>, <<1, 2>>, <<1, 2, 3>>}
=============================================================================
