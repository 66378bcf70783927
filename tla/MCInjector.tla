------------------------------ MODULE MCInjector ------------------------------
(* An instance of Injector for TLC. *)
EXTENDS Injector

\* Two maps of the same length and one of another: each way to apply a map.
MCPatches == {<<1, 2>>, <<1, 3>>, <<1, 2, 3>>}
=============================================================================
