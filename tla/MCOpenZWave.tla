----------------------------- MODULE MCOpenZWave ------------------------------
(* Watchers of the open position of a sensor, or of every position.         *)
EXTENDS OpenZWave

OpenOrAny == {{{TRUE}}, None}
=============================================================================
