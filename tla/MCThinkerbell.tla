---------------------------- MODULE MCThinkerbell ----------------------------
(* One script whose rules disable a script, itself: see the .cfg files.     *)
EXTENDS ThinkerbellAdapter

CONSTANTS s1, old, broken, u1, u2

DisablesScript == [id \in ScriptId |->
  IF id = s1 THEN {Request("disable", i, Nobody) : i \in ScriptId} ELSE {}]
=============================================================================
