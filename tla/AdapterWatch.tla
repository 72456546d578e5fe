---------------------------- MODULE AdapterWatch -----------------------------
(***************************************************************************)
(* What an adapter promises to a watcher with a range, `register_watch` of *)
(* components/taxonomy/src/adapter.rs: it "expects to receive              *)
(* `EnterRange`/`ExitRange` events whenever the value available on the     *)
(* device enters/exits the range".  Hence no two Enter, nor two Exit, in a *)
(* row, which is what the conditions of a rule are counted from.           *)
(*                                                                         *)
(* An adapter keeps the promise to every watcher but those in `excused`,   *)
(* and says in its own module when it is excused.                          *)
(***************************************************************************)
EXTENDS Naturals

CONSTANTS
  Watcher,    \* the watches of one adapter
  TellsFirst  \* the adapter sends Enter at once for a value that is in the range

VARIABLES
  told,     \* watcher -> the last event it was sent, and the parity of their number
  excused   \* the watchers to which nothing is promised

promise == <<told, excused>>

Untold == [kind |-> "none", odd |-> FALSE]
Told == [kind : {"Enter", "Exit"}, odd : BOOLEAN]

PromiseInit ==
  /\ told = [w \in Watcher |-> Untold]
  /\ excused = {}

(* An event is news, unless the adapter is, or becomes, excused.  The first *)
(* one is Enter if the adapter tells where the value is at once.            *)
Tell(w) ==
  \E kind \in {"Enter", "Exit"} :
    /\ told' = [told EXCEPT ![w] = [kind |-> kind, odd |-> ~told[w].odd]]
    /\ \/ w \in excused'
       \/ /\ kind # told[w].kind
          /\ kind = "Exit" /\ TellsFirst => told[w].kind = "Enter"

PromiseNext ==
  /\ excused \subseteq excused'
  /\ UNCHANGED told \/ \E w \in Watcher : Tell(w)

Promise == PromiseInit /\ [][PromiseNext]_promise
=============================================================================
