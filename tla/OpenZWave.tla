------------------------------ MODULE OpenZWave ------------------------------
(***************************************************************************)
(* The watches of the OpenZWave adapter (components/openzwave-adapter).    *)
(*                                                                         *)
(* Two threads share the list of watchers and a cache of the last values.  *)
(* The notification thread serves the channel of the OpenZWave library,    *)
(* and tells each watcher what became of its range by comparing the value  *)
(* with the cache.  The background thread of the manager registers watches,*)
(* one at a time: it adds the watcher, then reads the value, stores it in  *)
(* the same cache, and sends the first event.  Only the list of watchers   *)
(* stays locked while events are sent.                                     *)
(*                                                                         *)
(* The library is the environment.  A ValueID is a handle: the value is    *)
(* that of the device when it is read, not when the notification was sent. *)
(* Only Boolean values are supported.                                      *)
(***************************************************************************)
EXTENDS HashMap, Naturals, Sequences, FiniteSets

CONSTANTS
  Getter,       \* the values of the ZWave network
  Ranges,       \* the optional ranges of the watches; without one every value is sent
  MaxWatches,   \* bound on the number of watches
  MaxQueue      \* bound on the notifications in the channel

ASSUME OpenZWaveAssumption ==
  /\ \A range \in Ranges : range = {} \/ \E r \in SUBSET BOOLEAN : range = {r}
  /\ MaxWatches \in Nat /\ MaxQueue \in Nat

Key == 0 .. MaxWatches - 1

(* An optional value, or range, is a set of at most one.                   *)
Value == {{FALSE}, {TRUE}}
None == {}

VARIABLES
  value,          \* getter -> its value in the library, once it is announced
  notifications,  \* the channel of the library
  getter_map,     \* the getters that have been added to the box
  watch,          \* key -> the getter and range of a watcher, in the order of `push`
  senders,        \* the watchers whose guard has not been dropped
  value_cache,    \* getter -> the value last stored
  notifier,       \* the notification thread
  register,       \* the call of `register_watch` in progress
  (* History, read by no action:                                           *)
  last,           \* key -> the last event sent to the watcher, and the parity of their number
  overlapped      \* getters that changed while a watch was being registered

library == <<value, notifications>>
watchers == <<watch, senders>>
history == <<last, overlapped>>
vars == <<library, getter_map, watchers, value_cache, notifier, register, history>>

Notification(kind, g) == [kind |-> kind, getter |-> g]
NoEvent == [kind |-> "none", value |-> None, odd |-> FALSE]
Event(kind, v, previous) == [kind |-> kind, value |-> v, odd |-> ~previous.odd]
Idle == [pc |-> "idle"]

Init ==
  /\ value = EmptyMap
  /\ notifications = <<>>
  /\ getter_map = {}
  /\ watch = EmptyMap
  /\ senders = {}
  /\ value_cache = [g \in Getter |-> None]
  /\ notifier = Idle
  /\ register = Idle
  /\ last = EmptyMap
  /\ overlapped = {}

Registering(g) == register.pc # "idle" /\ watch[register.key].getter = g
Changing(g) ==
  \/ Notification("ValueChanged", g) \in {notifications[i] : i \in DOMAIN notifications}
  \/ notifier.pc # "idle" /\ notifier.getter = g

-----------------------------------------------------------------------------
(* The library.                                                            *)

AddValue(g) ==
  /\ Len(notifications) < MaxQueue
  /\ g \notin DOMAIN value
  /\ \E v \in Value \cup {None} : value' = Put(value, g, v)
  /\ notifications' = Append(notifications, Notification("ValueAdded", g))
  /\ UNCHANGED <<getter_map, watchers, value_cache, notifier, register, history>>

ChangeValue(g) ==
  /\ Len(notifications) < MaxQueue
  /\ g \in DOMAIN value
  /\ \E v \in Value \ {value[g]} : value' = [value EXCEPT ![g] = v]
  /\ notifications' = Append(notifications, Notification("ValueChanged", g))
  /\ overlapped' = overlapped \cup (IF Registering(g) THEN {g} ELSE {})
  /\ UNCHANGED <<getter_map, watchers, value_cache, notifier, register, last>>

-----------------------------------------------------------------------------
(* The notification thread.                                                *)

Receive(kind, g) ==
  /\ notifier.pc = "idle"
  /\ notifications # <<>>
  /\ Head(notifications) = Notification(kind, g)
  /\ notifications' = Tail(notifications)

ValueAdded(g) ==
  /\ Receive("ValueAdded", g)
  /\ getter_map' = getter_map \cup {g}
  /\ UNCHANGED <<value, watchers, value_cache, notifier, register, history>>

(* ValueChanged begins with the value, read without any lock.               *)
ReadChanged(g) ==
  /\ Receive("ValueChanged", g)
  /\ notifier' = IF g \in getter_map
                 THEN [pc |-> "read", getter |-> g, value |-> value[g]]
                 ELSE Idle
  /\ UNCHANGED <<value, getter_map, watchers, value_cache, register, history>>

(* `RangeChecker::should_send`, never asked of no value.                    *)
ShouldSend(range, v, kind) ==
  /\ v # None
  /\ IF range = None THEN kind = "Enter" ELSE \E r \in range : v \subseteq r

(* Mutant: an empty list of watchers is served like any other.              *)
UpdateCacheForNobody ==
  /\ notifier.pc = "read"
  /\ LET g == notifier.getter
     IN /\ notifier' = [pc |-> "send", getter |-> g, value |-> notifier.value,
                        previous |-> value_cache[g],
                        told |-> {k \in senders : watch[k].getter = g}]
        /\ value_cache' = [value_cache EXCEPT ![g] = notifier.value]
  /\ UNCHANGED <<library, getter_map, watchers, register, history>>

(* The list of watchers is locked from here to the last event.  When nobody *)
(* watches, the cache stays as it is.                                       *)
UpdateCache ==
  /\ notifier.pc = "read"
  /\ LET g == notifier.getter
         told == {k \in senders : watch[k].getter = g}
     IN IF told = {}
        THEN notifier' = Idle /\ UNCHANGED value_cache
        ELSE /\ notifier' = [pc |-> "send", getter |-> g, value |-> notifier.value,
                             previous |-> value_cache[g], told |-> told]
             /\ value_cache' = [value_cache EXCEPT ![g] = notifier.value]
  /\ UNCHANGED <<library, getter_map, watchers, register, history>>

(* Mutant: Exit is sent when the new value is out of the range, wherever    *)
(* the previous one was.                                                    *)
SendEventsWithoutPrevious ==
  /\ notifier.pc = "send"
  /\ \E k \in notifier.told :
       LET enters == ShouldSend(watch[k].range, notifier.value, "Enter")
           entered == ShouldSend(watch[k].range, notifier.previous, "Exit")
       IN /\ last' = [last EXCEPT ![k] =
                CASE enters /\ ~entered -> Event("Enter", notifier.value, @)
                  [] ~enters -> Event("Exit", notifier.value, @)
                  [] OTHER -> @]
          /\ notifier' = IF notifier.told = {k} THEN Idle
                         ELSE [notifier EXCEPT !.told = @ \ {k}]
  /\ UNCHANGED <<library, getter_map, watchers, value_cache, register, overlapped>>

(* One watcher is sent Exit or Enter, or nothing when both the values are   *)
(* in its range or both are out of it.                                      *)
SendEvents ==
  /\ notifier.pc = "send"
  /\ \E k \in notifier.told :
       LET enters == ShouldSend(watch[k].range, notifier.value, "Enter")
           entered == ShouldSend(watch[k].range, notifier.previous, "Exit")
       IN /\ last' = [last EXCEPT ![k] =
                CASE enters /\ ~entered -> Event("Enter", notifier.value, @)
                  [] ~enters /\ entered -> Event("Exit", notifier.value, @)
                  [] OTHER -> @]
          /\ notifier' = IF notifier.told = {k} THEN Idle
                         ELSE [notifier EXCEPT !.told = @ \ {k}]
  /\ UNCHANGED <<library, getter_map, watchers, value_cache, register, overlapped>>

-----------------------------------------------------------------------------
(* `register_watch`, for one getter.                                       *)

PushWatcher(g, range) ==
  LET k == Cardinality(DOMAIN watch)
  IN /\ register.pc = "idle"
     /\ notifier.pc # "send"
     /\ g \in getter_map
     /\ k \in Key
     /\ watch' = Put(watch, k, [getter |-> g, range |-> range])
     /\ senders' = senders \cup {k}
     /\ register' = [pc |-> "pushed", key |-> k]
     /\ last' = Put(last, k, NoEvent)
     /\ overlapped' = overlapped \cup (IF Changing(g) THEN {g} ELSE {})
     /\ UNCHANGED <<library, getter_map, value_cache, notifier>>

(* A value that is not set yet is neither stored nor sent.                  *)
ReadValue ==
  /\ register.pc = "pushed"
  /\ LET v == value[watch[register.key].getter]
     IN register' = IF v = None THEN Idle
                    ELSE [pc |-> "read", key |-> register.key, value |-> v]
  /\ UNCHANGED <<library, getter_map, watchers, value_cache, notifier, history>>

(* Mutant: the value is sent, not stored.                                   *)
StoreNothing ==
  /\ register.pc = "read"
  /\ register' = [register EXCEPT !.pc = "stored"]
  /\ UNCHANGED <<library, getter_map, watchers, value_cache, notifier, history>>

StoreValue ==
  /\ register.pc = "read"
  /\ value_cache' = [value_cache EXCEPT ![watch[register.key].getter] = register.value]
  /\ register' = [register EXCEPT !.pc = "stored"]
  /\ UNCHANGED <<library, getter_map, watchers, notifier, history>>

SendFirst ==
  /\ register.pc = "stored"
  /\ last' = IF ShouldSend(watch[register.key].range, register.value, "Enter")
             THEN [last EXCEPT ![register.key] = Event("Enter", register.value, @)]
             ELSE last
  /\ register' = Idle
  /\ UNCHANGED <<library, getter_map, watchers, value_cache, notifier, overlapped>>

(* `WatcherGuard::drop`, by the manager, which has it from register_watch.  *)
DropGuard(k) ==
  /\ k \in senders
  /\ ~(register.pc # "idle" /\ register.key = k)
  /\ senders' = senders \ {k}
  /\ UNCHANGED <<library, getter_map, watch, value_cache, notifier, register, history>>

-----------------------------------------------------------------------------
Next ==
  \/ \E g \in Getter : AddValue(g) \/ ChangeValue(g) \/ ValueAdded(g) \/ ReadChanged(g)
  \/ UpdateCache \/ SendEvents
  \/ \E g \in Getter, range \in Ranges : PushWatcher(g, range)
  \/ ReadValue \/ StoreValue \/ SendFirst
  \/ \E k \in Key : DropGuard(k)

Spec == Init /\ [][Next]_vars

-----------------------------------------------------------------------------
(* Properties.  The type invariant, with the records of both threads:       *)
TypeOK ==
  /\ IsMap(value, Getter, Value \cup {None})
  /\ notifications \in Seq([kind : {"ValueAdded", "ValueChanged"}, getter : Getter])
  /\ getter_map \subseteq DOMAIN value
  /\ watch \in [DOMAIN watch -> [getter : getter_map, range : Ranges]]
  /\ senders \subseteq DOMAIN watch /\ DOMAIN watch \subseteq Key
  /\ value_cache \in [Getter -> Value \cup {None}]
  /\ notifier \in {Idle} \cup [pc : {"read"}, getter : Getter, value : Value]
       \cup [pc : {"send"}, getter : Getter, value : Value, previous : Value \cup {None},
             told : (SUBSET DOMAIN watch) \ {{}}]
  /\ register \in {Idle} \cup [pc : {"pushed"}, key : senders]
       \cup [pc : {"read", "stored"}, key : senders, value : Value]
  /\ last \in [DOMAIN watch -> {NoEvent} \cup [kind : {"Enter", "Exit"}, value : Value, odd : BOOLEAN]]
  /\ overlapped \subseteq getter_map

Agrees(k) ==
  LET v == value[watch[k].getter]
  IN IF watch[k].range = None
     THEN last[k].value = v
     ELSE (last[k].kind = "Enter") = ShouldSend(watch[k].range, v, "Enter")

Settled(g) == ~Changing(g) /\ ~Registering(g)

(* As long as no watch is registered on a getter while it changes, its      *)
(* watchers know the device: once every notification is handled, a watcher  *)
(* with a range was last sent Enter exactly if the value is in its range,   *)
(* one without a range was last sent the value, although all share a cache  *)
(* that stops when nobody watches and handles read values that are newer    *)
(* than their notifications.                                                *)
WatchersAgree ==
  \A k \in senders :
    LET g == watch[k].getter
    IN Settled(g) /\ g \notin overlapped => Agrees(k)

(* Under the same condition the adapter keeps the promise of AdapterWatch:  *)
(* Enter and Exit alternate, Enter first.  Nothing is promised to a watcher *)
(* without a range.                                                         *)
OpenZWavePromise ==
  INSTANCE AdapterWatch WITH
    Watcher <- Key, TellsFirst <- TRUE,
    told <- [k \in Key |-> IF k \in DOMAIN last THEN [kind |-> last[k].kind, odd |-> last[k].odd]
                           ELSE [kind |-> "none", odd |-> FALSE]],
    excused <- {k \in DOMAIN watch : watch[k].range = None \/ watch[k].getter \in overlapped}

OpenZWaveKeepsPromise == OpenZWavePromise!Promise

-----------------------------------------------------------------------------
(* What the code says, and does not do: see the README.                     *)

(* adapter.rs:171 "If a `Range` option is set, the watcher expects to       *)
(* receive `EnterRange`/`ExitRange` events whenever the value available on  *)
(* the device enters/exits the range."                                      *)
WatchersAlwaysAgree ==
  \A k \in senders : watch[k].range # None /\ Settled(watch[k].getter) => Agrees(k)
=============================================================================
