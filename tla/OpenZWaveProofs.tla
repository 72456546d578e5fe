--------------------------- MODULE OpenZWaveProofs ----------------------------
(***************************************************************************)
(* Proofs about the watches of the OpenZWave adapter, for any getters and  *)
(* ranges and any number of watches: its types, that the watchers know the *)
(* device, and that the adapter keeps the promise of AdapterWatch.         *)
(***************************************************************************)
EXTENDS OpenZWave, FiniteSetTheorems, TLAPS

-----------------------------------------------------------------------------
(* The inductive invariant.  TypeOK alone is not inductive: that a changed  *)
(* value is set is in ValuesInv, that a new watch has a new number in       *)
(* NumbersInv.                                                              *)

(* A change of g that the notification thread has not read yet.             *)
Pending(g) ==
  \E i \in DOMAIN notifications :
    notifications[i].kind = "ValueChanged" /\ notifications[i].getter = g

Sending == notifier.pc = "send"
Registers(k) == register.pc # "idle" /\ register.key = k

(* The notification thread has a change of g to tell about, or will have.   *)
Busy(g) == Pending(g) \/ (notifier.pc # "idle" /\ notifier.getter = g)

(* The event e is the last one that a watcher with this range is due when   *)
(* the value is v.                                                          *)
Matches(range, e, v) ==
  IF range = None THEN e.value = v
  ELSE e.kind = "Enter" <=> ShouldSend(range, v, "Enter")

(* A value of g has been read by one of the threads, or is cached.          *)
Known(g) ==
  \/ value_cache[g] # None
  \/ notifier.pc = "read" /\ notifier.getter = g
  \/ register.pc = "read" /\ watch[register.key].getter = g

(* Notifications are about values of the library, and a value that was      *)
(* changed, or is known, is set for good.                                   *)
ValuesInv ==
  /\ \A i \in DOMAIN notifications : notifications[i].getter \in DOMAIN value
  /\ \A g \in Getter : Pending(g) \/ Known(g) => g \in DOMAIN value /\ value[g] # None

(* The watchers are numbered in the order in which they were pushed.        *)
NumbersInv == DOMAIN watch = 0 .. Cardinality(DOMAIN watch) - 1 /\ IsFiniteSet(DOMAIN watch)

(* Those who are still to be told know the previous value.                  *)
ToldInv ==
  Sending =>
    /\ \A k \in notifier.told :
         /\ watch[k].getter = notifier.getter
         /\ notifier.getter \notin overlapped =>
              Matches(watch[k].range, last[k], notifier.previous)
    /\ notifier.getter \notin overlapped => value_cache[notifier.getter] = notifier.value

(* A watch that is being registered does not overlap a change, has told     *)
(* nothing, and has the value of the device once it has read it.            *)
KnowsWhenRegistering(k, g) ==
  /\ ~Busy(g) /\ last[k] = NoEvent
  /\ register.pc \in {"read", "stored"} => register.value = value[g]
  /\ register.pc = "stored" => value_cache[g] = value[g]

(* The other watchers know the cache, or are about to be told; and the      *)
(* cache, or the notification thread, has the value of the device, unless a *)
(* change is pending.                                                       *)
KnowsWhenRegistered(k, g) ==
  /\ (Sending /\ k \in notifier.told) \/ Matches(watch[k].range, last[k], value_cache[g])
  /\ Pending(g) \/ (IF notifier.pc = "read" /\ notifier.getter = g
                    THEN notifier.value = value[g] ELSE value_cache[g] = value[g])

KnowsInv ==
  \A k \in senders, g \in Getter :
    watch[k].getter = g /\ g \notin overlapped =>
      IF Registers(k) THEN KnowsWhenRegistering(k, g) ELSE KnowsWhenRegistered(k, g)

AgreeInv == ValuesInv /\ NumbersInv /\ ToldInv /\ KnowsInv

-----------------------------------------------------------------------------
(* Type correctness.                                                       *)

Notice == [kind : {"ValueAdded", "ValueChanged"}, getter : Getter]
EventData == {NoEvent} \cup [kind : {"Enter", "Exit"}, value : Value, odd : BOOLEAN]
WatchData == [getter : getter_map, range : Ranges]
NotifierData ==
  {Idle} \cup [pc : {"read"}, getter : Getter, value : Value]
    \cup [pc : {"send"}, getter : Getter, value : Value, previous : Value \cup {None},
          told : (SUBSET DOMAIN watch) \ {{}}]
RegisterData ==
  {Idle} \cup [pc : {"pushed"}, key : senders]
    \cup [pc : {"read", "stored"}, key : senders, value : Value]

LEMMA TypeParts ==
  TypeOK <=>
    /\ DOMAIN value \subseteq Getter /\ value \in [DOMAIN value -> Value \cup {None}]
    /\ notifications \in Seq(Notice)
    /\ getter_map \subseteq DOMAIN value
    /\ watch \in [DOMAIN watch -> WatchData]
    /\ senders \subseteq DOMAIN watch /\ DOMAIN watch \subseteq Key
    /\ value_cache \in [Getter -> Value \cup {None}]
    /\ notifier \in NotifierData
    /\ register \in RegisterData
    /\ last \in [DOMAIN watch -> EventData]
    /\ overlapped \subseteq getter_map
  BY DEF TypeOK, IsMap, Notice, EventData, WatchData, NotifierData, RegisterData

LEMMA ConstantFacts ==
  /\ None \notin Value /\ MaxWatches \in Nat /\ MaxQueue \in Nat
  /\ NoEvent.kind = "none" /\ NoEvent.value = None /\ Idle.pc = "idle"
  BY OpenZWaveAssumption DEF None, Value, NoEvent, Idle

(* The events that are sent.                                                *)
LEMMA EventFacts ==
  ASSUME NEW kind \in {"Enter", "Exit"}, NEW v \in Value, NEW e \in EventData
  PROVE  /\ Event(kind, v, e) \in EventData
         /\ Event(kind, v, e).kind = kind /\ Event(kind, v, e).value = v
         /\ Event(kind, v, e).odd = ~e.odd
<1>1. e.odd \in BOOLEAN
  <2>1. NoEvent.odd = FALSE  BY Zenon DEF NoEvent
  <2>2. CASE e = NoEvent  BY <2>1, <2>2, Zenon
  <2>3. CASE e \in [kind : {"Enter", "Exit"}, value : Value, odd : BOOLEAN]  BY <2>3
  <2> QED  BY <2>2, <2>3 DEF EventData
<1>2. (~e.odd) \in BOOLEAN
  <2>1. \A b \in BOOLEAN : (~b) \in BOOLEAN  OBVIOUS
  <2> QED  BY <1>1, <2>1, Zenon
<1> DEFINE o == ~e.odd
<1>3. Event(kind, v, e) = [kind |-> kind, value |-> v, odd |-> o]
  BY Zenon DEF Event
<1>4. o \in BOOLEAN  BY <1>2
<1> HIDE DEF o
<1>5. /\ [kind |-> kind, value |-> v, odd |-> o] \in EventData
      /\ [kind |-> kind, value |-> v, odd |-> o].kind = kind
      /\ [kind |-> kind, value |-> v, odd |-> o].value = v
      /\ [kind |-> kind, value |-> v, odd |-> o].odd = o
  BY <1>4 DEF EventData
<1>6. /\ Event(kind, v, e) \in EventData
      /\ Event(kind, v, e).kind = kind /\ Event(kind, v, e).value = v
      /\ Event(kind, v, e).odd = o
  BY <1>3, <1>5, Zenon
<1> QED  BY <1>6, Zenon DEF o

(* The channel.                                                            *)
LEMMA NoticeFacts ==
  ASSUME NEW kind \in {"ValueAdded", "ValueChanged"}, NEW g \in Getter
  PROVE  /\ Notification(kind, g) \in Notice
         /\ Notification(kind, g).kind = kind /\ Notification(kind, g).getter = g
  BY DEF Notification, Notice

LEMMA PendingAfterAppend ==
  ASSUME TypeOK, NEW kind \in {"ValueAdded", "ValueChanged"}, NEW g \in Getter,
         notifications' = Append(notifications, Notification(kind, g))
  PROVE  /\ notifications' \in Seq(Notice)
         /\ \A x : Pending(x)' <=> Pending(x) \/ (kind = "ValueChanged" /\ x = g)
         /\ ValuesInv => \A i \in DOMAIN notifications' :
              notifications'[i].getter \in DOMAIN value \cup {g}
<1>t. notifications \in Seq(Notice)  BY TypeParts
<1> DEFINE n == Notification(kind, g)
<1>1. n \in Notice /\ n.kind = kind /\ n.getter = g  BY NoticeFacts
<1>2. notifications' = Append(notifications, n)  OBVIOUS
<1> HIDE DEF n
<1>3. /\ DOMAIN notifications' = DOMAIN notifications \cup {Len(notifications) + 1}
      /\ notifications'[Len(notifications) + 1] = n
      /\ \A i \in DOMAIN notifications : notifications'[i] = notifications[i]
  BY <1>t, <1>1, <1>2
<1>4. notifications' \in Seq(Notice)  BY <1>t, <1>1, <1>2
<1>5. \A x : Pending(x)' <=> Pending(x) \/ (kind = "ValueChanged" /\ x = g)
  BY <1>1, <1>3 DEF Pending
<1>6. ValuesInv => \A i \in DOMAIN notifications' :
        notifications'[i].getter \in DOMAIN value \cup {g}
  BY <1>1, <1>3 DEF ValuesInv
<1> QED  BY <1>4, <1>5, <1>6

LEMMA PendingAfterReceive ==
  ASSUME TypeOK, NEW kind \in {"ValueAdded", "ValueChanged"}, NEW g \in Getter, Receive(kind, g)
  PROVE  /\ notifications' \in Seq(Notice)
         /\ \A x : Pending(x)' => Pending(x)
         /\ \A x : Pending(x) => Pending(x)' \/ (kind = "ValueChanged" /\ x = g)
         /\ kind = "ValueChanged" => Pending(g)
         /\ ValuesInv => /\ g \in DOMAIN value
                         /\ \A i \in DOMAIN notifications' : notifications'[i].getter \in DOMAIN value
<1>t. notifications \in Seq(Notice)  BY TypeParts
<1>1. /\ notifications # <<>> /\ notifications' = Tail(notifications)
      /\ notifications[1].kind = kind /\ notifications[1].getter = g /\ 1 \in DOMAIN notifications
  BY <1>t, NoticeFacts DEF Receive
<1>2. /\ \A i \in DOMAIN notifications' : i + 1 \in DOMAIN notifications
                                          /\ notifications'[i] = notifications[i + 1]
      /\ \A i \in DOMAIN notifications : i # 1 =>
           i - 1 \in DOMAIN notifications' /\ notifications'[i - 1] = notifications[i]
  BY <1>t, <1>1
<1>3. notifications' \in Seq(Notice)  BY <1>t, <1>1
<1>4. \A x : Pending(x)' => Pending(x)
  BY <1>2 DEF Pending
<1>5. ASSUME NEW x, Pending(x) PROVE Pending(x)' \/ (kind = "ValueChanged" /\ x = g)
  <2>1. PICK i \in DOMAIN notifications :
          notifications[i].kind = "ValueChanged" /\ notifications[i].getter = x
    BY <1>5 DEF Pending
  <2>2. CASE i = 1  BY <1>1, <2>1, <2>2
  <2>3. CASE i # 1
    <3>1. i - 1 \in DOMAIN notifications' /\ notifications'[i - 1] = notifications[i]
      BY <1>2, <2>3
    <3> QED  BY <2>1, <3>1 DEF Pending
  <2> QED  BY <2>2, <2>3
<1>6. kind = "ValueChanged" => Pending(g)
  BY <1>1 DEF Pending
<1>7. ValuesInv => /\ g \in DOMAIN value
                   /\ \A i \in DOMAIN notifications' : notifications'[i].getter \in DOMAIN value
  BY <1>1, <1>2 DEF ValuesInv
<1> QED  BY <1>3, <1>4, <1>5, <1>6, <1>7

LEMMA ChangingIsBusy ==
  TypeOK => \A g : Changing(g) <=> Busy(g)
<1> SUFFICES ASSUME TypeOK, NEW g
             PROVE  Changing(g) <=> Busy(g)
  OBVIOUS
<1>t. \A i \in DOMAIN notifications : notifications[i] \in Notice
  BY TypeParts
<1> DEFINE n == Notification("ValueChanged", g)
           S == {notifications[i] : i \in DOMAIN notifications}
<1>1. n \in S <=> \E i \in DOMAIN notifications : notifications[i] = n
  OBVIOUS
<1>2. \A i \in DOMAIN notifications :
        notifications[i] = n <=> notifications[i].kind = "ValueChanged" /\ notifications[i].getter = g
  BY <1>t DEF Notification, Notice
<1>3. Changing(g) <=> n \in S \/ (notifier.pc # "idle" /\ notifier.getter = g)
  BY DEF Changing
<1> HIDE DEF n, S
<1>4. n \in S <=> Pending(g)  BY <1>1, <1>2 DEF Pending
<1> QED  BY <1>3, <1>4 DEF Busy

(* Facts of the types, by variable.                                         *)
LEMMA Types ==
  ASSUME TypeOK
  PROVE  /\ \A g \in DOMAIN value : g \in Getter /\ value[g] \in Value \cup {None}
         /\ \A g \in getter_map : g \in DOMAIN value /\ g \in Getter
         /\ \A k \in DOMAIN watch : /\ watch[k] \in WatchData /\ watch[k].getter \in getter_map
                                    /\ watch[k].range \in Ranges
                                    /\ last[k] \in EventData /\ k \in Key
         /\ DOMAIN last = DOMAIN watch
         /\ \A k \in senders : k \in DOMAIN watch
         /\ \A g \in Getter : value_cache[g] \in Value \cup {None}
         /\ notifier.pc \in {"idle", "read", "send"}
         /\ notifier.pc # "idle" => notifier.getter \in Getter /\ notifier.value \in Value
         /\ notifier.pc = "send" => /\ notifier.previous \in Value \cup {None}
                                    /\ notifier.told \subseteq DOMAIN watch
         /\ register.pc \in {"idle", "pushed", "read", "stored"}
         /\ register.pc # "idle" => register.key \in senders
         /\ register.pc \in {"read", "stored"} => register.value \in Value
<1>t. TypeOK  OBVIOUS
<1>1. /\ \A g \in DOMAIN value : g \in Getter /\ value[g] \in Value \cup {None}
      /\ \A g \in getter_map : g \in DOMAIN value /\ g \in Getter
  BY <1>t, TypeParts
<1>2. watch \in [DOMAIN watch -> WatchData] /\ last \in [DOMAIN watch -> EventData]
      /\ DOMAIN watch \subseteq Key /\ senders \subseteq DOMAIN watch
      /\ value_cache \in [Getter -> Value \cup {None}]
  BY <1>t, TypeParts
<1>3. \A k \in DOMAIN watch : /\ watch[k] \in WatchData /\ watch[k].getter \in getter_map
                              /\ watch[k].range \in Ranges
                              /\ last[k] \in EventData /\ k \in Key
  BY <1>2 DEF WatchData
<1>4. notifier \in NotifierData /\ register \in RegisterData
  BY <1>t, TypeParts
<1>5. /\ notifier.pc \in {"idle", "read", "send"}
      /\ notifier.pc # "idle" => notifier.getter \in Getter /\ notifier.value \in Value
      /\ notifier.pc = "send" => /\ notifier.previous \in Value \cup {None}
                                 /\ notifier.told \subseteq DOMAIN watch
  BY <1>4 DEF NotifierData, Idle
<1>6. /\ register.pc \in {"idle", "pushed", "read", "stored"}
      /\ register.pc # "idle" => register.key \in senders
      /\ register.pc \in {"read", "stored"} => register.value \in Value
  BY <1>4 DEF RegisterData, Idle
<1> QED  BY <1>1, <1>2, <1>3, <1>5, <1>6

(* TypeOK in the next state, which no step but PushWatcher changes for the  *)
(* watches.                                                                 *)
LEMMA TypePartsNext ==
  TypeOK' <=>
    /\ DOMAIN value' \subseteq Getter /\ value' \in [DOMAIN value' -> Value \cup {None}]
    /\ notifications' \in Seq(Notice)
    /\ getter_map' \subseteq DOMAIN value'
    /\ watch' \in [DOMAIN watch' -> WatchData']
    /\ senders' \subseteq DOMAIN watch' /\ DOMAIN watch' \subseteq Key
    /\ value_cache' \in [Getter -> Value \cup {None}]
    /\ notifier' \in NotifierData'
    /\ register' \in RegisterData'
    /\ last' \in [DOMAIN watch' -> EventData]
    /\ overlapped' \subseteq getter_map'
  BY DEF TypeOK, IsMap, Notice, EventData, WatchData, NotifierData, RegisterData

LEMMA NotifierDataNext ==
  NotifierData' =
    {Idle} \cup [pc : {"read"}, getter : Getter, value : Value]
      \cup [pc : {"send"}, getter : Getter, value : Value, previous : Value \cup {None},
            told : (SUBSET DOMAIN watch') \ {{}}]
  BY DEF NotifierData

LEMMA RegisterDataNext ==
  RegisterData' =
    {Idle} \cup [pc : {"pushed"}, key : senders']
      \cup [pc : {"read", "stored"}, key : senders', value : Value]
  BY DEF RegisterData

LEMMA WatchDataNext == WatchData' = [getter : getter_map', range : Ranges]
  BY DEF WatchData

LEMMA LibraryTypes ==
  ASSUME TypeOK, ValuesInv, NEW g \in Getter, AddValue(g) \/ ChangeValue(g)
  PROVE  TypeOK' /\ ValuesInv'
<1>v. None \notin Value  BY ConstantFacts
<1>1. UNCHANGED <<getter_map, watch, senders, value_cache, notifier, register, last>>
  BY DEF AddValue, ChangeValue, watchers, history
<1>2. /\ DOMAIN value' = DOMAIN value \cup {g} /\ value'[g] \in Value \cup {None}
      /\ \A x \in DOMAIN value : x # g => value'[x] = value[x]
      /\ value' \in [DOMAIN value' -> Value \cup {None}]
  <2>1. CASE AddValue(g)
    <3>1. PICK v \in Value \cup {None} : value' = Put(value, g, v)
      BY <2>1 DEF AddValue
    <3> QED  BY <3>1, TypeParts DEF Put
  <2>2. CASE ChangeValue(g)
    <3>1. PICK v \in Value : value' = [value EXCEPT ![g] = v] /\ g \in DOMAIN value
      BY <2>2 DEF ChangeValue
    <3> QED  BY <3>1, TypeParts
  <2> QED  BY <2>1, <2>2
<1>3. PICK kind \in {"ValueAdded", "ValueChanged"} :
        /\ notifications' = Append(notifications, Notification(kind, g))
        /\ kind = "ValueChanged" => value'[g] # None
        /\ g \in DOMAIN value => kind = "ValueChanged"
  <2>1. CASE AddValue(g)  BY <2>1 DEF AddValue
  <2>2. CASE ChangeValue(g)
    <3>1. value'[g] # None  BY <1>v, <2>2, TypeParts DEF ChangeValue
    <3> QED  BY <2>2, <3>1 DEF ChangeValue
  <2> QED  BY <2>1, <2>2
<1>4. /\ notifications' \in Seq(Notice)
      /\ \A x : Pending(x)' <=> Pending(x) \/ (kind = "ValueChanged" /\ x = g)
      /\ \A i \in DOMAIN notifications' : notifications'[i].getter \in DOMAIN value \cup {g}
  BY <1>3, PendingAfterAppend
<1>5. overlapped' \subseteq getter_map
  <2>1. CASE AddValue(g)  BY <2>1, TypeParts DEF AddValue, history
  <2>2. CASE ChangeValue(g)
    <3>1. Registering(g) => g \in getter_map
      BY Types DEF Registering
    <3> QED  BY <2>2, <3>1, TypeParts DEF ChangeValue
  <2> QED  BY <2>1, <2>2
<1>6. WatchData' = WatchData /\ NotifierData' = NotifierData /\ RegisterData' = RegisterData
  BY <1>1 DEF WatchData, NotifierData, RegisterData
<1>7. TypeOK'
  BY <1>1, <1>2, <1>4, <1>5, <1>6, TypeParts, TypePartsNext
<1>8. ValuesInv'
  <2>1. ASSUME NEW x \in Getter, Pending(x)' \/ Known(x)'
        PROVE  x \in DOMAIN value' /\ value'[x] # None
    <3>0. Known(x)' <=> Known(x)  BY <1>1 DEF Known
    <3>1. CASE x # g  BY <1>2, <1>4, <2>1, <3>0, <3>1 DEF ValuesInv
    <3>2. CASE x = g
      BY <1>2, <1>3, <1>4, <2>1, <3>0, <3>2 DEF ValuesInv
    <3> QED  BY <3>1, <3>2
  <2> QED  BY <1>2, <1>4, <2>1 DEF ValuesInv
<1> QED  BY <1>7, <1>8

LEMMA ReceiveTypes ==
  ASSUME TypeOK, ValuesInv, NEW g \in Getter, ValueAdded(g) \/ ReadChanged(g)
  PROVE  TypeOK' /\ ValuesInv'
<1>1. UNCHANGED <<value, watch, senders, value_cache, register, last, overlapped>>
  BY DEF ValueAdded, ReadChanged, watchers, history
<1>2. PICK kind \in {"ValueAdded", "ValueChanged"} :
        Receive(kind, g) /\ (ReadChanged(g) => kind = "ValueChanged")
  BY DEF ValueAdded, ReadChanged, Receive, Notification
<1>3. /\ notifications' \in Seq(Notice)
      /\ \A x : Pending(x)' => Pending(x)
      /\ kind = "ValueChanged" => Pending(g)
      /\ g \in DOMAIN value
      /\ \A i \in DOMAIN notifications' : notifications'[i].getter \in DOMAIN value
  BY <1>2, PendingAfterReceive
<1>4. getter_map \subseteq getter_map' /\ getter_map' \subseteq DOMAIN value
  BY <1>3, TypeParts DEF ValueAdded, ReadChanged
<1>5. notifier' \in NotifierData
  <2>1. CASE ValueAdded(g)  BY <2>1, TypeParts DEF ValueAdded
  <2>2. CASE ReadChanged(g)
    <3>1. value[g] \in Value
      BY <1>2, <1>3, <2>2, Types DEF ValuesInv
    <3> QED  BY <2>2, <3>1 DEF ReadChanged, NotifierData
  <2> QED  BY <2>1, <2>2
<1>6. NotifierData' = NotifierData /\ RegisterData' = RegisterData /\ WatchData \subseteq WatchData'
  BY <1>1, <1>4 DEF NotifierData, RegisterData, WatchData
<1>7. watch' \in [DOMAIN watch' -> WatchData']
  BY <1>1, <1>6, TypeParts
<1>8. TypeOK'
  BY <1>1, <1>3, <1>4, <1>5, <1>6, <1>7, TypeParts, TypePartsNext
<1>9. \A x : Known(x)' => Known(x) \/ (kind = "ValueChanged" /\ x = g)
  BY <1>1, <1>2 DEF Known, ValueAdded, ReadChanged, Idle
<1>10. ValuesInv'
  BY <1>1, <1>3, <1>9 DEF ValuesInv
<1> QED  BY <1>8, <1>10

(* What SendEvents sends: `new` is the last event afterwards.               *)
SendsLast(range, v, previous, e, new) ==
  LET enters == ShouldSend(range, v, "Enter")
      entered == ShouldSend(range, previous, "Exit")
  IN \/ enters /\ ~entered /\ new = Event("Enter", v, e)
     \/ ~enters /\ entered /\ new = Event("Exit", v, e)
     \/ (enters <=> entered) /\ new = e

LEMMA SendEventsSent ==
  ASSUME TypeOK, SendEvents
  PROVE  \E k \in notifier.told, new \in EventData :
           /\ last' = [last EXCEPT ![k] = new]
           /\ SendsLast(watch[k].range, notifier.value, notifier.previous, last[k], new)
           /\ notifier' = IF notifier.told = {k} THEN Idle
                          ELSE [notifier EXCEPT !.told = @ \ {k}]
<1>1. notifier.pc = "send"  BY DEF SendEvents
<1>2. PICK k \in notifier.told :
        /\ LET enters == ShouldSend(watch[k].range, notifier.value, "Enter")
               entered == ShouldSend(watch[k].range, notifier.previous, "Exit")
           IN last' = [last EXCEPT ![k] =
                CASE enters /\ ~entered -> Event("Enter", notifier.value, @)
                  [] ~enters /\ entered -> Event("Exit", notifier.value, @)
                  [] OTHER -> @]
        /\ notifier' = IF notifier.told = {k} THEN Idle
                       ELSE [notifier EXCEPT !.told = @ \ {k}]
  BY DEF SendEvents
<1>3. k \in DOMAIN watch /\ last[k] \in EventData /\ notifier.value \in Value
  BY <1>1, Types
<1> DEFINE on == Event("Enter", notifier.value, last[k])
           off == Event("Exit", notifier.value, last[k])
           enters == ShouldSend(watch[k].range, notifier.value, "Enter")
           entered == ShouldSend(watch[k].range, notifier.previous, "Exit")
<1>4. on \in EventData /\ off \in EventData  BY <1>3, EventFacts
<1> SUFFICES \E new \in EventData :
               /\ last' = [last EXCEPT ![k] = new]
               /\ SendsLast(watch[k].range, notifier.value, notifier.previous, last[k], new)
  BY <1>2
<1>5. CASE enters /\ ~entered
  <2>1. last' = [last EXCEPT ![k] = on]  BY <1>2, <1>5
  <2> QED  BY <1>4, <1>5, <2>1 DEF SendsLast
<1>6. CASE ~enters /\ entered
  <2>1. last' = [last EXCEPT ![k] = off]  BY <1>2, <1>6
  <2> QED  BY <1>4, <1>6, <2>1 DEF SendsLast
<1>7. CASE enters <=> entered
  <2>1. last' = [last EXCEPT ![k] = last[k]]  BY <1>2, <1>7
  <2> QED  BY <1>3, <1>7, <2>1 DEF SendsLast
<1> QED  BY <1>5, <1>6, <1>7

LEMMA NotifierTypes ==
  ASSUME TypeOK, ValuesInv, UpdateCache \/ SendEvents
  PROVE  TypeOK' /\ ValuesInv'
<1>1. UNCHANGED <<value, notifications, getter_map, watch, senders, register, overlapped>>
  BY DEF UpdateCache, SendEvents, library, watchers, history
<1>2. NotifierData' = NotifierData /\ RegisterData' = RegisterData /\ WatchData' = WatchData
  BY <1>1 DEF NotifierData, RegisterData, WatchData
<1>3. \A x : Pending(x)' <=> Pending(x)
  BY <1>1 DEF Pending
<1>4. value_cache' \in [Getter -> Value \cup {None}] /\ notifier' \in NotifierData
      /\ last' \in [DOMAIN watch -> EventData]
      /\ \A x \in Getter : value_cache'[x] # None =>
           value_cache[x] # None \/ (notifier.pc = "read" /\ x = notifier.getter)
  <2>1. CASE UpdateCache
    <3> DEFINE told == {k \in senders : watch[k].getter = notifier.getter}
    <3>1. last' = last /\ notifier.pc = "read"  BY <2>1 DEF UpdateCache, history
    <3>2. notifier.getter \in Getter /\ notifier.value \in Value /\ told \subseteq DOMAIN watch
      BY <3>1, Types
    <3>3. value_cache[notifier.getter] \in Value \cup {None}  BY <3>2, Types
    <3>4. CASE told = {}
      <4>1. notifier' = Idle /\ value_cache' = value_cache
        BY <2>1, <3>4 DEF UpdateCache
      <4> QED  BY <3>1, <4>1, TypeParts DEF NotifierData
    <3>5. CASE told # {}
      <4>1. /\ notifier' = [pc |-> "send", getter |-> notifier.getter, value |-> notifier.value,
                            previous |-> value_cache[notifier.getter], told |-> told]
            /\ value_cache' = [value_cache EXCEPT ![notifier.getter] = notifier.value]
        BY <2>1, <3>5 DEF UpdateCache
      <4>2. told \in (SUBSET DOMAIN watch) \ {{}}  BY <3>2, <3>5
      <4>3. notifier' \in NotifierData
        <5> HIDE DEF told
        <5> QED  BY <3>2, <3>3, <4>1, <4>2 DEF NotifierData
      <4> QED  BY <3>1, <3>2, <4>1, <4>3, TypeParts
    <3> QED  BY <3>4, <3>5
  <2>2. CASE SendEvents
    <3>1. value_cache' = value_cache /\ notifier.pc = "send"  BY <2>2 DEF SendEvents
    <3>2. PICK k \in notifier.told, new \in EventData :
            /\ last' = [last EXCEPT ![k] = new]
            /\ notifier' = IF notifier.told = {k} THEN Idle
                           ELSE [notifier EXCEPT !.told = @ \ {k}]
      BY <2>2, SendEventsSent
    <3>3. last' \in [DOMAIN watch -> EventData]  BY <3>2, TypeParts
    <3>6. notifier \in [pc : {"send"}, getter : Getter, value : Value, previous : Value \cup {None},
                        told : (SUBSET DOMAIN watch) \ {{}}]
      BY <3>1, TypeParts DEF NotifierData, Idle
    <3>7. notifier' \in NotifierData
      BY <3>2, <3>6 DEF NotifierData
    <3> QED  BY <3>1, <3>3, <3>7, TypeParts
  <2> QED  BY <2>1, <2>2
<1>5. \A x \in Getter : Known(x)' => Known(x)
  <2>1. UpdateCache => notifier.pc = "read" /\ notifier'.pc # "read"
    BY DEF UpdateCache, Idle
  <2>2. SendEvents => notifier'.pc # "read"
    <3> SUFFICES ASSUME SendEvents PROVE notifier'.pc # "read"  OBVIOUS
    <3>1. notifier.pc = "send" /\ notifier \in NotifierData  BY TypeParts DEF SendEvents
    <3>2. \A k : [notifier EXCEPT !.told = @ \ {k}].pc = "send"
      BY <3>1 DEF NotifierData, Idle
    <3> QED  BY <3>2 DEF SendEvents, Idle
  <2> QED  BY <1>1, <1>4, <2>1, <2>2 DEF Known
<1>8. TypeOK'
  BY <1>1, <1>2, <1>4, TypeParts, TypePartsNext
<1>9. ValuesInv'
  BY <1>1, <1>3, <1>4, <1>5 DEF ValuesInv
<1> QED  BY <1>8, <1>9

(* A new watch is numbered with the number of watches.                      *)
LEMMA PushTypes ==
  ASSUME TypeOK, ValuesInv, NumbersInv, NEW g \in Getter, NEW range \in Ranges, PushWatcher(g, range)
  PROVE  /\ TypeOK' /\ ValuesInv' /\ NumbersInv'
         /\ \E k \in Key \ DOMAIN watch :
              /\ DOMAIN watch' = DOMAIN watch \cup {k} /\ senders' = senders \cup {k}
              /\ watch'[k].getter = g /\ watch'[k].range = range /\ last'[k] = NoEvent
              /\ \A j \in DOMAIN watch : watch'[j] = watch[j] /\ last'[j] = last[j]
              /\ register' = [pc |-> "pushed", key |-> k]
<1> DEFINE k == Cardinality(DOMAIN watch)
           w == [getter |-> g, range |-> range]
<1>1. /\ UNCHANGED <<value, notifications, getter_map, value_cache, notifier>>
      /\ register.pc = "idle" /\ notifier.pc # "send" /\ g \in getter_map
      /\ k \in Key /\ watch' = Put(watch, k, w) /\ senders' = senders \cup {k}
      /\ register' = [pc |-> "pushed", key |-> k] /\ last' = Put(last, k, NoEvent)
      /\ overlapped' = overlapped \cup (IF Changing(g) THEN {g} ELSE {})
  BY DEF PushWatcher, library
<1>2. k \in Nat /\ DOMAIN watch = 0 .. k - 1
  BY FS_CardinalityType DEF NumbersInv
<1>3. w \in WatchData /\ w.getter = g /\ w.range = range  BY <1>1 DEF WatchData
<1> HIDE DEF w
<1>4. k \notin DOMAIN watch /\ IsFiniteSet(DOMAIN watch)  BY <1>2 DEF NumbersInv
<1>5. /\ IsFiniteSet(DOMAIN watch \cup {k})
      /\ Cardinality(DOMAIN watch \cup {k}) = k + 1
  BY <1>4, FS_AddElement
<1>6. DOMAIN watch \cup {k} = 0 .. (k + 1) - 1  BY <1>2
<1> HIDE DEF k
<1>7. watch \in [DOMAIN watch -> WatchData] /\ last \in [DOMAIN watch -> EventData]
      /\ senders \subseteq DOMAIN watch /\ DOMAIN watch \subseteq Key
  BY TypeParts
<1>8. /\ DOMAIN watch' = DOMAIN watch \cup {k} /\ watch' \in [DOMAIN watch' -> WatchData]
      /\ watch'[k] = w
      /\ \A j \in DOMAIN watch : watch'[j] = watch[j]
  BY <1>1, <1>3, <1>4, <1>7 DEF Put
<1>9. /\ last' \in [DOMAIN watch' -> EventData] /\ last'[k] = NoEvent
      /\ \A j \in DOMAIN watch : last'[j] = last[j]
  BY <1>1, <1>4, <1>7, <1>8 DEF Put, EventData
<1>10. notifier' \in NotifierData'
  BY <1>1, TypeParts, NotifierDataNext DEF NotifierData, Idle
<1>11. register' \in RegisterData'
  BY <1>1, RegisterDataNext
<1>12. WatchData' = WatchData  BY <1>1 DEF WatchData
<1>13. TypeOK'
  BY <1>1, <1>7, <1>8, <1>9, <1>10, <1>11, <1>12, TypeParts, TypePartsNext
<1>14. NumbersInv'  BY <1>5, <1>6, <1>8 DEF NumbersInv
<1>15. ValuesInv'
  <2>1. \A x : (Pending(x)' <=> Pending(x)) /\ (Known(x)' => Known(x))
    BY <1>1 DEF Pending, Known
  <2> QED  BY <1>1, <2>1 DEF ValuesInv
<1> QED  BY <1>1, <1>3, <1>4, <1>8, <1>9, <1>13, <1>14, <1>15

LEMMA RegisterTypes ==
  ASSUME TypeOK, ValuesInv, ReadValue \/ StoreValue \/ SendFirst
  PROVE  TypeOK' /\ ValuesInv'
<1>1. UNCHANGED <<value, notifications, getter_map, watch, senders, notifier, overlapped>>
  BY DEF ReadValue, StoreValue, SendFirst, library, watchers, history
<1>2. NotifierData' = NotifierData /\ RegisterData' = RegisterData /\ WatchData' = WatchData
  BY <1>1 DEF NotifierData, RegisterData, WatchData
<1>3. \A x : Pending(x)' <=> Pending(x)
  BY <1>1 DEF Pending
<1>4. register.pc # "idle" /\ register.key \in senders /\ register.key \in DOMAIN watch
      /\ watch[register.key].getter \in Getter /\ watch[register.key].getter \in DOMAIN value
      /\ last[register.key] \in EventData
  <2>1. register.pc # "idle"  BY DEF ReadValue, StoreValue, SendFirst
  <2> QED  BY <2>1, Types
<1>5. /\ value_cache' \in [Getter -> Value \cup {None}] /\ register' \in RegisterData
      /\ last' \in [DOMAIN watch -> EventData]
      /\ \A x \in Getter : Known(x)' =>
           Known(x) \/ (x \in DOMAIN value /\ value[x] # None)
  <2>1. CASE ReadValue
    <3> DEFINE v == value[watch[register.key].getter]
    <3>1. v \in Value \cup {None}  BY <1>4, Types
    <3>2. /\ register' = IF v = None THEN Idle
                         ELSE [pc |-> "read", key |-> register.key, value |-> v]
          /\ value_cache' = value_cache /\ last' = last
      BY <2>1 DEF ReadValue, history
    <3>3. register'.pc = "read" => v # None /\ register'.key = register.key
      BY <3>2 DEF Idle
    <3>4. register' \in RegisterData
      <4> HIDE DEF v
      <4> QED  BY <1>4, <3>1, <3>2 DEF RegisterData
    <3> QED  BY <1>1, <1>4, <3>2, <3>3, <3>4, TypeParts DEF Known
  <2>2. CASE StoreValue
    <3>1. register \in [pc : {"read"}, key : senders, value : Value]
      BY <2>2, TypeParts DEF StoreValue, RegisterData, Idle
    <3>2. /\ value_cache' = [value_cache EXCEPT ![watch[register.key].getter] = register.value]
          /\ register' = [register EXCEPT !.pc = "stored"] /\ last' = last
      BY <2>2 DEF StoreValue, history
    <3>3. register' \in RegisterData /\ register'.pc = "stored"
      BY <3>1, <3>2 DEF RegisterData
    <3>4. Known(watch[register.key].getter)
      BY <3>1 DEF Known
    <3> QED  BY <1>1, <1>4, <3>1, <3>2, <3>3, <3>4, TypeParts DEF Known
  <2>3. CASE SendFirst
    <3>1. register.pc = "stored" /\ register' = Idle /\ value_cache' = value_cache
      BY <2>3 DEF SendFirst
    <3> DEFINE e == Event("Enter", register.value, last[register.key])
    <3>2. e \in EventData  BY <1>4, <3>1, Types, EventFacts
    <3>3. last' = last \/ last' = [last EXCEPT ![register.key] = e]
      BY <2>3 DEF SendFirst
    <3>4. last' \in [DOMAIN watch -> EventData]
      <4> HIDE DEF e
      <4> QED  BY <3>2, <3>3, TypeParts
    <3> QED  BY <1>1, <3>1, <3>4, TypeParts DEF RegisterData, Known, Idle
  <2> QED  BY <2>1, <2>2, <2>3
<1>6. TypeOK'
  BY <1>1, <1>2, <1>5, TypeParts, TypePartsNext
<1>7. ValuesInv'
  BY <1>1, <1>3, <1>5 DEF ValuesInv
<1> QED  BY <1>6, <1>7

LEMMA DropTypes ==
  ASSUME TypeOK, ValuesInv, NEW k \in Key, DropGuard(k)
  PROVE  TypeOK' /\ ValuesInv'
<1>1. UNCHANGED <<value, notifications, getter_map, watch, value_cache, notifier, register, last, overlapped>>
      /\ senders' = senders \ {k} /\ ~Registers(k)
  BY DEF DropGuard, library, history, Registers
<1>2. NotifierData' = NotifierData /\ WatchData' = WatchData
      /\ \A x : (Pending(x)' <=> Pending(x)) /\ (Known(x)' <=> Known(x))
  BY <1>1 DEF NotifierData, WatchData, Pending, Known
<1>3. register' \in RegisterData'
  <2>1. register.pc # "idle" => register.key \in senders'
    BY <1>1, Types DEF Registers
  <2> QED  BY <1>1, <2>1, TypeParts, RegisterDataNext DEF RegisterData, Idle
<1>4. TypeOK'
  BY <1>1, <1>2, <1>3, TypeParts, TypePartsNext
<1>5. ValuesInv'
  BY <1>1, <1>2 DEF ValuesInv
<1> QED  BY <1>4, <1>5

-----------------------------------------------------------------------------
(* The invariant, step by step.                                            *)

Inv == TypeOK /\ AgreeInv

LEMMA LibraryKeeps ==
  ASSUME Inv, NEW g \in Getter, AddValue(g) \/ ChangeValue(g)
  PROVE  Inv'
<1> USE DEF Inv
<1>1. UNCHANGED <<getter_map, watch, senders, value_cache, notifier, register, last>>
      /\ overlapped \subseteq overlapped'
  BY DEF AddValue, ChangeValue, watchers, history
<1>2. \A x \in getter_map : x # g => value'[x] = value[x]
  <2>1. CASE AddValue(g)
    <3>1. PICK v : value' = Put(value, g, v)  BY <2>1 DEF AddValue
    <3> QED  BY <3>1, Types DEF AgreeInv, Put
  <2>2. CASE ChangeValue(g)  BY <2>2, TypeParts DEF ChangeValue, AgreeInv
  <2> QED  BY <2>1, <2>2
<1>3. \/ g \notin getter_map /\ (\A x : Pending(x)' <=> Pending(x))
      \/ /\ \A x : Pending(x)' <=> (Pending(x) \/ x = g)
         /\ Registering(g) => g \in overlapped'
  <2>1. CASE AddValue(g)
    <3>1. g \notin getter_map  BY <2>1, Types DEF AddValue
    <3>2. \A x : Pending(x)' <=> Pending(x)
      BY <2>1, PendingAfterAppend DEF AddValue
    <3> QED  BY <3>1, <3>2
  <2>2. CASE ChangeValue(g)
    <3>1. \A x : Pending(x)' <=> (Pending(x) \/ x = g)
      BY <2>2, PendingAfterAppend DEF ChangeValue
    <3> QED  BY <2>2, <3>1 DEF ChangeValue
  <2> QED  BY <2>1, <2>2
<1>4. TypeOK' /\ ValuesInv' /\ NumbersInv'
  BY <1>1, LibraryTypes DEF AgreeInv, NumbersInv
<1>5. ToldInv'
  BY <1>1 DEF AgreeInv, ToldInv, Sending
<1>6. ASSUME NEW k \in senders, NEW x \in Getter, watch[k].getter = x, x \notin overlapped'
      PROVE  (IF Registers(k) THEN KnowsWhenRegistering(k, x) ELSE KnowsWhenRegistered(k, x))'
  <2>1. /\ IF Registers(k) THEN KnowsWhenRegistering(k, x) ELSE KnowsWhenRegistered(k, x)
        /\ x \in getter_map /\ (Registers(k)' <=> Registers(k))
    BY <1>1, <1>6, Types DEF AgreeInv, KnowsInv, Registers
  <2>2. CASE Registers(k)
    <3>1. x # g /\ (Pending(x)' <=> Pending(x))
      BY <1>3, <1>6, <2>1, <2>2 DEF Registering, Registers
    <3> QED  BY <1>1, <1>2, <2>1, <2>2, <3>1 DEF KnowsWhenRegistering, Busy
  <2>3. CASE ~Registers(k)
    <3>1. Pending(x)' \/ (x # g /\ (Pending(x)' <=> Pending(x)))
      BY <1>3, <2>1
    <3> QED  BY <1>1, <1>2, <2>1, <2>3, <3>1 DEF KnowsWhenRegistered, Sending
  <2> QED  BY <2>2, <2>3
<1>7. KnowsInv'
  BY <1>1, <1>6 DEF KnowsInv
<1> QED  BY <1>4, <1>5, <1>7 DEF AgreeInv

LEMMA ReceiveKeeps ==
  ASSUME Inv, NEW g \in Getter, ValueAdded(g) \/ ReadChanged(g)
  PROVE  Inv'
<1> USE DEF Inv
<1>1. UNCHANGED <<value, watch, senders, value_cache, register, last, overlapped>>
      /\ notifier.pc = "idle"
  BY DEF ValueAdded, ReadChanged, watchers, history, Receive
<1>2. \A x \in getter_map : (Pending(x)' <=> Pending(x)) \/
        (x = g /\ Pending(g) /\ notifier' = [pc |-> "read", getter |-> g, value |-> value[g]])
  <2>1. CASE ValueAdded(g)
    <3>1. \A x : Pending(x)' <=> Pending(x)
      BY <2>1, PendingAfterReceive DEF ValueAdded
    <3> QED  BY <3>1
  <2>2. CASE ReadChanged(g)
    <3>1. Pending(g) /\ \A x : x # g => (Pending(x)' <=> Pending(x))
      BY <2>2, PendingAfterReceive DEF ReadChanged
    <3> QED  BY <2>2, <3>1 DEF ReadChanged
  <2> QED  BY <2>1, <2>2
<1>3. \/ notifier'.pc = "idle"
      \/ notifier' = [pc |-> "read", getter |-> g, value |-> value[g]] /\ Pending(g)
  <2>1. CASE ValueAdded(g)  BY <1>1, <2>1 DEF ValueAdded
  <2>2. CASE ReadChanged(g)
    <3>1. Pending(g)  BY <2>2, PendingAfterReceive DEF ReadChanged
    <3> QED  BY <2>2, <3>1, ConstantFacts DEF ReadChanged
  <2> QED  BY <2>1, <2>2
<1>4. TypeOK' /\ ValuesInv' /\ NumbersInv'
  BY <1>1, ReceiveTypes DEF AgreeInv, NumbersInv
<1>5. ToldInv'
  BY <1>3 DEF ToldInv, Sending
<1>6. ASSUME NEW k \in senders, NEW x \in Getter, watch[k].getter = x, x \notin overlapped
      PROVE  (IF Registers(k) THEN KnowsWhenRegistering(k, x) ELSE KnowsWhenRegistered(k, x))'
  <2>1. /\ IF Registers(k) THEN KnowsWhenRegistering(k, x) ELSE KnowsWhenRegistered(k, x)
        /\ x \in getter_map /\ (Registers(k)' <=> Registers(k))
    BY <1>1, <1>6, Types DEF AgreeInv, KnowsInv, Registers
  <2>2. CASE Registers(k)
    BY <1>1, <1>2, <1>3, <2>1, <2>2 DEF KnowsWhenRegistering, Busy
  <2>3. CASE ~Registers(k)
    BY <1>1, <1>2, <1>3, <2>1, <2>3 DEF KnowsWhenRegistered, Sending
  <2> QED  BY <2>2, <2>3
<1>7. KnowsInv'
  BY <1>1, <1>6 DEF KnowsInv
<1> QED  BY <1>4, <1>5, <1>7 DEF AgreeInv

LEMMA UpdateCacheKeeps ==
  ASSUME Inv, UpdateCache
  PROVE  Inv'
<1> USE DEF Inv
<1> DEFINE g == notifier.getter
           told == {k \in senders : watch[k].getter = g}
<1>1. UNCHANGED <<value, notifications, getter_map, watch, senders, register, last, overlapped>>
      /\ notifier.pc = "read"
  BY DEF UpdateCache, library, watchers, history
<1>2. (\A x : Pending(x)' <=> Pending(x)) /\ (\A k : Registers(k)' <=> Registers(k))
  BY <1>1 DEF Pending, Registers
<1>3. \/ told = {} /\ notifier'.pc = "idle" /\ value_cache' = value_cache
      \/ /\ notifier'.pc = "send" /\ notifier'.getter = g /\ notifier'.value = notifier.value
         /\ notifier'.previous = value_cache[g] /\ notifier'.told = told
         /\ value_cache' = [value_cache EXCEPT ![g] = notifier.value]
  BY ConstantFacts DEF UpdateCache
<1>4. g \in Getter /\ value_cache \in [Getter -> Value \cup {None}]
  BY <1>1, Types, TypeParts
<1>5. TypeOK' /\ ValuesInv' /\ NumbersInv'
  BY <1>1, NotifierTypes DEF AgreeInv, NumbersInv
<1>6. ASSUME NEW k \in senders, NEW x \in Getter, watch[k].getter = x, x \notin overlapped
      PROVE  /\ IF Registers(k) THEN KnowsWhenRegistering(k, x) ELSE KnowsWhenRegistered(k, x)
             /\ k \in told <=> x = g
             /\ x = g => ~Registers(k)
  <2>1. IF Registers(k) THEN KnowsWhenRegistering(k, x) ELSE KnowsWhenRegistered(k, x)
    BY <1>6 DEF AgreeInv, KnowsInv
  <2> QED  BY <1>1, <1>6, <2>1 DEF KnowsWhenRegistering, Busy
<1>7. ToldInv'
  <2> SUFFICES ASSUME notifier'.pc = "send"
               PROVE  /\ \A k \in notifier'.told :
                           /\ watch'[k].getter = notifier'.getter
                           /\ notifier'.getter \notin overlapped' =>
                                Matches(watch'[k].range, last'[k], notifier'.previous)
                      /\ notifier'.getter \notin overlapped' =>
                           value_cache'[notifier'.getter] = notifier'.value
    BY DEF ToldInv, Sending
  <2>1. ASSUME NEW k \in told
        PROVE  g \notin overlapped => Matches(watch[k].range, last[k], value_cache[g])
    <3> SUFFICES ASSUME g \notin overlapped
                 PROVE  Matches(watch[k].range, last[k], value_cache[g])
      OBVIOUS
    <3>1. k \in senders /\ watch[k].getter = g  OBVIOUS
    <3>2. KnowsWhenRegistered(k, g) /\ ~Registers(k)  BY <1>4, <1>6, <3>1
    <3> QED  BY <1>1, <3>2 DEF KnowsWhenRegistered, Sending
  <2> QED  BY <1>1, <1>3, <1>4, <2>1
<1>8. ASSUME NEW k \in senders, NEW x \in Getter, watch[k].getter = x, x \notin overlapped
      PROVE  (IF Registers(k) THEN KnowsWhenRegistering(k, x) ELSE KnowsWhenRegistered(k, x))'
  <2>1. CASE Registers(k)
    <3>1. x # g /\ KnowsWhenRegistering(k, x)  BY <1>6, <1>8, <2>1
    <3>2. KnowsWhenRegistering(k, x)'
      BY <1>1, <1>2, <1>3, <1>4, <3>1 DEF KnowsWhenRegistering, Busy
    <3> QED  BY <1>2, <2>1, <3>2
  <2>2. CASE ~Registers(k)
    <3>1. KnowsWhenRegistered(k, x) /\ (k \in told <=> x = g)  BY <1>6, <1>8, <2>2
    <3>2. KnowsWhenRegistered(k, x)'
      <4>1. CASE x = g
        <5>1. /\ notifier'.pc = "send" /\ k \in notifier'.told
              /\ value_cache'[g] = notifier.value
          BY <1>3, <1>4, <3>1, <4>1
        <5> QED  BY <1>1, <1>2, <3>1, <4>1, <5>1 DEF KnowsWhenRegistered, Sending
      <4>2. CASE x # g
        <5>1. value_cache'[x] = value_cache[x]  BY <1>3, <1>4, <4>2
        <5>2. notifier'.pc = "idle" \/ notifier'.pc = "send"  BY <1>3
        <5>3. Matches(watch[k].range, last[k], value_cache[x])
              /\ (Pending(x) \/ value_cache[x] = value[x])
          BY <1>1, <3>1, <4>2 DEF KnowsWhenRegistered, Sending
        <5> QED  BY <1>1, <1>2, <5>1, <5>2, <5>3 DEF KnowsWhenRegistered
      <4> QED  BY <4>1, <4>2
    <3> QED  BY <1>2, <2>2, <3>2
  <2> QED  BY <2>1, <2>2
<1>9. KnowsInv'
  BY <1>1, <1>8 DEF KnowsInv
<1> QED  BY <1>5, <1>7, <1>9 DEF AgreeInv

(* What is sent is due: the last event matches the value afterwards.        *)
LEMMA SentMatches ==
  ASSUME NEW range \in Ranges, NEW v \in Value, NEW previous \in Value \cup {None},
         NEW e \in EventData, NEW new, SendsLast(range, v, previous, e, new)
  PROVE  /\ Matches(range, e, previous) => Matches(range, new, v)
         /\ \/ new = e
            \/ \E kind \in {"Enter", "Exit"} :
                 /\ new = Event(kind, v, e)
                 /\ Matches(range, e, previous) /\ range # None =>
                      kind # e.kind /\ (kind = "Exit" => e.kind = "Enter")
<1> DEFINE on == Event("Enter", v, e)
           off == Event("Exit", v, e)
<1>1. /\ on.kind = "Enter" /\ on.value = v /\ off.kind = "Exit" /\ off.value = v
  BY EventFacts
<1>2. new = on \/ new = off \/ new = e  BY DEF SendsLast
<1>3. CASE range = None
  <2>1. ShouldSend(range, v, "Enter") /\ ~ShouldSend(range, previous, "Exit")
    BY <1>3, ConstantFacts DEF ShouldSend
  <2>2. new = on  BY <2>1 DEF SendsLast
  <2> HIDE DEF on
  <2>3. Matches(range, new, v)  BY <1>1, <1>3, <2>2 DEF Matches
  <2> QED  BY <1>3, <2>2, <2>3 DEF on
<1>4. CASE range # None
  <2> DEFINE enters == ShouldSend(range, v, "Enter")
             entered == ShouldSend(range, previous, "Enter")
  <2>1. ShouldSend(range, previous, "Exit") <=> entered
    BY <1>4 DEF ShouldSend
  <2>2. \/ enters /\ ~entered /\ new = on
        \/ ~enters /\ entered /\ new = off
        \/ (enters <=> entered) /\ new = e
    BY <2>1 DEF SendsLast
  <2>3. /\ Matches(range, e, previous) <=> (e.kind = "Enter" <=> entered)
        /\ Matches(range, new, v) <=> (new.kind = "Enter" <=> enters)
    BY <1>4 DEF Matches
  <2> HIDE DEF enters, entered
  <2>4. Matches(range, e, previous) => Matches(range, new, v)
    <3> HIDE DEF on, off
    <3> QED  BY <1>1, <2>2, <2>3
  <2>5. CASE new = e  BY <2>4, <2>5
  <2>6. CASE enters /\ ~entered /\ new = on
    <3> SUFFICES Matches(range, e, previous) => "Enter" # e.kind
      BY <2>4, <2>6
    <3> QED  BY <2>3, <2>6
  <2>7. CASE ~enters /\ entered /\ new = off
    <3> SUFFICES Matches(range, e, previous) => "Exit" # e.kind /\ e.kind = "Enter"
      BY <2>4, <2>7
    <3> QED  BY <2>3, <2>7
  <2> QED  BY <2>2, <2>5, <2>6, <2>7
<1> QED  BY <1>3, <1>4

LEMMA SendEventsKeeps ==
  ASSUME Inv, SendEvents
  PROVE  Inv'
<1> USE DEF Inv
<1>1. UNCHANGED <<value, notifications, getter_map, watch, senders, value_cache, register, overlapped>>
      /\ notifier.pc = "send"
  BY DEF SendEvents, library, watchers
<1>2. (\A x : Pending(x)' <=> Pending(x)) /\ (\A k : Registers(k)' <=> Registers(k))
  BY <1>1 DEF Pending, Registers
<1>3. PICK k \in notifier.told, new \in EventData :
        /\ last' = [last EXCEPT ![k] = new]
        /\ SendsLast(watch[k].range, notifier.value, notifier.previous, last[k], new)
        /\ notifier' = IF notifier.told = {k} THEN Idle
                       ELSE [notifier EXCEPT !.told = @ \ {k}]
  BY SendEventsSent
<1> DEFINE g == notifier.getter
<1>4. /\ \/ notifier'.pc = "idle" /\ notifier.told = {k}
         \/ /\ notifier'.pc = "send" /\ notifier'.getter = g /\ notifier'.value = notifier.value
            /\ notifier'.previous = notifier.previous /\ notifier'.told = notifier.told \ {k}
  <2>1. notifier \in [pc : {"send"}, getter : Getter, value : Value, previous : Value \cup {None},
                      told : (SUBSET DOMAIN watch) \ {{}}]
    BY <1>1, TypeParts DEF NotifierData, Idle
  <2> QED  BY <1>3, <2>1, ConstantFacts
<1>5. TypeOK' /\ ValuesInv' /\ NumbersInv'
  BY <1>1, NotifierTypes DEF AgreeInv, NumbersInv
<1>6. /\ k \in DOMAIN watch /\ watch[k].getter = g /\ g \in Getter
      /\ last'[k] = new /\ \A j \in DOMAIN watch : j # k => last'[j] = last[j]
      /\ notifier.told \subseteq DOMAIN watch /\ senders \subseteq DOMAIN watch
  BY <1>1, <1>3, Types, TypeParts DEF AgreeInv, ToldInv, Sending
<1>7. g \notin overlapped => Matches(watch[k].range, new, value_cache[g])
  <2>1. g \notin overlapped => Matches(watch[k].range, last[k], notifier.previous)
                               /\ value_cache[g] = notifier.value
    BY <1>1 DEF AgreeInv, ToldInv, Sending
  <2> QED  BY <1>1, <1>3, <1>6, <2>1, SentMatches, Types
<1>8. ToldInv'
  BY <1>1, <1>4, <1>6 DEF AgreeInv, ToldInv, Sending
<1>9. ASSUME NEW j \in senders, NEW x \in Getter, watch[j].getter = x, x \notin overlapped
      PROVE  (IF Registers(j) THEN KnowsWhenRegistering(j, x) ELSE KnowsWhenRegistered(j, x))'
  <2>1. IF Registers(j) THEN KnowsWhenRegistering(j, x) ELSE KnowsWhenRegistered(j, x)
    BY <1>9 DEF AgreeInv, KnowsInv
  <2>2. CASE Registers(j)
    <3>1. ~Busy(x) /\ j # k  BY <1>1, <1>6, <1>9, <2>1, <2>2 DEF KnowsWhenRegistering, Busy
    <3>2. ~Busy(x)'  BY <1>2, <1>4, <3>1, <1>1 DEF Busy
    <3>3. last'[j] = last[j]  BY <1>6, <3>1
    <3> QED  BY <1>1, <1>2, <2>1, <2>2, <3>2, <3>3 DEF KnowsWhenRegistering
  <2>3. CASE ~Registers(j)
    <3>1. Pending(x)' \/ (IF notifier'.pc = "read" /\ notifier'.getter = x
                          THEN notifier'.value = value'[x] ELSE value_cache'[x] = value'[x])
      BY <1>1, <1>2, <1>4, <2>1, <2>3 DEF KnowsWhenRegistered
    <3>2. (notifier'.pc = "send" /\ j \in notifier'.told)
          \/ Matches(watch'[j].range, last'[j], value_cache'[x])
      <4>1. CASE j = k  BY <1>1, <1>6, <1>7, <1>9, <4>1
      <4>2. CASE j # k
        BY <1>1, <1>4, <1>6, <2>1, <2>3, <4>2 DEF KnowsWhenRegistered, Sending
      <4> QED  BY <4>1, <4>2
    <3> QED  BY <1>2, <2>3, <3>1, <3>2 DEF KnowsWhenRegistered, Sending
  <2> QED  BY <2>2, <2>3
<1>10. KnowsInv'
  BY <1>1, <1>9 DEF KnowsInv
<1> QED  BY <1>5, <1>8, <1>10 DEF AgreeInv

LEMMA PushKeeps ==
  ASSUME Inv, NEW g \in Getter, NEW range \in Ranges, PushWatcher(g, range)
  PROVE  Inv'
<1> USE DEF Inv
<1>0. TypeOK /\ ValuesInv /\ NumbersInv  BY DEF AgreeInv
<1>1. /\ UNCHANGED <<value, notifications, getter_map, value_cache, notifier>>
      /\ register.pc = "idle" /\ notifier.pc # "send"
      /\ overlapped \subseteq overlapped' /\ (Changing(g) => g \in overlapped')
  BY DEF PushWatcher, library
<1>2. \A x : (Pending(x)' <=> Pending(x)) /\ (Busy(x)' <=> Busy(x))
  BY <1>1 DEF Pending, Busy
<1>3. PICK k \in Key \ DOMAIN watch :
        /\ DOMAIN watch' = DOMAIN watch \cup {k} /\ senders' = senders \cup {k}
        /\ watch'[k].getter = g /\ watch'[k].range = range /\ last'[k] = NoEvent
        /\ \A j \in DOMAIN watch : watch'[j] = watch[j] /\ last'[j] = last[j]
        /\ register' = [pc |-> "pushed", key |-> k]
  BY <1>0, PushTypes
<1>4. TypeOK' /\ ValuesInv' /\ NumbersInv'
  BY <1>0, PushTypes, Zenon
<1>5. ToldInv'
  BY <1>1 DEF ToldInv, Sending
<1>6. ASSUME NEW j \in senders', NEW x \in Getter, watch'[j].getter = x, x \notin overlapped'
      PROVE  (IF Registers(j) THEN KnowsWhenRegistering(j, x) ELSE KnowsWhenRegistered(j, x))'
  <2>1. CASE j = k
    <3>1. Registers(j)' /\ ~Busy(x)'  BY <1>1, <1>2, <1>3, <1>6, <2>1, ChangingIsBusy DEF Registers
    <3> QED  BY <1>3, <2>1, <3>1 DEF KnowsWhenRegistering
  <2>2. CASE j # k
    <3>1. j \in senders /\ j \in DOMAIN watch /\ watch[j].getter = x /\ ~Registers(j) /\ ~Registers(j)'
      BY <1>1, <1>3, <1>6, <2>2, Types DEF Registers
    <3>2. KnowsWhenRegistered(j, x)  BY <1>1, <1>6, <3>1 DEF AgreeInv, KnowsInv
    <3>3. watch'[j] = watch[j] /\ last'[j] = last[j]  BY <1>3, <3>1
    <3> QED  BY <1>1, <1>2, <3>1, <3>2, <3>3 DEF KnowsWhenRegistered, Sending
  <2> QED  BY <2>1, <2>2
<1>7. KnowsInv'
  BY <1>6 DEF KnowsInv
<1> QED  BY <1>4, <1>5, <1>7 DEF AgreeInv

LEMMA ReadValueKeeps ==
  ASSUME Inv, ReadValue
  PROVE  Inv'
<1> USE DEF Inv
<1> DEFINE key == register.key
           v == value[watch[key].getter]
<1>1. /\ UNCHANGED <<value, notifications, getter_map, watch, senders, value_cache, notifier, last, overlapped>>
      /\ register.pc = "pushed" /\ key \in senders /\ watch[key].getter \in Getter
  <2>1. register.pc = "pushed"  BY DEF ReadValue
  <2>2. key \in senders /\ watch[key].getter \in Getter  BY <2>1, Types
  <2> QED  BY <2>1, <2>2 DEF ReadValue, library, watchers, history
<1>2. \A x : (Pending(x)' <=> Pending(x)) /\ (Busy(x)' <=> Busy(x))
  BY <1>1 DEF Pending, Busy
<1>3. \/ v = None /\ register'.pc = "idle"
      \/ register'.pc = "read" /\ register'.key = key /\ register'.value = v
  BY ConstantFacts DEF ReadValue
<1>4. TypeOK' /\ ValuesInv' /\ NumbersInv'
  BY <1>1, RegisterTypes DEF AgreeInv, NumbersInv
<1>5. ToldInv'
  BY <1>1 DEF AgreeInv, ToldInv, Sending
<1>6. ASSUME NEW j \in senders, NEW x \in Getter, watch[j].getter = x, x \notin overlapped
      PROVE  (IF Registers(j) THEN KnowsWhenRegistering(j, x) ELSE KnowsWhenRegistered(j, x))'
  <2>1. IF Registers(j) THEN KnowsWhenRegistering(j, x) ELSE KnowsWhenRegistered(j, x)
    BY <1>6 DEF AgreeInv, KnowsInv
  <2>2. CASE j # key
    <3>1. ~Registers(j) /\ ~Registers(j)'  BY <1>1, <1>3, <2>2 DEF Registers
    <3> QED  BY <1>1, <1>2, <2>1, <3>1 DEF KnowsWhenRegistered, Sending
  <2>3. CASE j = key /\ register'.pc = "read"
    <3>1. Registers(j) /\ Registers(j)'  BY <1>1, <1>3, <2>3 DEF Registers
    <3> QED  BY <1>1, <1>2, <1>3, <1>6, <2>1, <2>3, <3>1 DEF KnowsWhenRegistering
  <2>4. CASE j = key /\ register'.pc = "idle" /\ v = None
    <3>1. Registers(j) /\ ~Registers(j)'  BY <1>1, <2>4 DEF Registers
    <3>2. last[j] = NoEvent /\ ~Busy(x)  BY <2>1, <3>1 DEF KnowsWhenRegistering
    <3>3. value_cache[x] = None /\ value[x] = None
      BY <1>6, <2>4 DEF AgreeInv, ValuesInv, Known
    <3>4. Matches(watch[j].range, NoEvent, None)
      BY ConstantFacts DEF Matches, ShouldSend
    <3>5. KnowsWhenRegistered(j, x)'
      BY <1>1, <1>2, <3>2, <3>3, <3>4 DEF KnowsWhenRegistered, Busy
    <3> QED  BY <3>1, <3>5
  <2> QED  BY <1>3, <2>2, <2>3, <2>4
<1>7. KnowsInv'
  BY <1>1, <1>6 DEF KnowsInv
<1> QED  BY <1>4, <1>5, <1>7 DEF AgreeInv

LEMMA StoreValueKeeps ==
  ASSUME Inv, StoreValue
  PROVE  Inv'
<1> USE DEF Inv
<1> DEFINE key == register.key
           g == watch[key].getter
<1>1. /\ UNCHANGED <<value, notifications, getter_map, watch, senders, notifier, last, overlapped>>
      /\ register.pc = "read" /\ key \in senders /\ g \in Getter
  <2>1. register.pc = "read"  BY DEF StoreValue
  <2>2. key \in senders /\ g \in Getter  BY <2>1, Types
  <2> QED  BY <2>1, <2>2 DEF StoreValue, library, watchers, history
<1>2. \A x : (Pending(x)' <=> Pending(x)) /\ (Busy(x)' <=> Busy(x))
  BY <1>1 DEF Pending, Busy
<1>3. /\ register'.pc = "stored" /\ register'.key = key /\ register'.value = register.value
      /\ value_cache'[g] = register.value
      /\ \A x \in Getter : x # g => value_cache'[x] = value_cache[x]
  <2>1. register \in [pc : {"read", "stored"}, key : senders, value : Value]
    BY <1>1, TypeParts DEF RegisterData, Idle
  <2> QED  BY <1>1, <2>1, TypeParts DEF StoreValue
<1>4. TypeOK' /\ ValuesInv' /\ NumbersInv'
  BY <1>1, RegisterTypes DEF AgreeInv, NumbersInv
<1>5. \A k : Registers(k)' <=> Registers(k)
  BY <1>1, <1>3 DEF Registers
<1>6. g \notin overlapped => KnowsWhenRegistering(key, g)
  BY <1>1 DEF AgreeInv, KnowsInv, Registers
<1>7. ToldInv'
  <2> SUFFICES ASSUME Sending
               PROVE  notifier.getter \notin overlapped => notifier.getter # g
    BY <1>1, <1>3, Types DEF AgreeInv, ToldInv, Sending
  <2> QED  BY <1>6 DEF KnowsWhenRegistering, Busy, Sending
<1>8. ASSUME NEW j \in senders, NEW x \in Getter, watch[j].getter = x, x \notin overlapped
      PROVE  (IF Registers(j) THEN KnowsWhenRegistering(j, x) ELSE KnowsWhenRegistered(j, x))'
  <2>1. IF Registers(j) THEN KnowsWhenRegistering(j, x) ELSE KnowsWhenRegistered(j, x)
    BY <1>8 DEF AgreeInv, KnowsInv
  <2>2. CASE Registers(j)
    <3>1. j = key /\ x = g  BY <1>8, <2>2 DEF Registers
    <3> QED  BY <1>1, <1>2, <1>3, <1>5, <2>1, <2>2, <3>1 DEF KnowsWhenRegistering
  <2>3. CASE ~Registers(j)
    <3>1. value_cache'[x] = value_cache[x]
      <4>1. CASE x # g  BY <1>3, <4>1
      <4>2. CASE x = g
        <5>1. ~Busy(g) /\ register.value = value[g]
          BY <1>1, <1>6, <1>8, <4>2 DEF KnowsWhenRegistering
        <5>2. value_cache[g] = value[g]
          BY <2>1, <2>3, <4>2, <5>1 DEF KnowsWhenRegistered, Busy
        <5> QED  BY <1>3, <4>2, <5>1, <5>2
      <4> QED  BY <4>1, <4>2
    <3>2. KnowsWhenRegistered(j, x)'
      BY <1>1, <1>2, <2>1, <2>3, <3>1 DEF KnowsWhenRegistered, Sending
    <3> QED  BY <1>5, <2>3, <3>2
  <2> QED  BY <2>2, <2>3
<1>9. KnowsInv'
  BY <1>1, <1>8 DEF KnowsInv
<1> QED  BY <1>4, <1>7, <1>9 DEF AgreeInv

LEMMA SendFirstKeeps ==
  ASSUME Inv, SendFirst
  PROVE  Inv'
<1> USE DEF Inv
<1> DEFINE key == register.key
           g == watch[key].getter
           e == Event("Enter", register.value, last[key])
<1>1. /\ UNCHANGED <<value, notifications, getter_map, watch, senders, value_cache, notifier, overlapped>>
      /\ register.pc = "stored" /\ register'.pc = "idle"
      /\ key \in senders /\ key \in DOMAIN watch /\ g \in Getter /\ register.value \in Value
      /\ watch[key].range \in Ranges /\ last[key] \in EventData
  <2>1. register.pc = "stored" /\ register'.pc = "idle"  BY ConstantFacts DEF SendFirst
  <2>2. /\ key \in senders /\ key \in DOMAIN watch /\ g \in Getter /\ register.value \in Value
        /\ watch[key].range \in Ranges /\ last[key] \in EventData
    BY <2>1, Types
  <2> QED  BY <2>1, <2>2 DEF SendFirst, library, watchers
<1>2. \A x : (Pending(x)' <=> Pending(x)) /\ (Busy(x)' <=> Busy(x))
  BY <1>1 DEF Pending, Busy
<1>3. /\ e.kind = "Enter" /\ e.value = register.value
      /\ \/ ShouldSend(watch[key].range, register.value, "Enter") /\ last' = [last EXCEPT ![key] = e]
         \/ ~ShouldSend(watch[key].range, register.value, "Enter") /\ last' = last
  BY <1>1, EventFacts DEF SendFirst
<1> HIDE DEF e
<1>4. TypeOK' /\ ValuesInv' /\ NumbersInv'
  BY <1>1, RegisterTypes DEF AgreeInv, NumbersInv
<1>5. last \in [DOMAIN watch -> EventData]  BY TypeParts
<1>6. \A j \in DOMAIN watch : j # key => last'[j] = last[j]
  BY <1>3, <1>5
<1>7. ASSUME g \notin overlapped
      PROVE  ~Busy(g) /\ value_cache[g] = value[g] /\ Matches(watch[key].range, last'[key], value_cache[g])
  <2>1. /\ ~Busy(g) /\ last[key] = NoEvent /\ register.value = value[g] /\ value_cache[g] = value[g]
    BY <1>1, <1>7 DEF AgreeInv, KnowsInv, Registers, KnowsWhenRegistering
  <2>2. Matches(watch[key].range, last'[key], register.value)
    <3>1. CASE ShouldSend(watch[key].range, register.value, "Enter") /\ last' = [last EXCEPT ![key] = e]
      <4>1. last'[key] = e  BY <1>1, <1>5, <3>1
      <4> QED  BY <1>3, <3>1, <4>1 DEF Matches
    <3>2. CASE ~ShouldSend(watch[key].range, register.value, "Enter") /\ last' = last
      <4>1. watch[key].range # None  BY <1>1, <3>2, ConstantFacts DEF ShouldSend
      <4> QED  BY <2>1, <3>2, <4>1, ConstantFacts DEF Matches
    <3> QED  BY <1>3, <3>1, <3>2
  <2> QED  BY <2>1, <2>2
<1>8. ToldInv'
  <2> SUFFICES ASSUME Sending, NEW j \in notifier.told, notifier.getter \notin overlapped
               PROVE  j \in DOMAIN watch /\ last'[j] = last[j]
    BY <1>1 DEF AgreeInv, ToldInv, Sending
  <2>1. j \in DOMAIN watch /\ watch[j].getter = notifier.getter
    BY Types DEF AgreeInv, ToldInv, Sending
  <2>2. j # key  BY <1>7, <2>1 DEF Busy, Sending
  <2> QED  BY <1>6, <2>1, <2>2
<1>9. ASSUME NEW j \in senders, NEW x \in Getter, watch[j].getter = x, x \notin overlapped
      PROVE  (IF Registers(j) THEN KnowsWhenRegistering(j, x) ELSE KnowsWhenRegistered(j, x))'
  <2>1. ~Registers(j)'  BY <1>1 DEF Registers
  <2>2. CASE j = key
    <3>1. KnowsWhenRegistered(j, x)'
      BY <1>1, <1>2, <1>7, <1>9, <2>2 DEF KnowsWhenRegistered, Busy
    <3> QED  BY <2>1, <3>1
  <2>3. CASE j # key
    <3>1. KnowsWhenRegistered(j, x) /\ j \in DOMAIN watch
      BY <1>1, <1>9, <2>3, Types DEF AgreeInv, KnowsInv, Registers
    <3>2. KnowsWhenRegistered(j, x)'
      BY <1>1, <1>2, <1>6, <2>3, <3>1 DEF KnowsWhenRegistered, Sending
    <3> QED  BY <2>1, <3>2
  <2> QED  BY <2>2, <2>3
<1>10. KnowsInv'
  BY <1>1, <1>9 DEF KnowsInv
<1> QED  BY <1>4, <1>8, <1>10 DEF AgreeInv

LEMMA DropKeeps ==
  ASSUME Inv, NEW k \in Key, DropGuard(k)
  PROVE  Inv'
<1> USE DEF Inv
<1>1. /\ UNCHANGED <<value, notifications, getter_map, watch, value_cache, notifier, register, last, overlapped>>
      /\ senders' = senders \ {k}
  BY DEF DropGuard, library, history
<1>2. \A x : /\ (Pending(x)' <=> Pending(x)) /\ (Busy(x)' <=> Busy(x))
             /\ (Registers(x)' <=> Registers(x))
  BY <1>1 DEF Pending, Busy, Registers
<1>3. TypeOK' /\ ValuesInv' /\ NumbersInv'
  BY <1>1, DropTypes DEF AgreeInv, NumbersInv
<1>4. ToldInv'
  BY <1>1 DEF AgreeInv, ToldInv, Sending
<1>5. ASSUME NEW j \in senders, NEW x \in Getter, watch[j].getter = x, x \notin overlapped
      PROVE  (IF Registers(j) THEN KnowsWhenRegistering(j, x) ELSE KnowsWhenRegistered(j, x))'
  BY <1>1, <1>2, <1>5 DEF AgreeInv, KnowsInv, KnowsWhenRegistering, KnowsWhenRegistered, Sending
<1>6. KnowsInv'
  BY <1>1, <1>5 DEF KnowsInv
<1> QED  BY <1>3, <1>4, <1>6 DEF AgreeInv

LEMMA InitInv == Init => Inv
<1> SUFFICES ASSUME Init PROVE Inv  OBVIOUS
<1>1. /\ value = EmptyMap /\ notifications = <<>> /\ getter_map = {} /\ watch = EmptyMap
      /\ senders = {} /\ value_cache = [g \in Getter |-> None] /\ notifier = Idle
      /\ register = Idle /\ last = EmptyMap /\ overlapped = {}
  BY DEF Init
<1>2. DOMAIN value = {} /\ DOMAIN watch = {} /\ DOMAIN last = {} /\ DOMAIN notifications = {}
      /\ notifier.pc = "idle" /\ register.pc = "idle"
  BY <1>1, ConstantFacts DEF EmptyMap
<1>3. TypeOK
  BY <1>1, <1>2, TypeParts DEF NotifierData, RegisterData, EmptyMap
<1>4. NumbersInv
  <2>1. IsFiniteSet(DOMAIN watch) /\ Cardinality(DOMAIN watch) = 0  BY <1>2, FS_EmptySet
  <2>2. 0 .. 0 - 1 = {}  OBVIOUS
  <2> QED  BY <1>2, <2>1, <2>2 DEF NumbersInv
<1>5. ValuesInv /\ ToldInv /\ KnowsInv
  BY <1>1, <1>2, ConstantFacts DEF ValuesInv, Pending, Known, ToldInv, Sending, KnowsInv
<1> QED  BY <1>3, <1>4, <1>5 DEF Inv, AgreeInv

LEMMA NextKeeps == Inv /\ [Next]_vars => Inv'
<1> SUFFICES ASSUME Inv, [Next]_vars PROVE Inv'  OBVIOUS
<1>1. ASSUME NEW g \in Getter, AddValue(g) \/ ChangeValue(g) PROVE Inv'
  BY <1>1, LibraryKeeps
<1>2. ASSUME NEW g \in Getter, ValueAdded(g) \/ ReadChanged(g) PROVE Inv'
  BY <1>2, ReceiveKeeps
<1>3. CASE UpdateCache  BY <1>3, UpdateCacheKeeps
<1>4. CASE SendEvents  BY <1>4, SendEventsKeeps
<1>5. ASSUME NEW g \in Getter, NEW range \in Ranges, PushWatcher(g, range) PROVE Inv'
  BY <1>5, PushKeeps
<1>6. CASE ReadValue  BY <1>6, ReadValueKeeps
<1>7. CASE StoreValue  BY <1>7, StoreValueKeeps
<1>8. CASE SendFirst  BY <1>8, SendFirstKeeps
<1>9. ASSUME NEW k \in Key, DropGuard(k) PROVE Inv'
  BY <1>9, DropKeeps
<1>10. CASE UNCHANGED vars
  <2>1. UNCHANGED <<value, notifications, getter_map, watch, senders, value_cache, notifier,
                    register, last, overlapped>>
    BY <1>10 DEF vars, library, watchers, history
  <2>2. TypeOK'  BY <2>1 DEF Inv, TypeOK
  <2>3. \A x : /\ (Pending(x)' <=> Pending(x)) /\ (Busy(x)' <=> Busy(x))
               /\ (Known(x)' <=> Known(x)) /\ (Registers(x)' <=> Registers(x))
    BY <2>1 DEF Pending, Busy, Known, Registers
  <2>4. ValuesInv' /\ NumbersInv' /\ ToldInv'
    BY <2>1, <2>3 DEF Inv, AgreeInv, ValuesInv, NumbersInv, ToldInv, Sending
  <2>5. KnowsInv'
    BY <2>1, <2>3 DEF Inv, AgreeInv, KnowsInv, KnowsWhenRegistering, KnowsWhenRegistered, Sending
  <2> QED  BY <2>2, <2>4, <2>5 DEF Inv, AgreeInv
<1> QED
  BY <1>1, <1>2, <1>3, <1>4, <1>5, <1>6, <1>7, <1>8, <1>9, <1>10 DEF Next

LEMMA SpecInv == Spec => []Inv
  BY InitInv, NextKeeps, PTL DEF Spec

(* Both threads have what they need whatever the order of their steps: a    *)
(* value that is changed, read or cached is one of the library, a watcher   *)
(* is about a getter of the box, and a notification is not empty.           *)
THEOREM OpenZWaveTypeCorrect == Spec => []TypeOK
<1>1. Inv => TypeOK  BY DEF Inv
<1> QED  BY <1>1, SpecInv, PTL

(* Once every notification is handled and no watch is being registered,     *)
(* each watcher of a getter that did not change while one was registered    *)
(* was last sent what the value of the device calls for.                    *)
THEOREM WatchersKnowTheDevice == Spec => []WatchersAgree
<1>1. Inv => WatchersAgree
  <2> SUFFICES ASSUME Inv, NEW k \in senders, NEW g, g = watch[k].getter,
                      Settled(g), g \notin overlapped
               PROVE  Agrees(k)
    BY DEF WatchersAgree
  <2>1. g \in Getter /\ TypeOK  BY Types DEF Inv
  <2>2. ~Busy(g) /\ ~Registers(k)
    BY <2>1, ChangingIsBusy DEF Settled, Registering, Registers
  <2>3. KnowsWhenRegistered(k, g) /\ ToldInv
    BY <2>1, <2>2 DEF Inv, AgreeInv, KnowsInv
  <2>4. value_cache[g] = value[g] /\ ~(Sending /\ k \in notifier.told)
    BY <2>2, <2>3 DEF KnowsWhenRegistered, Busy, ToldInv, Sending
  <2>5. Matches(watch[k].range, last[k], value[g])
    BY <2>3, <2>4 DEF KnowsWhenRegistered
  <2> DEFINE v == value[watch[k].getter]
  <2>6. CASE watch[k].range = None  BY <2>5, <2>6 DEF Matches, Agrees
  <2>7. CASE watch[k].range # None
    <3>1. ShouldSend(watch[k].range, v, "Enter") \in BOOLEAN
      BY <2>7, Zenon DEF ShouldSend
    <3>2. (last[k].kind = "Enter") \in BOOLEAN  BY Zenon
    <3>3. last[k].kind = "Enter" <=> ShouldSend(watch[k].range, v, "Enter")
      BY <2>5, <2>7 DEF Matches
    <3>4. (last[k].kind = "Enter") = ShouldSend(watch[k].range, v, "Enter")
      BY <3>1, <3>2, <3>3, Zenon
    <3> QED  BY <2>7, <3>4, Zenon DEF Agrees
  <2> QED  BY <2>6, <2>7
<1> QED  BY <1>1, SpecInv, PTL

-----------------------------------------------------------------------------
(* The adapter keeps the promise of AdapterWatch.                          *)

(* What the promise is about, in the adapter.                               *)
Summary(k) == IF k \in DOMAIN last THEN [kind |-> last[k].kind, odd |-> last[k].odd]
              ELSE [kind |-> "none", odd |-> FALSE]
ToldOf == [k \in Key |-> Summary(k)]
ExcusedOf == {k \in DOMAIN watch : watch[k].range = None \/ watch[k].getter \in overlapped}

LEMMA TheInit == OpenZWavePromise!PromiseInit <=>
  ToldOf = [k \in Key |-> [kind |-> "none", odd |-> FALSE]] /\ ExcusedOf = {}
  BY DEF OpenZWavePromise!PromiseInit, OpenZWavePromise!Untold, ToldOf, Summary, ExcusedOf

LEMMA TheTell == \A k : OpenZWavePromise!Tell(k) <=>
  \E kind \in {"Enter", "Exit"} :
    /\ ToldOf' = [ToldOf EXCEPT ![k] = [kind |-> kind, odd |-> ~ToldOf[k].odd]]
    /\ \/ k \in ExcusedOf'
       \/ /\ kind # ToldOf[k].kind
          /\ kind = "Exit" /\ TRUE => ToldOf[k].kind = "Enter"
  BY DEF OpenZWavePromise!Tell, ToldOf, Summary, ExcusedOf

LEMMA TheStep == [OpenZWavePromise!PromiseNext]_(OpenZWavePromise!promise) <=>
  \/ /\ ExcusedOf \subseteq ExcusedOf'
     /\ ToldOf' = ToldOf \/ \E k \in Key : OpenZWavePromise!Tell(k)
  \/ ToldOf' = ToldOf /\ ExcusedOf' = ExcusedOf
  BY DEF OpenZWavePromise!PromiseNext, OpenZWavePromise!promise, ToldOf, Summary, ExcusedOf

LEMMA ToldAfterEvent ==
  ASSUME TypeOK, NEW k \in DOMAIN watch, NEW kind \in {"Enter", "Exit"}, NEW v \in Value,
         last' = [last EXCEPT ![k] = Event(kind, v, last[k])]
  PROVE  /\ ToldOf' = [ToldOf EXCEPT ![k] = [kind |-> kind, odd |-> ~ToldOf[k].odd]]
         /\ ToldOf[k].kind = last[k].kind
<1>1. last \in [DOMAIN watch -> EventData] /\ last[k] \in EventData /\ k \in Key
      /\ DOMAIN last = DOMAIN watch
  BY Types, TypeParts
<1> DEFINE e == Event(kind, v, last[k])
<1>2. e.kind = kind /\ e.odd = ~last[k].odd  BY <1>1, EventFacts
<1>3. last' = [last EXCEPT ![k] = e]  OBVIOUS
<1> HIDE DEF e
<1>4. DOMAIN last' = DOMAIN last /\ last'[k] = e /\ \A j \in DOMAIN last : j # k => last'[j] = last[j]
  BY <1>1, <1>3
<1>5. \A j \in Key : j # k => Summary(j)' = Summary(j)
  BY <1>4 DEF Summary
<1>6. ToldOf[k] = [kind |-> last[k].kind, odd |-> last[k].odd]
  BY <1>1, Zenon DEF ToldOf, Summary
<1> DEFINE old == last[k].odd
           was == last[k].kind
<1>7. ToldOf[k].kind = was /\ ToldOf[k].odd = old
  <2> HIDE DEF old, was
  <2>1. ToldOf[k] = [kind |-> was, odd |-> old]  BY <1>6 DEF old, was
  <2> QED  BY <2>1
<1>8. Summary(k)' = [kind |-> kind, odd |-> ~ToldOf[k].odd]
  <2>1. Summary(k)' = [kind |-> last'[k].kind, odd |-> last'[k].odd]
    BY <1>1, <1>4, Zenon DEF Summary
  <2>2. last'[k].kind = kind /\ last'[k].odd = ~ToldOf[k].odd
    BY <1>2, <1>4, <1>7, Zenon
  <2> QED  BY <2>1, <2>2, Zenon
<1> DEFINE row == [kind |-> kind, odd |-> ~ToldOf[k].odd]
<1>9. ToldOf' = [ToldOf EXCEPT ![k] = row]
  <2> HIDE DEF row
  <2>1. Summary(k)' = row  BY <1>8 DEF row
  <2>2. ToldOf' = [j \in Key |-> Summary(j)']  BY DEF ToldOf
  <2>3. ToldOf = [j \in Key |-> Summary(j)]  BY DEF ToldOf
  <2> QED  BY <1>1, <1>5, <2>1, <2>2, <2>3
<1> QED  BY <1>7, <1>9

(* An adapter only excuses more watchers.                                   *)
LEMMA ExcusesOnlyMore ==
  ASSUME /\ \A k \in DOMAIN watch : k \in DOMAIN watch' /\ watch'[k] = watch[k]
         /\ overlapped \subseteq overlapped'
  PROVE  ExcusedOf \subseteq ExcusedOf'
  BY DEF ExcusedOf

LEMMA StepsKeepPromise ==
  ASSUME Inv, [Next]_vars
  PROVE  [OpenZWavePromise!PromiseNext]_(OpenZWavePromise!promise)
<1> SUFFICES /\ ExcusedOf \subseteq ExcusedOf'
             /\ ToldOf' = ToldOf \/ \E k \in Key : OpenZWavePromise!Tell(k)
  BY TheStep
<1> USE DEF Inv
<1>1. ASSUME UNCHANGED <<watch, last>>, overlapped \subseteq overlapped'
      PROVE  ExcusedOf \subseteq ExcusedOf' /\ ToldOf' = ToldOf
  BY <1>1, ExcusesOnlyMore DEF ToldOf, Summary
<1>2. ASSUME NEW g \in Getter, AddValue(g) \/ ChangeValue(g) \/ ValueAdded(g) \/ ReadChanged(g)
      PROVE  UNCHANGED <<watch, last>> /\ overlapped \subseteq overlapped'
  BY <1>2 DEF AddValue, ChangeValue, ValueAdded, ReadChanged, watchers, history
<1>3. UpdateCache \/ ReadValue \/ StoreValue \/ UNCHANGED vars =>
        UNCHANGED <<watch, last>> /\ overlapped \subseteq overlapped'
  BY DEF UpdateCache, ReadValue, StoreValue, watchers, history, vars
<1>4. ASSUME NEW k \in Key, DropGuard(k)
      PROVE  UNCHANGED <<watch, last>> /\ overlapped \subseteq overlapped'
  BY <1>4 DEF DropGuard, history
<1>5. ASSUME SendEvents
      PROVE  /\ ExcusedOf \subseteq ExcusedOf'
             /\ ToldOf' = ToldOf \/ \E k \in Key : OpenZWavePromise!Tell(k)
  <2>1. UNCHANGED <<watch, overlapped>> /\ notifier.pc = "send"
    BY <1>5 DEF SendEvents, watchers
  <2>2. ExcusedOf' = ExcusedOf  BY <2>1 DEF ExcusedOf
  <2>3. PICK k \in notifier.told, new \in EventData :
          /\ last' = [last EXCEPT ![k] = new]
          /\ SendsLast(watch[k].range, notifier.value, notifier.previous, last[k], new)
    BY <1>5, SendEventsSent
  <2>4. /\ k \in DOMAIN watch /\ watch[k].range \in Ranges /\ k \in Key
        /\ last[k] \in EventData /\ last \in [DOMAIN watch -> EventData]
        /\ notifier.value \in Value /\ notifier.previous \in Value \cup {None}
    BY <2>1, Types, TypeParts
  <2>5. k \notin ExcusedOf => Matches(watch[k].range, last[k], notifier.previous) /\ watch[k].range # None
    BY <2>1, <2>4 DEF ExcusedOf, AgreeInv, ToldInv, Sending
  <2>6. CASE new = last[k]
    <3>1. last' = last  BY <2>3, <2>4, <2>6
    <3> QED  BY <1>1, <2>1, <3>1
  <2>7. CASE new # last[k]
    <3>1. PICK kind \in {"Enter", "Exit"} :
            /\ new = Event(kind, notifier.value, last[k])
            /\ Matches(watch[k].range, last[k], notifier.previous) /\ watch[k].range # None =>
                 kind # last[k].kind /\ (kind = "Exit" => last[k].kind = "Enter")
      BY <2>3, <2>4, <2>7, SentMatches
    <3>2. /\ ToldOf' = [ToldOf EXCEPT ![k] = [kind |-> kind, odd |-> ~ToldOf[k].odd]]
          /\ ToldOf[k].kind = last[k].kind
      BY <2>3, <2>4, <3>1, ToldAfterEvent
    <3>3. OpenZWavePromise!Tell(k)
      BY <2>2, <2>5, <3>1, <3>2, TheTell, Zenon
    <3> QED  BY <2>2, <2>4, <3>3
  <2> QED  BY <2>6, <2>7
<1>6. ASSUME NEW g \in Getter, NEW range \in Ranges, PushWatcher(g, range)
      PROVE  ExcusedOf \subseteq ExcusedOf' /\ ToldOf' = ToldOf
  <2>1. PICK k \in Key \ DOMAIN watch :
          /\ DOMAIN watch' = DOMAIN watch \cup {k} /\ last'[k] = NoEvent
          /\ \A j \in DOMAIN watch : watch'[j] = watch[j] /\ last'[j] = last[j]
    BY <1>6, PushTypes DEF AgreeInv
  <2>2. overlapped \subseteq overlapped'  BY <1>6 DEF PushWatcher
  <2>3. DOMAIN last = DOMAIN watch /\ DOMAIN last' = DOMAIN last \cup {k}
    <3>1. DOMAIN last = DOMAIN watch /\ last' = Put(last, Cardinality(DOMAIN watch), NoEvent)
      BY <1>6, Types DEF PushWatcher
    <3>2. TypeOK'  BY <1>6, PushTypes DEF AgreeInv
    <3>3. DOMAIN last' = DOMAIN watch'  BY <3>2, TypePartsNext
    <3> QED  BY <2>1, <3>1, <3>3
  <2>4. NoEvent.kind = "none" /\ NoEvent.odd = FALSE  BY Zenon DEF NoEvent
  <2>5. \A j \in Key : Summary(j)' = Summary(j)
    <3> TAKE j \in Key
    <3>1. CASE j \in DOMAIN last
      BY <2>1, <2>3, <3>1 DEF Summary
    <3>2. CASE j = k
      <4>1. Summary(j)' = [kind |-> last'[k].kind, odd |-> last'[k].odd]
        BY <2>3, <3>2, Zenon DEF Summary
      <4>2. Summary(j) = [kind |-> "none", odd |-> FALSE]
        BY <2>1, <2>3, <3>2, Zenon DEF Summary
      <4> QED  BY <2>1, <2>4, <4>1, <4>2, Zenon
    <3>3. CASE j \notin DOMAIN last /\ j # k
      BY <2>3, <3>3 DEF Summary
    <3> QED  BY <3>1, <3>2, <3>3
  <2>6. ToldOf' = ToldOf
    <3>1. ToldOf' = [j \in Key |-> Summary(j)']  BY DEF ToldOf
    <3> QED  BY <2>5, <3>1 DEF ToldOf
  <2> QED  BY <2>1, <2>2, <2>6, ExcusesOnlyMore
<1>7. ASSUME SendFirst
      PROVE  /\ ExcusedOf \subseteq ExcusedOf'
             /\ ToldOf' = ToldOf \/ \E k \in Key : OpenZWavePromise!Tell(k)
  <2>0. PICK k : k = register.key  OBVIOUS
  <2>1. UNCHANGED <<watch, overlapped>> /\ register.pc = "stored"
    BY <1>7 DEF SendFirst, watchers
  <2>2. ExcusedOf' = ExcusedOf  BY <2>1 DEF ExcusedOf
  <2>3. k \in senders /\ k \in DOMAIN watch /\ k \in Key /\ register.value \in Value
        /\ watch[k].getter \in Getter
    BY <2>0, <2>1, Types
  <2>4. last' = last \/ last' = [last EXCEPT ![k] = Event("Enter", register.value, last[k])]
    BY <1>7, <2>0 DEF SendFirst
  <2>5. k \notin ExcusedOf => last[k] = NoEvent
    BY <2>0, <2>1, <2>3 DEF ExcusedOf, AgreeInv, KnowsInv, Registers, KnowsWhenRegistering
  <2>6. CASE last' = last  BY <1>1, <2>1, <2>6
  <2>7. CASE last' = [last EXCEPT ![k] = Event("Enter", register.value, last[k])]
    <3>1. /\ ToldOf' = [ToldOf EXCEPT ![k] = [kind |-> "Enter", odd |-> ~ToldOf[k].odd]]
          /\ ToldOf[k].kind = last[k].kind
      BY <2>3, <2>7, ToldAfterEvent
    <3>2. k \notin ExcusedOf => ToldOf[k].kind # "Enter"
      BY <2>5, <3>1, ConstantFacts
    <3>3. \E kind \in {"Enter", "Exit"} :
            /\ ToldOf' = [ToldOf EXCEPT ![k] = [kind |-> kind, odd |-> ~ToldOf[k].odd]]
            /\ \/ k \in ExcusedOf'
               \/ /\ kind # ToldOf[k].kind
                  /\ kind = "Exit" /\ TRUE => ToldOf[k].kind = "Enter"
      <4> WITNESS "Enter" \in {"Enter", "Exit"}
      <4> QED  BY <2>2, <3>1, <3>2
    <3>4. OpenZWavePromise!Tell(k)  BY <3>3, TheTell, Zenon
    <3> QED  BY <2>2, <2>3, <3>4
  <2> QED  BY <2>4, <2>6, <2>7
<1> QED
  BY <1>1, <1>2, <1>3, <1>4, <1>5, <1>6, <1>7 DEF Next

(* Enter and Exit alternate, Enter first, for every watcher with a range on *)
(* a getter that never changed while a watch was being registered on it.    *)
THEOREM PromiseIsKept == Spec => OpenZWaveKeepsPromise
<1>1. Init => OpenZWavePromise!PromiseInit
  <2> SUFFICES ASSUME Init
               PROVE  ToldOf = [k \in Key |-> [kind |-> "none", odd |-> FALSE]] /\ ExcusedOf = {}
    BY TheInit
  <2>1. DOMAIN last = {} /\ DOMAIN watch = {}  BY DEF Init, EmptyMap
  <2>2. \A k \in Key : Summary(k) = [kind |-> "none", odd |-> FALSE]
    BY <2>1, Zenon DEF Summary
  <2> QED  BY <2>1, <2>2 DEF ToldOf, ExcusedOf
<1>2. Inv /\ [Next]_vars => [OpenZWavePromise!PromiseNext]_(OpenZWavePromise!promise)
  BY StepsKeepPromise
<1> QED
  BY <1>1, <1>2, SpecInv, PTL DEF Spec, OpenZWaveKeepsPromise, OpenZWavePromise!Promise
=============================================================================
