-------------------------------- MODULE Watch --------------------------------
(***************************************************************************)
(* The watch protocol of the taxonomy: `watch_values`, the WatchGuard it   *)
(* returns, the registration of new or newly tagged getters with the       *)
(* watchers they match, and the background thread that talks to the        *)
(* adapters (components/taxonomy/src/backend.rs and manager.rs).           *)
(*                                                                         *)
(* The operations of the registry keep their meaning; here each of them    *)
(* also has its effect on the watchers.  An operation holds the write lock *)
(* only while it updates the maps: the list of <<getter, watcher>> pairs   *)
(* that it finds is sent afterwards to the background thread, which calls  *)
(* the adapters WITHOUT the lock, takes the lock again to store the guards *)
(* they returned, and only then answers the blocked caller.  Each of these *)
(* steps is an action, so the other threads may run between any two.       *)
(*                                                                         *)
(* A Weak<WatcherData> can be upgraded exactly as long as the WatchMap has *)
(* the watcher.  A failed `log_debug_assert!` panics in every build, under *)
(* the write lock: the lock is poisoned and every later `write().unwrap()` *)
(* panics in turn.  `debug_assert!` is recorded and has no other effect,   *)
(* as in a release build.                                                  *)
(***************************************************************************)
EXTENDS Registry, Sequences, FiniteSets

CONSTANTS
  Thread,      \* threads that call the manager
  TargetMaps,  \* the arguments `watch_values` is called with
  MaxWatches   \* bound on the number of calls to `watch_values`

(* A target map is a set of targets, each with a set of selectors and a    *)
(* payload: "Never" watches topology only, "Always" (which stands for      *)
(* Exactly(range) as well) also watches values.  Of a selector, `ids` are  *)
(* the getters that pass its criteria on the id and the kind, which do not *)
(* change; `parents` the services it accepts; the tags are those required. *)
GetterSelector == [ids : SUBSET GetterId, parents : SUBSET ServiceId,
                   tags : SUBSET TagId, service_tags : SUBSET TagId]
Targetted == [select : SUBSET GetterSelector, payload : {"Always", "Never"}]

ASSUME WatchAssumption ==
  /\ TargetMaps \subseteq SUBSET Targetted
  /\ MaxWatches \in Nat

WatchKey == 0 .. MaxWatches - 1
NoKey == MaxWatches
Item == GetterId \X WatchKey

VARIABLES
  getter_watchers,  \* getter -> keys of the watchers attached to it (GetterData.watchers)
  watch_counter,    \* the next WatchKey
  watchers,         \* WatchMap: key -> [watch, guards], guards counting adapter guards per getter
  guard,            \* key -> state of the WatchGuard: "none", "held", "dropping", "gone"
  caller,           \* thread -> where it is in `register_watches`
  watch_queue,      \* the channel to the background thread
  handler,          \* the background thread
  failed_asserts,   \* assertions that failed
  (* History, read by no action:                                           *)
  view,             \* key -> getters the listener has reason to believe it watches
  refused           \* items the adapter refused with an InitializationError

watchState == <<getter_watchers, watch_counter, watchers, guard, failed_asserts, view, refused>>
channelState == <<caller, watch_queue, handler>>
watchVars == <<registryVars, watchState, channelState>>

Idle == [pc |-> "idle", request |-> {}, key |-> NoKey]
IdleHandler == [pc |-> "idle", todo |-> {}, to_add |-> {}, reply |-> {}]

WatchInit ==
  /\ Init
  /\ getter_watchers = EmptyMap
  /\ watch_counter = 0
  /\ watchers = EmptyMap
  /\ guard = EmptyMap
  /\ caller = [t \in Thread |-> Idle]
  /\ watch_queue = <<>>
  /\ handler = IdleHandler
  /\ failed_asserts = {}
  /\ view = EmptyMap
  /\ refused = {}

Poisoned == "already_watching" \in failed_asserts
IsDropped(k) == guard[k] \in {"dropping", "gone"}

-----------------------------------------------------------------------------
(* `GetterSelector::matches`, for the getter g of the map getters.          *)
Matches(selector, g, getters, services) ==
  LET channel == getters[g]
  IN /\ g \in selector.ids
     /\ channel.service \in selector.parents
     /\ selector.tags \subseteq channel.tags
     /\ selector.service_tags \subseteq services[channel.service].tags

(* The targets of a watch of which any selector matches g.                 *)
MatchingTargets(watch, g, getters, services) ==
  {target \in watch : \E selector \in target.select : Matches(selector, g, getters, services)}

Watches(targets) == \E target \in targets : target.payload # "Never"

-----------------------------------------------------------------------------
(* `register_watches`: a non-empty request is sent to the background       *)
(* thread, and the caller blocks until it answers.                         *)

RegisterWatches(t, request, key) ==
  caller' = [caller EXCEPT ![t] = IF request = {} THEN Idle
                                  ELSE [pc |-> "send", request |-> request, key |-> key]]

(* Callers of ts return from `register_watches`; those of `watch_values`   *)
(* make a WatchGuard, even when the background thread has died.            *)
Return(ts) ==
  LET keys == {caller[t].key : t \in ts} \ {NoKey}
  IN guard' = [k \in DOMAIN guard |-> IF k \in keys THEN "held" ELSE guard[k]]

SendStart(t) ==
  /\ caller[t].pc = "send"
  /\ IF handler.pc = "dead"
     THEN /\ caller' = [caller EXCEPT ![t] = Idle]
          /\ Return({t})
          /\ UNCHANGED watch_queue
     ELSE /\ caller' = [caller EXCEPT ![t].pc = "wait"]
          /\ watch_queue' = Append(watch_queue,
               [op |-> "Start", request |-> caller[t].request, reply |-> {t}, key |-> NoKey])
          /\ UNCHANGED guard
  /\ UNCHANGED <<registryVars, getter_watchers, watch_counter, watchers,
                 failed_asserts, view, refused, handler>>

-----------------------------------------------------------------------------
(* The effects of the registry's operations on the watchers.  They are     *)
(* evaluated after the maps have changed, hence the primes.                *)

(* Mutant: the watcher is attached, but no GetterAdded is sent.             *)
MayNeedRegistrationUnannounced(t, gs) ==
  LET attached(g) == IF g \in DOMAIN getter_watchers THEN getter_watchers[g] ELSE {}
      targets(g, k) == MatchingTargets(watchers[k].watch, g, getter_by_id', service_by_id')
      found == {i \in gs \X DOMAIN watchers :
                  /\ i[1] \notin DOMAIN watchers[i[2]].guards
                  /\ ~IsDropped(i[2])
                  /\ targets(i[1], i[2]) # {}}
  IN /\ getter_watchers' = [g \in DOMAIN getter_by_id' |->
                              attached(g) \cup {i[2] : i \in {j \in found : j[1] = g}}]
     /\ RegisterWatches(t, {i \in found : Watches(targets(i[1], i[2]))}, NoKey)
     /\ UNCHANGED <<watch_counter, watchers, guard, refused, watch_queue, handler,
                    failed_asserts, view>>

(* `aux_getters_may_need_registration` for the getters gs, by thread t,    *)
(* and `aux_start_channel_watch` for each watcher found.  Watchers that    *)
(* hold a guard for the getter, or are dropped, are skipped.  Attaching a  *)
(* watcher twice to a getter is the failed assertion of backend.rs:1129.   *)
MayNeedRegistration(t, gs) ==
  LET attached(g) == IF g \in DOMAIN getter_watchers THEN getter_watchers[g] ELSE {}
      targets(g, k) == MatchingTargets(watchers[k].watch, g, getter_by_id', service_by_id')
      found == {i \in gs \X DOMAIN watchers :
                  /\ i[1] \notin DOMAIN watchers[i[2]].guards
                  /\ ~IsDropped(i[2])
                  /\ targets(i[1], i[2]) # {}}
      twice == \E i \in found : i[2] \in attached(i[1]) \/ Cardinality(targets(i[1], i[2])) > 1
  IN /\ getter_watchers' = [g \in DOMAIN getter_by_id' |->
                              attached(g) \cup {i[2] : i \in {j \in found : j[1] = g}}]
     /\ view' = [k \in DOMAIN view |-> view[k] \cup {i[1] : i \in {j \in found : j[2] = k}}]
     /\ IF twice
        THEN /\ failed_asserts' = failed_asserts \cup {"already_watching"}
             /\ caller' = [caller EXCEPT ![t] = [Idle EXCEPT !.pc = "dead"]]
        ELSE /\ RegisterWatches(t, {i \in found : Watches(targets(i[1], i[2]))}, NoKey)
             /\ UNCHANGED failed_asserts
     /\ UNCHANGED <<watch_counter, watchers, guard, refused, watch_queue, handler>>

(* (History.)  A refusal matters as long as the watcher stays attached.     *)
Attached(k, g) == g \in DOMAIN getter_watchers /\ k \in getter_watchers[g]
ForgetRefused == refused' = {i \in refused : Attached(i[2], i[1])'}

(* `aux_getter_may_need_unregistration` for the getters gs: a watcher is   *)
(* disconnected, with a GetterRemoved and without its guard, as soon as    *)
(* ONE selector of its targets does not match the getter any more.  The    *)
(* keys of watchers that are gone are dropped; those of watchers whose     *)
(* WatchGuard is dropped are kept.                                         *)
MayNeedUnregistration(gs, is_being_removed) ==
  LET gone(g) == {k \in getter_watchers[g] : k \notin DOMAIN watchers}
      disconnected(g) == {k \in getter_watchers[g] \ gone(g) :
         /\ ~IsDropped(k)
         /\ \/ is_being_removed
            \/ \E target \in watchers[k].watch : \E selector \in target.select :
                 ~Matches(selector, g, getter_by_id', service_by_id')}
      left(k) == {g \in gs : k \in disconnected(g)}
  IN /\ getter_watchers' = [g \in DOMAIN getter_by_id' |->
          IF g \in gs THEN getter_watchers[g] \ (gone(g) \cup disconnected(g))
                      ELSE getter_watchers[g]]
     /\ watchers' = [k \in DOMAIN watchers |->
          [watchers[k] EXCEPT !.guards = Drop(@, left(k))]]
     /\ view' = [k \in DOMAIN view |-> view[k] \ left(k)]
     /\ ForgetRefused
     /\ UNCHANGED <<watch_counter, guard, failed_asserts, channelState>>

(* An operation that does not look at the watchers: the getters that are   *)
(* removed take their lists of watchers with them, and nothing else.       *)
Unwatched ==
  /\ getter_watchers' = [g \in DOMAIN getter_by_id' |-> getter_watchers[g]]
  /\ ForgetRefused
  /\ UNCHANGED <<watch_counter, watchers, guard, failed_asserts, view, channelState>>

-----------------------------------------------------------------------------
(* The manager's operations on the registry, under the write lock.         *)

AddGetterAndWatch(t, g, s, a, tags, readable) ==
  /\ ~Poisoned
  /\ caller[t].pc = "idle"
  /\ AddGetter(g, s, a, tags, readable)
  /\ MayNeedRegistration(t, {g})

AddGetterTagsAndWatch(t, gs, tags) ==
  /\ ~Poisoned
  /\ caller[t].pc = "idle"
  /\ AddGetterTags(gs, tags)
  /\ MayNeedRegistration(t, TagsInserted(getter_by_id, gs, tags))

RemoveGetterAndUnwatch(g) ==
  /\ ~Poisoned
  /\ RemoveGetter(g)
  /\ MayNeedUnregistration({g}, TRUE)

RemoveGetterTagsAndUnwatch(gs, tags) ==
  /\ ~Poisoned
  /\ RemoveGetterTags(gs, tags)
  /\ MayNeedUnregistration(gs, FALSE)

(* The operations on adapters, services and setters; the watchers are not  *)
(* told of the getters a service takes away, nor of its tags.              *)
OtherRegistryOperation ==
  /\ ~Poisoned
  /\ \/ \E a \in AdapterId : AddAdapter(a) \/ RemoveAdapter(a)
     \/ \E s \in ServiceId, a \in AdapterId, tags \in SUBSET TagId : AddService(s, a, tags)
     \/ \E s \in ServiceId : RemoveService(s)
     \/ \E s \in ServiceId, a \in AdapterId, tags \in SUBSET TagId, t \in SetterId,
           readable \in BOOLEAN : AddSetter(t, s, a, tags, readable)
     \/ \E t \in SetterId : RemoveSetter(t)
     \/ \E tags \in SUBSET TagId, ss \in SUBSET ServiceId :
          AddServiceTags(ss, tags) \/ RemoveServiceTags(ss, tags)
     \/ \E tags \in SUBSET TagId, ts \in SUBSET SetterId :
          AddSetterTags(ts, tags) \/ RemoveSetterTags(ts, tags)
  /\ Unwatched

(* `AdapterManager::stop`.                                                 *)
StopManager ==
  /\ ~Poisoned
  /\ Stop
  /\ getter_watchers' = EmptyMap
  /\ watchers' = EmptyMap
  /\ refused' = {}
  /\ UNCHANGED <<watch_counter, guard, failed_asserts, view, channelState>>

-----------------------------------------------------------------------------
(* `watch_values` under the lock (`prepare_channel_watch`): a new watcher  *)
(* is attached to every getter that matches.  No event is sent for these.  *)
(* A getter that matches two targets is attached twice, and that fails.    *)
WatchValues(t, watch) ==
  LET k == watch_counter
      targets(g) == MatchingTargets(watch, g, getter_by_id, service_by_id)
      found == {g \in DOMAIN getter_by_id : targets(g) # {}}
      twice == \E g \in found : Cardinality(targets(g)) > 1
      request == {g \in found : Watches(targets(g))} \X {k}
  IN /\ ~Poisoned
     /\ caller[t].pc = "idle"
     /\ k \in WatchKey
     /\ watch_counter' = k + 1
     /\ watchers' = Put(watchers, k, [watch |-> watch, guards |-> EmptyMap])
     /\ getter_watchers' = [g \in DOMAIN getter_by_id |->
          IF g \in found THEN getter_watchers[g] \cup {k} ELSE getter_watchers[g]]
     /\ view' = Put(view, k, found)
     /\ IF twice
        THEN /\ failed_asserts' = failed_asserts \cup {"already_watching"}
             /\ caller' = [caller EXCEPT ![t] = [Idle EXCEPT !.pc = "dead"]]
             /\ guard' = Put(guard, k, "none")
        ELSE /\ RegisterWatches(t, request, k)
             /\ guard' = Put(guard, k, IF request = {} THEN "held" ELSE "none")
             /\ UNCHANGED failed_asserts
     /\ UNCHANGED <<registryVars, refused, watch_queue, handler>>

(* `WatchGuard::drop`, in two steps: the flag, then the message.           *)
DropGuard(k) ==
  /\ guard[k] = "held"
  /\ guard' = [guard EXCEPT ![k] = "dropping"]
  /\ UNCHANGED <<registryVars, getter_watchers, watch_counter, watchers,
                 failed_asserts, view, refused, channelState>>

(* Mutant: dropping the WatchGuard sets the flag, and sends nothing.        *)
SendReleaseNothing(k) ==
  /\ guard[k] = "dropping"
  /\ guard' = [guard EXCEPT ![k] = "gone"]
  /\ UNCHANGED <<registryVars, getter_watchers, watch_counter, watchers,
                 failed_asserts, view, refused, channelState>>

SendRelease(k) ==
  /\ guard[k] = "dropping"
  /\ guard' = [guard EXCEPT ![k] = "gone"]
  /\ watch_queue' = IF handler.pc = "dead" THEN watch_queue
                    ELSE Append(watch_queue,
                           [op |-> "Release", request |-> {}, reply |-> {}, key |-> k])
  /\ UNCHANGED <<registryVars, getter_watchers, watch_counter, watchers,
                 failed_asserts, view, refused, caller, handler>>

-----------------------------------------------------------------------------
(* The background thread (`handle_watches`), serving its channel in order. *)

(* Mutant: the callers that wait are not released.                          *)
DieSilently ==
  /\ handler' = [IdleHandler EXCEPT !.pc = "dead"]
  /\ watch_queue' = <<>>
  /\ UNCHANGED <<registryVars, watchState, caller>>

(* The thread panics on the poisoned lock.  Its channel goes with it, and  *)
(* whoever waits for an answer gets an error, which it ignores.            *)
Die ==
  LET waiting == {t \in Thread : caller[t].pc = "wait"}
  IN /\ handler' = [IdleHandler EXCEPT !.pc = "dead"]
     /\ watch_queue' = <<>>
     /\ caller' = [t \in Thread |-> IF t \in waiting THEN Idle ELSE caller[t]]
     /\ Return(waiting)
     /\ UNCHANGED <<registryVars, getter_watchers, watch_counter, watchers,
                    failed_asserts, view, refused>>

(* Mutant: the sender of the answer is lost.                                *)
ReceiveStartWithoutReply ==
  /\ handler.pc = "idle"
  /\ watch_queue # <<>>
  /\ Head(watch_queue).op = "Start"
  /\ handler' = [IdleHandler EXCEPT !.pc = "start", !.todo = Head(watch_queue).request]
  /\ watch_queue' = Tail(watch_queue)
  /\ UNCHANGED <<registryVars, watchState, caller>>

ReceiveStart ==
  /\ handler.pc = "idle"
  /\ watch_queue # <<>>
  /\ Head(watch_queue).op = "Start"
  /\ handler' = [pc |-> "start", todo |-> Head(watch_queue).request, to_add |-> {},
                 reply |-> Head(watch_queue).reply]
  /\ watch_queue' = Tail(watch_queue)
  /\ UNCHANGED <<registryVars, watchState, caller>>

(* `start_watch`, one item at a time, without any lock: skip it if the     *)
(* watcher is gone or its WatchGuard dropped; otherwise the adapter        *)
(* accepts, and returns a guard, or refuses.                               *)
StartItem(i) ==
  /\ handler.pc = "start"
  /\ i \in handler.todo
  /\ \/ /\ i[2] \notin DOMAIN watchers \/ IsDropped(i[2])
        /\ handler' = [handler EXCEPT !.todo = @ \ {i}]
        /\ UNCHANGED refused
     \/ /\ i[2] \in DOMAIN watchers /\ ~IsDropped(i[2])
        /\ \/ /\ handler' = [handler EXCEPT !.todo = @ \ {i}, !.to_add = @ \cup {i}]
              /\ UNCHANGED refused
           \/ /\ handler' = [handler EXCEPT !.todo = @ \ {i}]
              /\ refused' = IF Attached(i[2], i[1]) THEN refused \cup {i} ELSE refused
  /\ UNCHANGED <<registryVars, getter_watchers, watch_counter, watchers, guard,
                 failed_asserts, view, caller, watch_queue>>

(* Mutant: the guard is pushed only where a list exists.                    *)
PushToExisting(guards, gs) ==
  [g \in DOMAIN guards |-> guards[g] + (IF g \in gs THEN 1 ELSE 0)]

(* `push_guard` for each getter of gs.                                      *)
PushGuard(guards, gs) ==
  [g \in DOMAIN guards \cup gs |->
     (IF g \in DOMAIN guards THEN guards[g] ELSE 0) + (IF g \in gs THEN 1 ELSE 0)]

(* `register_ongoing_watch` under the lock, then the answer to the caller. *)
(* The guards of a watcher that is gone are dropped.                       *)
RegisterOngoingWatch ==
  /\ handler.pc = "start"
  /\ handler.todo = {}
  /\ ~Poisoned
  /\ watchers' = [k \in DOMAIN watchers |-> [watchers[k] EXCEPT !.guards =
       PushGuard(@, {i[1] : i \in {j \in handler.to_add : j[2] = k}})]]
  /\ caller' = [t \in Thread |-> IF t \in handler.reply THEN Idle ELSE caller[t]]
  /\ Return(handler.reply)
  /\ handler' = IdleHandler
  /\ UNCHANGED <<registryVars, getter_watchers, watch_counter,
                 failed_asserts, view, refused, watch_queue>>

(* `stop_watch`: the watcher leaves the WatchMap, and the getters for      *)
(* which it holds a guard.  A getter that is gone is skipped; one that     *)
(* does not know the watcher is the failed assertion of backend.rs:1221.   *)
StopWatch(k) ==
  LET guarded == DOMAIN watchers[k].guards \cap DOMAIN getter_by_id
  IN IF k \notin DOMAIN watchers
     THEN UNCHANGED <<getter_watchers, watchers, failed_asserts>>
     ELSE /\ watchers' = Drop(watchers, {k})
          /\ getter_watchers' = [g \in DOMAIN getter_watchers |->
               IF g \in guarded THEN getter_watchers[g] \ {k} ELSE getter_watchers[g]]
          /\ failed_asserts' = failed_asserts \cup
               (IF \E g \in guarded : k \notin getter_watchers[g] THEN {"not_watching"} ELSE {})

ReceiveRelease ==
  /\ handler.pc = "idle"
  /\ watch_queue # <<>>
  /\ Head(watch_queue).op = "Release"
  /\ ~Poisoned
  /\ StopWatch(Head(watch_queue).key)
  /\ watch_queue' = Tail(watch_queue)
  /\ UNCHANGED <<registryVars, watch_counter, guard, view, refused, caller, handler>>

(* The two points where the background thread takes the lock.              *)
HandlerPanics ==
  /\ Poisoned
  /\ \/ handler.pc = "start" /\ handler.todo = {}
     \/ handler.pc = "idle" /\ watch_queue # <<>> /\ Head(watch_queue).op = "Release"
  /\ Die

Handler ==
  \/ ReceiveStart
  \/ \E i \in Item : StartItem(i)
  \/ RegisterOngoingWatch
  \/ ReceiveRelease
  \/ HandlerPanics

-----------------------------------------------------------------------------
ThreadStep(t) ==
  \/ \E s \in ServiceId, a \in AdapterId, tags \in SUBSET TagId, readable \in BOOLEAN,
        g \in GetterId : AddGetterAndWatch(t, g, s, a, tags, readable)
  \/ \E tags \in SUBSET TagId, gs \in SUBSET GetterId : AddGetterTagsAndWatch(t, gs, tags)
  \/ \E watch \in TargetMaps : WatchValues(t, watch)
  \/ SendStart(t)

WatchNext ==
  \/ \E t \in Thread : ThreadStep(t)
  \/ \E g \in GetterId : RemoveGetterAndUnwatch(g)
  \/ \E tags \in SUBSET TagId, gs \in SUBSET GetterId : RemoveGetterTagsAndUnwatch(gs, tags)
  \/ OtherRegistryOperation
  \/ StopManager
  \/ \E k \in DOMAIN guard : DropGuard(k) \/ SendRelease(k)
  \/ Handler

WatchSpec == WatchInit /\ [][WatchNext]_watchVars

(* The background thread runs on; a thread that has something to send      *)
(* sends it.  Nobody is obliged to call the manager or to drop a guard.    *)
Fairness ==
  /\ WF_watchVars(Handler)
  /\ \A t \in Thread : WF_watchVars(SendStart(t))
  /\ \A k \in WatchKey : WF_watchVars(k \in DOMAIN guard /\ SendRelease(k))

FairWatchSpec == WatchSpec /\ Fairness

-----------------------------------------------------------------------------
(* Types: in particular every registered getter has a list of watchers,    *)
(* and every key handed out a WatchGuard state and a listener.             *)
WatchTypeOK ==
  /\ getter_watchers \in [DOMAIN getter_by_id -> SUBSET WatchKey]
  /\ watch_counter \in 0..MaxWatches
  /\ DOMAIN watchers \subseteq 0 .. watch_counter - 1
  /\ \A k \in DOMAIN watchers :
       /\ DOMAIN watchers[k] = {"watch", "guards"}
       /\ watchers[k].watch \in TargetMaps
       /\ IsMap(watchers[k].guards, GetterId, Nat \ {0})
  /\ guard \in [0 .. watch_counter - 1 -> {"none", "held", "dropping", "gone"}]
  /\ caller \in [Thread -> [pc : {"idle", "send", "wait", "dead"},
                            request : SUBSET Item, key : WatchKey \cup {NoKey}]]
  /\ watch_queue \in Seq([op : {"Start", "Release"}, request : SUBSET Item,
                          reply : SUBSET Thread, key : WatchKey \cup {NoKey}])
  /\ handler \in [pc : {"idle", "start", "dead"}, todo : SUBSET Item,
                  to_add : SUBSET Item, reply : SUBSET Thread]
  /\ failed_asserts \subseteq {"already_watching", "not_watching"}
  /\ view \in [0 .. watch_counter - 1 -> SUBSET GetterId]
  /\ refused \subseteq Item

Live(k) == k \in DOMAIN watchers /\ ~IsDropped(k)

(* The items on their way to an adapter or back from it.                   *)
PendingItems ==
  (UNION {caller[t].request : t \in {u \in Thread : caller[u].pc = "send"}})
    \cup (UNION {watch_queue[n].request : n \in DOMAIN watch_queue})
    \cup handler.todo \cup handler.to_add

WatchesValues(k) == \A target \in watchers[k].watch : target.payload # "Never"

(* A getter that a value watcher is attached to is never forgotten on the  *)
(* way: its adapter has been asked, or is about to be, or has refused.     *)
(* Tags, guards and services may change between any two steps.             *)
NoLostRegistration ==
  ~Poisoned => \A g \in GetterId, k \in WatchKey :
    Live(k) /\ Attached(k, g) /\ WatchesValues(k)
      => \/ <<g, k>> \in PendingItems \cup refused
         \/ g \in DOMAIN watchers[k].guards

(* A listener is told of every getter attached to its watcher after the    *)
(* call of watch_values, before it can receive a value of that getter, and *)
(* not told that it left as long as it stays.  All that the watches hold is *)
(* of its type.                                                             *)
AttachedKnown ==
  /\ WatchTypeOK
  /\ \A g \in GetterId, k \in WatchKey : Live(k) /\ Attached(k, g) => g \in view[k]

(* A blocked caller is served by exactly one request, queued or in         *)
(* progress, and no request outlives its caller's wait.                    *)
WaitingServed ==
  \A t \in Thread :
    LET queued == {n \in DOMAIN watch_queue : t \in watch_queue[n].reply}
    IN IF caller[t].pc = "wait"
       THEN IF t \in handler.reply THEN queued = {} ELSE Cardinality(queued) = 1
       ELSE queued = {} /\ t \notin handler.reply

(* Every call that must register watches returns, even when the background *)
(* thread dies.                                                            *)
CallersReturn ==
  \A t \in Thread : caller[t].pc \in {"send", "wait"} ~> caller[t].pc = "idle"

(* Once its WatchGuard is dropped, a watcher eventually leaves the system  *)
(* and with it the guards of the adapters, unless an assertion failed.     *)
DroppedReleased ==
  \A k \in WatchKey :
    (k \in DOMAIN guard /\ IsDropped(k))
      ~> (Poisoned \/ (k \notin DOMAIN watchers /\ \A i \in handler.to_add : i[2] # k))

-----------------------------------------------------------------------------
(* What the code says, and does not do: see the README.                     *)

(* "This watcher is already watching this getter" (backend.rs:1129) is     *)
(* asserted never to happen.                                               *)
NeverAlreadyWatching == "already_watching" \notin failed_asserts

(* GetterRemoved says that "the set of devices being watched has changed,  *)
(* typically either because a tag was edited or because a device was       *)
(* removed" (api.rs:158): a listener never goes on believing that it       *)
(* watches a getter that is gone.                                          *)
RemovalsTold == \A k \in WatchKey : Live(k) => view[k] \subseteq DOMAIN getter_by_id
=============================================================================
