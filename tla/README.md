# A TLA+ model of Foxbox

Foxbox is the software of a home gateway, written in Rust. *Adapters* talk to
devices and describe them to a central *manager* as services with getters and
setters; users and programs read, set and watch these channels through the
manager; and *Thinkerbell*, itself an adapter, runs small rule scripts over
them. This directory holds TLA+ modules of the parts that keep state and run
concurrently, the TLC configurations that check them on small instances, and
theorems checked by TLAPS.

`tlc -config X.cfg M` checks a run, `tlapm M.tla` the proofs of a module whose name
ends in `Proofs`, of which there are eight. Runs, mutants, the map from
definitions to lines of the source, hazards and findings are listed in
`PROJECT.json`. Paths below are relative to `src/`.

## 1. The system

| Component | State | Operations | Hard parts |
|---|---|---|---|
| Registry (`components/taxonomy/src/backend.rs`, `State`) | maps of adapters, services, getters, setters, under one lock | add, remove, tag, stop | four maps that refer to each other; insertions undone on failure (`transact.rs`) |
| Tag storage (`tag_storage.rs`) | SQLite rows (id, tag) | add, remove, read | each row is a statement of its own; failures are ignored or logged |
| Watches (`backend.rs`, `manager.rs`) | `WatchMap`, the watchers of each getter, adapter guards, a channel | `watch_values`, `WatchGuard::drop`, reexamination after each change of a getter | adapters are called by a background thread without the lock; callers block on it; failed assertions poison the lock |
| Fetch and send (`manager.rs`) | the requests of a call | `fetch_values`, `send_values` | grouping by adapter; results paired with types by position; channels that go while adapters are asked |
| Selectors (`selector.rs`, `util.rs`) | immutable | `with_*`, `and`, `matches`, parsing | selectors inside selectors |
| Values (`values.rs`, `services.rs`, `parse.rs`, `api.rs`) | immutable | comparison, ranges, JSON | values of one type that do not compare; numbers that JSON does not keep |
| Rule execution (`components/thinkerbell/src/run.rs`) | per condition, per match and per getter: met or not; a timer per rule; a channel | events of watches, timers, stop | changes are posted to the tail of the channel before they take effect; records updated incrementally |
| Script manager (`components/thinkerbell/src/manager.rs`) | SQLite rows of scripts; running executions | put, set_enabled, remove, remove_all, load | each method is several fallible steps; crash between any two |
| Thinkerbell adapter (`src/adapters/thinkerbell/mod.rs`) | channel of its main loop, the rules presented as services | setters of rules | the loop posts to itself, waits for executions that may wait for it |
| OpenZWave adapter (`components/openzwave-adapter/`) | watchers, cache of values | notifications, `register_watch` | two threads and a cache shared by all watchers |
| Managed processes, tunnel (`src/managed_process.rs`) | pid, kill flag | start, shutdown | waitpid on both sides, numbers used again, backoff |
| Configuration (`src/config_store.rs`) | map in memory, file, overrides | get, set, save, load | write, copy and remove of files; crash in between |
| Philips Hue adapter (`src/adapters/philips_hue/`) | hubs, lights, a HubApi per hub under a mutex, a channel | discovery, pairing, adding of hubs and lights | a thread per hub; a token given, saved and used in three steps; panics under the mutex |
| Certificates, registration (`components/tls/`, `src/registration.rs`) | map of certificates, directory, contexts | generate, install, reload, register | files written in place by several steps; any failure ends the thread |
| Clock (`src/adapters/clock/`) | timers and guards | `fetch_values`, `register_watch` | a watch is dates computed once; timers late or together |
| IP cameras, UPnP (`src/adapters/ip_camera/`, `src/upnp.rs`) | cameras, listeners under a mutex, files of snapshots | advertisements, snapshots | a thread per advertisement, panics under the mutex, names looked up before files are made |
| WebPush (`src/adapters/webpush/`) | SQLite rows of resources and subscriptions | set, get, notify | a connection per call, a statement at a time, no transaction |
| HTTP, WebSocket, controller, iron-fork, UI | none, or third-party | | |

How they interact. Adapters call the manager (`add_service`, `add_getter`,
tags); the manager calls the adapters (`fetch_values`, `send_values`,
`register_watch`) outside its lock, and holds an `AdapterWatchGuard` per
registration; events go to the listener of a watch through channels, without the
manager. An execution of a script is such a listener, in a thread of its own;
its statements call `send_values`, which may lead back to the Thinkerbell
adapter. Users reach the manager over HTTP. The Hue adapter keeps the tokens of
its bridges in the configuration. The main thread starts the tunnel and the
registrar, and stops the tunnel when the box shuts down.

What makes each component correct:

- *Registry*: the four maps never contradict each other (on a contradiction
  later calls panic with the write lock held); memory and store agree on tags.
- *Watches*: a getter that a watcher is attached to is never forgotten between
  the lock and the adapter; callers return; dropped watches disappear; a
  listener knows what it listens to.
- *Rule execution*: records agree with the events received and, when all is
  quiet, with the devices; a rule executes on the edge, once; stop stops.
- *Script manager*: rows and executions agree whatever fails; what was removed
  stays removed; a restart runs what is enabled.
- *Thinkerbell adapter*: every request is answered once; services are those of
  the stored scripts.
- *Managed process*: nothing runs after a shutdown, and a shutdown ends.
- *Configuration, Hue*: what was set is there after a restart, so that nobody has
  to pair twice; no message about a hub that is not known.
- *Fetch and send*: who asked gets one result for each channel, the adapter's own
  unless the type is wrong, and no adapter gets a value of the wrong type.
- *Selectors, values*: a selector accepts what meets all its conditions; a range
  accepts what it is documented to, wherever it has travelled.
- *Clock, OpenZWave*: Enter and Exit alternate and say where the value is.
- *Cameras*: a camera that is presented answers; a snapshot reported as taken is kept.
- *WebPush*: a message goes to those who asked for its resource.
- *Certificates*: the box keeps the identity it registered and serves its names.

## 2. Modules

`HashMap` holds the operators on maps (partial functions: `Put`, `Drop`,
`IsMap`). The community module `Functions` has no deletion, which every module
needs.

### Registry
The state of `State`: `adapter_by_id` (adapter to its services), `service_by_id`
(service to adapter, getters, setters, tags), `getter_by_id` and `setter_by_id`
(channel to service, adapter, tags), and `db`, the rows of the tag storage. One
action per method of `State`, atomic because each holds the write lock. The
transaction of an insertion is rolled back when it is dropped before `commit`:
an action either does everything or changes nothing, and the failing branches
are those of the code. Services and channels share the namespace of the store,
as their ids do. `Persistent` says whether a database is configured, and
`MaxStoreFailures` bounds the statements that fail; each row is a statement.
`Restart` empties the memory and keeps the store. `given` and `lost` are history
variables: the rows that the adapter supplied, and those that a failed statement
left different from the memory. A tag (`TagId`) is a word and a count of quotes: the
columns of a row are written with their quotes doubled, although they are bound
parameters, and read back as they are (`Escape`, `GetTagsFor`; `tag_storage.rs:13-16`,
82-87, 116-128), while its key is of the tag as the caller names it. So a tag with
a quote changes at each start, and to remove what it became leaves the old row;
`TagsAsStored` names such tags as its exception.

### Watch (composes Registry)
Each operation of the registry with its effect on the watchers. `getter_watchers`
is the `watchers` field of a getter; `watchers` the `WatchMap` with a count of
adapter guards per getter; `guard` follows the `WatchGuard` of a watch from its
creation through the two steps of its drop; `caller` is where a thread is in
`register_watches`; `watch_queue` the channel to `handle_watches` and `handler` that
thread. An operation computes its list of <<getter, watcher>> pairs under the
lock; sending it, each call of an adapter, storing the guards and answering are
actions of their own. `failed_asserts` records assertions: `log_debug_assert!`
panics in every build, so `Poisoned` disables every operation that takes the
lock, and the background thread dies where it next takes it; `debug_assert!`
has no effect in a release build. `view` (the getters a listener has reason to
believe in) and `refused` are history variables. Removing a service takes its
getters away without telling anybody, as `aux_remove_service` does.

Left out: the end of the background thread when the manager itself is dropped;
the reads, which change nothing; and what a range means, which only adapters
know.

### RuleEngine
One script (`ExecutionTask::run`). `queue` is its channel, `per_getter`,
`match_is_met`, `rule_is_met` the three levels of records, `ongoing_timer` the
only timer of a rule, `world` the devices. An event of a watch posts an
`UpdateCondition` at the tail of the channel, and only that message changes the
records. `fired` is the parity of the executions of a rule. The statements of a
rule are abstracted to the fact that they execute; compilation is in
ScriptManager.

### ScriptManager
Rows (`scripts`), executions (`runners`, `execution`) and the method in progress
(`call`): one thread owns the manager, so one method at a time, whose `pc` names
the next step. Each SQL statement may fail, an execution may panic, and `Crash`
may come between any two steps: it keeps the rows and restarts with `load`. The
owner of a script is passed on only, and left out.

### ThinkerbellAdapter (composes ScriptManager)
The main loop (`main`), its channel `queue`, the `rules` it has services for, and the
callers blocked on an answer (`waiting`): users, and executions whose statements
set a channel of this adapter. `serving` remembers what the loop does between the
return of the manager, the answer and the message it posts to itself. To add a
service is five calls of the taxonomy (`add_rule_service`): any may fail, an error is only
logged, and what was added stays. `half` are the scripts with such a part of a
service, which no later addition completes (`DuplicateService`); `unserved`, a history
variable, those whose service could not be added when it was last asked for. An
execution takes Stop from its channel only when it is not blocked itself.
Getters only read, and requests refused for the type of their value only
answer; both are left out. `remove_all` is not called by the adapter.

### OpenZWave
The watches of an adapter in detail (`components/openzwave-adapter`): what the
other modules take for granted, that an adapter sends the events it should. The
library is the environment: `value` is what a handle reads *now*, `notifications`
its channel. `notifier` is the thread of notifications between its two locks (the
list of watchers, the cache), `register` the call of `register_watch` between its
four steps, `watch` and `senders` the list and the guards not dropped yet, and
`value_cache` the cache both threads write. `last` (the last event of each
watcher) and `overlapped` (getters that changed while a watch was being
registered on them) are history variables. Left out: nodes, names and the
setters, which only pass a value on; the reads of `fetch_values`; and removal,
since the code handles no notification of it.

### AdapterWatch, implemented by OpenZWave and Clock
What `register_watch` of `adapter.rs` promises, and what rules count their
conditions from: no watcher is told Enter, or Exit, twice in a row. `told` is the
last event of each watcher and `excused` those to whom nothing is promised. Two
adapters are shown to implement it, with their histories as `told`
(`OpenZWavePromise`, `ClockPromise`); each says in its module when it is excused.
OpenZWave tells a value in range at once (`TellsFirst`), the clock does not.

### Values and RangeTrips
`Values` holds the pure part of the taxonomy: types, comparison, ranges, kinds of
channels, and JSON both ways. A value is its type and its data; texts, names and
bytes are numbers in their order. A JSON document keeps its shape, which is what
the parsers tell apart. A parser gives the set of its results: none when it fails,
two when a fraction of a second may be truncated. `RangeTrips` lets a range, a value and
a kind travel between clients and the box any number of times: the range as the
filter of a watch, the value as the payload of a target in either of its two
forms. What a range then accepts is compared with what it is documented to
accept, from the places of the values in `Chains`, an order given apart from the code.

### Selectors
The selectors of getters, setters and services: built call by call or read from a
document, joined with `and`, and asked about every channel, or service, of a small
universe. `asked` are the conditions as they are documented. A service selector
holds lists of channel selectors.

### Clock (uses Values)
`timers` is the set of scheduled callbacks, `callback` what the one under way has
yet to send, `clockWatch` the watches with their guards. The thread of the
timers takes the earliest, late or not. A `Day` is a few ticks.

### Exchange (uses Values)
One call of `fetch_values` or `send_values`. `request` is what was prepared under the
lock; adapters are asked one by one without it, while channels come and go
(`present`). The order of the maps is any bijection (`Orders`). `targets`, `answers`
and `delivered` are history variables. An adapter is external: it answers for the channels
it is asked for, with any value, nothing, or an error.

### ManagedProcess
The tunnel's child. `monitor` is the thread that spawns and waits, `shutdown` the
call in the main thread, which reads the pid, polls with waitpid, kills and
joins; `process` says what runs under each number, so that waiting takes a child
once and a free number may be given to a process that is not ours. Time counts
up to the threshold (`Threshold`, 5 seconds), all that `Backoff` compares.

### ConfigStore
The map in memory and its file. `save` is five steps, each of which may fail, and
the box may restart between any two. A caller of `set` holds the lock of
`ConfigService` to the end of its save, so there is one `saving` at a time.
`asked` and `failed` are history variables: what a start may find of each property
(the value of the last save that succeeded, and each asked for since), and whether
the last save failed. A start narrows `asked` to what it found there; it adds
nothing, unless the file was cut short, of which nothing is found.

### PhilipsHue (composes ConfigStore)
The main loop (`main`, `queue`), discovery (UPnP at any time, nUPnP in the thread
`nupnp`), the `thread` of each hub from availability through pairing to its
lights, and `hubs`, where the address given to `Hub` (`ip`) and the one its
`HubApi` uses (`api_ip`) part. A panic with the HubApi locked puts the hub in
`poisoned`, a panic of the main loop ends it, as does an error of the UPnP search (`discovery.rs:77`). Bridges (`address`, `accepted`) are the
environment: they move, fail to answer, and remember the tokens they gave.
`saver` says whose save is going on. `MaxTries` stands for 120 tries of pairing;
`MaxQueue` bounds what discovery sends.
Left out: that another bridge takes the address of a bridge; which channels a
light has; `RemoveHub`, `RemoveLight`, `StopAdapter`, which nobody sends.

### Certificates
The manager of certificates, the registrar and the installation of Let's
Encrypt's certificates. `directory` says of each name whether its directory is
absent, unreadable, readable but not usable, or complete; `ssl_hosts` is the
memory of the manager and `contexts` what the provider was told. Only one thread
uses them: the hard part is what a failure or a restart leaves. `interrupted` is
a history variable: an installation was cut short once.

### IpCamera
The thread of each advertisement (`visit`) takes the mutex of the `listeners` and
registers the camera step by step: its service, its seven channels in the order of
the code, the directory of its snapshots. Each step may fail, and then the thread panics
with the mutex held. Clients (`shot`) take snapshots at any time: the name is looked
up, the file created, the image written, each a step; `disk` survives restarts.
`reported`, `rivals` (images taken of a camera in the same second at once) and
`unflushed` (the disk failed when the writer was dropped) are history variables.

### WebPush
The rows of the two tables, and the callers, each between two statements of its
call. A statement that fails ends the call by a panic. `wish` is a history
variable: the last list a user set and how that call went.

### MCBox and MCTaxonomy
The modules they extend share no state with one another as far as they are
modelled: a behaviour chooses one of them (`part`) at the start and leaves the others
where they are, so that the state spaces add up and do not multiply. `MCBox` holds
ManagedProcess, PhilipsHue, Certificates, ScriptManager, IpCamera and WebPush,
`MCTaxonomy` OpenZWave, Clock, Selectors, Exchange and RangeTrips. ScriptManager
also runs under the adapter that owns it, in `MCThinkerbell`. That a behaviour of
either composition is one of each of its parts is a theorem (`BoxRunsItsParts`,
`TaxonomyRunsItsParts`).

## 3. Runs

Every run ends: the channels, the watches and the failures are bounded by guards,
and each bound is a CONSTANT of its module. Deadlock is checked where something
can always happen (Registry, Thinkerbell); elsewhere a bound, a closed
manager, a script that has stopped or a shutdown ends a behaviour. Symmetry is used for
Registry, which has no liveness property. Each run takes less than a minute on two
cores: what a larger instance would add, the theorems of section 4 give.

| Run | Instance | Shows |
|---|---|---|
| `MCRegistry` | 2 adapters, 2 services, a getter, a setter, two tags, one of them with a quote; one statement may fail | The four maps are consistent (`Consistent`); a stored tag of a registered object is in memory and a tag in memory survives a restart, but for rows a failed statement touched and tags with a quote (`TagsAsStored`) |
| `MCWatch` | 1 adapter, service, getter, setter, tag; 2 threads; 1 watch of one of two forms, one with two targets | No registration is lost between two locks (`NoLostRegistration`); listeners know what they are attached to (`AttachedKnown`); each blocked caller has one request (`WaitingServed`) and returns even if the background thread dies (`CallersReturn`); dropped watches leave (`DroppedReleased`) |
| `RuleEngine` | 2 rules, 3 conditions, 2 with a duration, one getter watched by all and one removable; channel of 2 | Records are never stale (`RecordsExact`), rules execute on the edge (`FiresWhenItBecomesMet`), a quiet engine agrees with the devices as far as timers allow (`QuietMatchesWorld`), stop stops (`StopsEventually`) |
| `Thinkerbell` | 1 script whose rules may disable it, 2 users; statements fail, executions panic, the box crashes | One request per blocked caller (`OneRequestPerCaller`), services match rows whatever fails, additions of services included (`ServicesMatchStored`), every request is answered unless the loop and an execution wait for each other (`AnsweredUnlessStuck`) |
| `Taxonomy` | OpenZWave: 1 getter, 2 watches with or without a range, channel of 2. Clock: a day of 4 ticks, time to 11, one watch of any range over a day. Selectors: 4 conditions, two of each id, service, tag, kind. Exchange: 4 getters, 2 setters, 2 adapters, 2 targets. Trips: 13 chains of values | Watchers agree with the device (`WatchersAgree`) and with the clock (`ClockFollowsRange`), and both adapters implement AdapterWatch (`OpenZWaveKeepsPromise`, `ClockKeepsPromise`); selectors are conjunctions (`AndIsConjunction`); results are those of the adapters, of the right type (`FetchedAsAnswered`, `SentAsReported`); ranges, values and kinds mean the same after any trips (`TravelsAsDocumented`) |
| `Box` | 2 process numbers; 1 hub, 2 addresses, 1 token, 1 light, 1 try, a command line that is empty or overrides nUPnP and gives a token; 2 fingerprints, TLS or not; 2 scripts, 3 sources, one that does not compile; 1 camera, 2 advertisements, 2 clients, 2 images, 2 seconds; 2 users of WebPush, 2 callers, 1 URI | No child runs after a shutdown (`NothingLeftRunning`), which ends (`ShutdownReturns`); pauses are bounded (`PausesBounded`); a start finds of each property what was last saved, or asked for since, whatever failed and wherever the box stopped, but for a file that is being copied over or was left cut short (`Remembered`); lights are presented with a token that the next start has, never for an unknown hub (`LightsOfPairedHubs`); the registered identity is kept (`IdentityKept`) and the names served (`NamesServed`); executions are tracked (`ExecutionsTracked`), rows hold valid sources and agree with what runs and what `load` starts (`ManagerAsStored`), removal is final (`RemovedIsGone`); cameras answer (`CamerasAnswer`) and keep their pictures (`SnapshotsKept`); messages reach who asked for them (`NotifiedAsAsked`) |

Why these bounds are enough. `MCRegistry` has the constraint `QuotesApart`: while a tag with a quote
is about, one object at a time has tags, since what becomes of it is a matter of its
own rows; the theorem of `TagsAsStored` has no such bound. A contradiction between maps needs a service that
moves from one adapter to another and a channel that moves with it: two of each,
and one channel of each kind. A race of the watch protocol needs the background
thread, one thread that changes tags and one that watches; the tag, on the getter, on
its service or on both, makes a getter match one target, both or none. A record goes stale, or a timer is
stolen, through a second condition or a second rule, and a message overtakes
another as soon as the channel holds two. Rows and executions disagree
through one script; the second is there for `remove_all` and `load`, which treat
several. For `shutdown` one number is the child's and the other the next child's,
or another process's. One hub with two addresses is enough to lose it; the main loop, nUPnP and the thread of
the hub write three properties of one file. Two fingerprints allow a second
identity. The loop of the adapter and a caller wait for each other with one
script; the second user is the request that must be answered meanwhile. Two
watches share a cache of the OpenZWave adapter, and two notifications in its channel
let a handler read a value that is newer than the notification it handles. Two days of the clock and most of a third
let each timer go off again, a tick late or more, in each order. Four conditions
give each field twice, or two selectors two conditions each to be joined. A type
is checked against another's with getters of two types in one adapter; the results
of a second adapter join those of the first; two targets overlap in a setter. A chain holds two to four levels of one type, and two values that tie where
the code ignores a field; the bounds of a range are of the same chain or the
next. Two advertisements race for a camera, two clients for a name; the third name in a second cannot
be needed with two images. A caller of WebPush is overtaken by one other; the lists of one and two
resources differ in all statements, and quotes are in one name.

### Fairness
- `FairWatchSpec`: the background thread of the manager is a loop over a channel
  (`manager.rs`, `handle_watches`), and a thread between the lock and its send has
  nothing to wait for: weak fairness of `Handler`, `SendStart` and `SendRelease`.
  Nobody is obliged to call, to change a tag or to drop a guard.
- `FairSpec` of RuleEngine: the thread of the script receives as long as there are
  messages, and a timer elapses. Devices may stay as they are. A channel is a
  queue, so weak fairness of the one action that receives is enough.
- `FairAdapterSpec`: the main loop, which owns the manager, goes on, and so does an
  execution that has a Stop to take from its channel (`ManagerGoesOn`). When that
  execution is blocked on the adapter, the action is disabled and fairness demands
  nothing, which is the deadlock below. ScriptManager alone has no fairness: whether
  a Stop is acknowledged depends on who owns the manager.
- `FairBoxSpec`: the monitoring thread and the call of `shutdown` go on, as threads
  do. Nobody has to call `shutdown`, and a child may run for ever: it is `shutdown`
  that must kill it. The other parts, and `Taxonomy`, are checked for safety.

### What the code does otherwise than it says
Six runs end in a counterexample; each checks a sentence of the repository.

- `WatchTwice`, `NeverAlreadyWatching`: `backend.rs:1129` asserts that a watcher
  is never attached to a getter twice. Whether it is attached is decided by the
  guard that the background thread stores later (line 545), so a second change
  of the tags of the getter in between attaches it again; the assertion panics
  with the write lock held.
- `WatchUntold`, `RemovalsTold`: `api.rs:158` says that `GetterRemoved` is sent when a
  device was removed. Removing a service, or an adapter with its services, takes the
  getters away and tells no watcher (`backend.rs:400-402`): its listener goes on
  believing that it watches them.
- `RuleRemoved`, `RemovedNotCounted`: `run.rs:323` says that the condition of a
  removed getter is not met anymore; the timer of the rule is not cancelled, and
  when it elapses the getter counts.
- `ThinkerbellDeadlock`, `SettersAnswered`: `mod.rs:234` answers a setter request. A
  rule that disables its own script waits for the main loop, which waits for the
  thread of that rule to acknowledge Stop.
- `OpenZWaveMissed`, `WatchersAlwaysAgree`: `adapter.rs:171` promises an event when
  the value enters or leaves the range. `register_watch` writes the shared cache
  with a value it read earlier, so that the comparison of the next notification
  is made with the wrong previous value.
- `SelectorServiceTags`, `ServiceTagsOfTheService`: `selector.rs:298` says that
  `service_tags` accepts only channels of a service with all of these tags. Inside a selector of
  services it is compared with the tags *that selector asks for* (lines 249 and 259), so that
  joining two selectors of services is not a conjunction either; `AndIsConjunction` leaves
  `service_tags` inside services aside.

The models were made weaker only where the code is: these are other behaviours
met on the way, each visible in the guard or the assignment of an action, or in
the way a property is qualified.

- `backend.rs:1221` asserts that a watcher being released is in the list of each
  getter it has a guard for; a getter that lost the tag and was stopped before
  the guard came back fails it (`StopWatch` and `failed_asserts`).
- A getter that was taken away with its service and comes back is not attached
  again to a watcher that still holds a guard for it (`backend.rs:545`): the watcher
  keeps the guard of the registration of the getter that is gone.
- `tag_storage.rs:15` doubles the quotes of tags and names that are bound as parameters: a tag
  with a quote changes at each start, and its removal, by a key of the changed tag,
  leaves the old row (lines 97-101). Hence the exception of `TagsAsStored`.
- The guard that an adapter returns is stored even if the getter was removed or
  stopped matching meanwhile (`backend.rs:1317`); `NoLostRegistration` is therefore
  one implication only.
- A watch of several selectors detaches a getter as soon as *one* of them stops
  matching (`backend.rs:500-508`), while one suffices to attach it.
- `stop_watch` removes the key from the getters it has a guard for; an attached
  getter whose adapter refused keeps the key (`backend.rs:1214`).
- Adding tags to a service (`backend.rs:903`) does not reexamine its getters for
  watches that select by service tag; adding tags to a getter does (line 954).
- `run.rs:443`, and `ast.rs:46`, say that a rule is met iff *all* of its matches are; the code looks for
  any (`rule_is_met`), as the module does.
- A rule has one timer for all its conditions and getters (`run.rs:216`, `366`): a
  second getter restarts it, and any ExitRange cancels it. Hence `QuietMatchesWorld` claims
  that a getter in range counts only of conditions alone in their rule.
- `set_enabled(false)` of a script that is enabled but does not run changes nothing
  (`thinkerbell/src/manager.rs:140`), and a failed UPDATE after a stop leaves an
  enabled row (`manager.rs:38`): after the next `load` it runs. `RunningAsStored` is
  about scripts that run.
- The service of a script is removed even when its removal failed (`mod.rs:280`), and an
  error of `add_rule_service` is only logged (`mod.rs:190`), which leaves a stored script
  with no service, or with half of one for as long as the box runs: the two
  exceptions of `ServicesMatchStored`.
- `fetch_values` (`taxonomy/src/manager.rs:303`) pairs the entries of one map with those
  of another by position: a value is checked against the type of any of the getters of
  its adapter. It may be refused although it is right, or returned although it is wrong:
  the second branch of `FetchedAsAnswered`.
- A setter that two targets select, one with a value of another type, is sent the
  right one and reported as a type error (`manager.rs:341`): `SentAsReported`.
- Clock: a range whose upper bound is below its lower one accepts nothing
  (`values.rs:1797`), but the time of day is announced in it overnight; `Eq`, and bounds that
  are the same time, send both events at one date, in any order; a value that is in the
  range when the watch starts is not announced; bounds beyond a day wrap around
  (`clock/mod.rs:174-264`). `Followed` and `Excused` name them.
- A comparison of temperatures panics (`values.rs:641`). Rules of Thinkerbell are
  ordered by their name alone and messages of WebPush by their resource, while
  equality looks at all of them (`values.rs:1639-1642`): `Leq` accepts what `Eq` does not.
- A duration with a fraction of a second may lose a millisecond on each trip through
  JSON (`values.rs:1944`), down to its whole second.
- `PhilipsHueAdapter` and the cameras share the mutex of the UPnP listeners: a camera whose
  registration fails, or the tags of which cannot be read, silences the
  discovery of bridges too (`upnp_listener.rs:73`).
- Two snapshots of a camera in one second at once may overwrite each other
  (`ip_camera/api.rs:263`), and what the writer holds back when it is dropped may fail to reach the
  disk without an error; among files of the same second the newest is any.
- WebPush: `escape` doubles quotes in names that are bound as parameters, so that
  names with quotes are read back changed; anybody may unsubscribe a URI; a
  message between the DELETE and the INSERTs of `set_resources` misses the user; an
  error of SQLite panics (`webpush/mod.rs:285`).
- `Backoff` measures from the end of the last run, its own pause included
  (`managed_process.rs:55`, `69`): a pause of 8 seconds exceeds the threshold, so
  that the pauses of a child that fails at once are 0, 2, 4, 8, 0, 2... The unit
  test (lines 290-295), which does not sleep, goes on to 12, 18 and 24.
- When `shutdown` polls a child that has just exited, the poll takes its status,
  the wait of the monitoring thread fails, and its panic is that of `shutdown`
  (`managed_process.rs:132`, `226`). The poll does not exclude, as line 192 hopes,
  that the number belongs to another process when it is killed.
- `save` looks neither at the result of `write_all` (`config_store.rs:116`) nor at
  whether the copy was complete, and `load` takes a truncated file for an empty
  configuration, which loses earlier saves too; `let _ =` at line 114 drops the guard of `save_lock` at once. Hence
  the two exceptions of `Remembered`.
- An error of the UPnP search (`philips_hue/discovery.rs:77`) panics in the main loop of the Hue
  adapter and ends it.
- `update_ip` changes the address of `Hub`, not that of its `HubApi`
  (`philips_hue/hub.rs:132`): a bridge that has moved is lost until the box restarts.
- `is_paired` is true of a bridge that does not answer (`hub_api.rs:91-96`); the next
  call of its thread then panics (`hub.rs:113`), for good. `get_light_status` (line 165)
  panics with the HubApi locked, and in the main loop ends the adapter.
- An error of Let's Encrypt's client ends the registrar (`registration.rs:171`), which
  registers nothing until the box restarts; a certificate of the box that was cut
  short makes each later start do the same (`utils.rs:113`); an installation cut
  short leaves a name without a certificate for good (`letsencrypt.rs:121`), hence
  `interrupted`.

## 4. Proofs

TLC checked each of these properties, and each inductive invariant or the parts it
adds, on small instances first; the theorems hold for any values of the constants
that meet the `ASSUME` of the module, which TLC evaluates in the runs. The bounds of
a model (`MaxQueue`, `MaxWatches`, `MaxStoreFailures`, ...) are constants like the others: any
natural number. A module proves what is said of one component or of a few that go together:
`WatchProofs` of the registry and the watches on it, `TaxonomyProofs` and `BoxProofs` of the
parts that `MCTaxonomy` and `MCBox` compose, and of the compositions. Each invariant, and each
action property, of the runs that pass is stated by a theorem. Each proof follows one pattern: an inductive invariant named for its parts, a lemma per
action (`...Keeps`, `...Next`), a theorem that adds PTL.

| Module | Theorems | Assumptions, beyond types and bounds |
|---|---|---|
| `WatchProofs` | of Registry: `TypeCorrect` (`TypeOK`), `RegistryConsistent` (`Consistent`), `TagsSurviveRestarts` (`TagsAsStored`); of Watch: `ListenersKnow` (`AttachedKnown`), `EveryWaiterIsServed` (`WaitingServed`), `RegistrationsAreNotLost` (`NoLostRegistration`) | services, getters and setters have different identifiers; a list of targets is one of `Targetted` |
| `RuleEngineProofs` | `RecordsAreExact` (`RecordsExact`), `FiresOnTheEdge` (`FiresWhenItBecomesMet`), `QuietEngineMatchesWorld` (`QuietMatchesWorld`) | each condition has a rule and a set of getters |
| `ScriptManagerProofs` | `ManagerTypeCorrect`, `NoExecutionRunsAway` (`ExecutionsTracked`), `RemovalIsFinal` (`RemovedIsGone`), `RunsWhatIsStored` (`ManagerAsStored`) | |
| `ThinkerbellProofs` | `AdapterRunsManager`, `EachRequestIsAnsweredOnce` (`OneRequestPerCaller`), `ServicesFollowTheScripts` (`ServicesMatchStored`) | the statements of a script are setter requests |
| `OpenZWaveProofs` | `OpenZWaveTypeCorrect`, `WatchersKnowTheDevice` (`WatchersAgree`), `PromiseIsKept` (`OpenZWaveKeepsPromise`) | a range is one of the two Booleans, or none |
| `PhilipsHueProofs` | `HueTypeCorrect`, `ConfigRemembers` (`Remembered`), `TokensAreKept` (`LightsOfPairedHubs`) | the properties are those of the hubs and `Nupnp`; `Unauthorized` is no token |
| `TaxonomyProofs` | Selectors: `SelectorsTypeCorrect`, `SelectorsConjoin` (`AndIsConjunction`) | |
| | RangeTrips: `TripsTypeCorrect`, `TripsAsDocumented` (`TravelsAsDocumented`) | the values are plain (`IsPlain`), and `Chains` has them in the order of `partial_cmp` |
| | Clock: `ClockTypeCorrect`, `ClockFollows` (`ClockFollowsRange`), `ClockPromiseKept` (`ClockKeepsPromise`) | a range is one the parser gives: durations and dates are natural, a form with one bound has it twice |
| | Exchange: `GettersGetTheirAnswers` (`FetchedAsAnswered`), `SettersGetTheLastValue` (`SentAsReported`), `ExchangeTypeCorrect` | a payload is a value of a type of `Values` |
| | MCTaxonomy: `TaxonomyRunsItsParts`, `TaxonomyTypeCorrect` (`TaxonomyTypeOK`) | |
| `BoxProofs` | Certificates: `CertificatesTypeCorrect`, `BoxKeepsItsIdentity` (`IdentityKept`), `RegisteredNamesAreServed` (`NamesServed`) | |
| | IpCamera: `IpCameraTypeCorrect`, `AnnouncedCamerasAnswer` (`CamerasAnswer`), `SnapshotsAreKept` (`SnapshotsKept`) | no advertisement is called "free" or "poisoned" |
| | WebPush: `WebPushTypeCorrect`, `UsersAreNotifiedAsAsked` (`NotifiedAsAsked`) | a resource is a word and a count of quotes |
| | ManagedProcess: `ProcessTypeCorrect`, `NothingRunsAfterShutdown` (`NothingLeftRunning`), `PausesAreBounded` (`PausesBounded`) | the threshold is positive |
| | MCBox: `BoxRunsItsParts`, `BoxTypeCorrect` (`BoxTypeOK`) | |

The arguments, and why each invariant needs more than its property:

- *Registry*. `Consistent` is not inductive alone: that a map has a domain, and that a
  listed channel is a channel of its kind, come from `TypeOK`. `TagsInv` states
  `TagsAsStored` row by row (`RowKept`), and adds that nothing is stored without a
  database; a row of a tag with a quote, or that doubling quotes may have given, is excepted there,
  not in the actions, which handle it as any other. Lemmas about the procedures that actions share (`StoreAddTags`,
  `ReadStore`, `Tagged`, `AuxRemoveServices`) leave one short step per action.
- *Watch*. A step of the protocol calls a method of Registry or leaves the registry alone
  (`WatchStepIsRegistryStep`), so that what is proved of the one holds under the other. `Known` gives
  `AttachedKnown`: the key of an attached watcher has been given out. `ChannelInv`
  follows the request of a waiting caller from the channel into the background thread, and
  says that this thread dies only when the lock is poisoned. `NothingLost` needs
  the types, `Known` and `CallerKeys`: two threads never create the same watch, and a
  watch being created has no guard yet.
- *RuleEngine*. `RecordsExact` is inductive; the edge of `FiresWhenItBecomesMet` then
  follows of each step. `QuietMatchesWorld` speaks of an empty channel only: `EffectsInv` says of
  every other state where a change of a device is now, as an event with nothing behind
  it that cancels it, as a timer, as the update posted at the tail, or in the records. The
  two exceptions are those of the property: the entering of a condition with a duration,
  unless it is `Alone` in its rule, and the leaving of one whose getter may be removed.
- *Thinkerbell*. `ManagerInv` has a part for each step of a method: what the method in
  progress has done so far (`RunnerInv`), where rows and executions may differ meanwhile
  (`StoredInv`), how far `remove_all` and `load` are (`WipeInv`, `LoadInv`). Every step of the adapter is
  one of the manager, or leaves it alone (`AdapterRunsManager`), so that `ManagerInv` holds under the
  adapter. `AdapterInv` adds that each caller is in one place (`CallerInv`), that the manager
  works for the loop (`PhaseInv`), and that the last message about a script, once what the
  loop is about to post is counted, agrees with its row (`ServiceInv`). That is said of the scripts
  a service was tried for (`Tried`), with or without success; `WholeInv` keeps those with
  a rule apart from those that failed.
- *OpenZWave*. What a watcher was told last agrees with the cache, with the notification being
  handled, or with the value, according to where the two threads are (`ToldInv`,
  `KnowsInv`). The types are not inductive without `ValuesInv` (a value that changed
  is set) and `NumbersInv`. That no event repeats the last, hence the
  refinement of AdapterWatch, follows from the same invariant.
- *PhilipsHue and ConfigStore*. `ConfigFilesInv` says what the two files hold at each step of a
  save, and when the configuration file may be cut short; `SaveInv`, that what is in memory was
  asked for as well; `OneSetting`, that the property being set is the only one that
  differs from the file, so that a restart before the copy gives the others back as last saved;
  `TokensInv`, that the token of a hub is the configured one unless its own thread is
  storing another; `LightsInv`, that lights come from threads past that step.
- *ManagedProcess*. `Monitored`: a child that runs, or waits to be waited for, is the
  one the monitoring thread waits for, and that thread is over when `shutdown` is. `Paused`: the
  pause is the one for the count of quick exits, and has passed when the thread spawns.
- *Certificates*. `CertificatesInv` relates, step by step of the registrar, what the manager
  remembers to the directories (`HostsInv`), gives the box one certificate of its own at
  most (`BoxInv`), and says for each of its two names how far the installation is
  (`PairsInv`, `WantedInv`) unless one was interrupted.
- *IpCamera*. `VisitInv` ties the mutex to the one thread that adds a camera, and the
  channels present to its place in their order. For the snapshots, `RivalsInv` and `FilesInv`: two
  clients that hold images of one camera and second are rivals, and from the lookup of a
  name on, only rivals write to its file, even when the name was looked up before
  the other file was made. `IpCameraTypeOK` bounds the count in a name: the search for a
  free name ends. `NamesInv` shows it by counting: a camera has no more files, and images
  that are yet to have one, than images were handed out, and each lower count is taken by a file.
- *WebPush*. `SetInv` follows the one call that a user has under way from statement to
  statement: before it the old rows, after `k` statements the first `k` of the new
  list and a rest that completes it, whatever calls of others come between. The types ask in
  addition that each endpoint is subscribed for a user (`SubscriptionsInv`).
- *Exchange*. The properties speak of the end of a call; `ExchangeInv` says that adapters not
  asked yet are asked what was prepared, and that channels of those asked have the
  results owed to them, although channels come and go meanwhile. That a last value
  exists (`LastExists`) is the well-foundedness of the numbers, from the library. The types
  ask in addition that only channels that were selected are asked, or fail (`PreparedInv`).
- *Selectors*. `AndIsConjunction` speaks of the selector that is built. `SelectorsInv` says the same of
  the one put aside for `and`; for selectors of services, it says what the list of
  selectors of channels inside holds. Each condition, each `and` and each trip
  through JSON is then a lemma about one field.
- *RangeTrips*. What is read back from the document of a value is that value, or a duration that
  is shorter within its second (`ValueReadBack`, `RangeReadBack`, `PayloadReadBack`). `TripsInv` says that
  the range and the value are near what was sent (`Near`), which any number of trips
  preserves; that `Contains` then agrees with the places in `Chains` is a lemma by form of range.
- *Clock*. `WatchState` says, for each getter, which timers a live watch has. The time of day
  has two that recur, less than a day apart, and the watcher was last told the event of the one
  whose turn is not next; a timestamp has those thresholds that are still to come; an
  interval enters and leaves at once, so that it was told Exit or nothing. As the
  earliest timer goes off first, the state is kept however late it is (`GoesOff`). `CallbackInv`
  says that an event on its way is not the one told last.
- *The compositions*. Each step of `MCBox` or `MCTaxonomy` is a step of one part that leaves the others
  alone (`BoxStepsAreOfItsParts`, `TaxonomyStepsAreOfItsParts`); the types of a part,
  and whatever else is proved of its specification, hold of what the runs check.

What the attempts showed. A first form of `Remembered` gave the history what the file
held at each restart, which made it true of a file that had lost its saves; a start
now only narrows `asked`, and the file cut short is an exception that the property names.
`LightsOfPairedHubs` was false for a
token given on the command line, which the configuration does not hold: an exception of the
property since, and TLC's instance now has such command lines.

Only model-checked:

- Liveness under fairness (`CallersReturn`, `DroppedReleased`, `StopsEventually`,
  `AnsweredUnlessStuck`, `ShutdownReturns`), and ENABLED in it, which are out of the
  reach of TLAPS.

## 5. What is not modelled, and what comes next

`PROJECT.json` gives the reason for each component. Third-party code (iron-fork),
encryption, HTTP plumbing and the web interface have no state of their own that
several steps share; test doubles and the proof cells are no part of the box. What could come next, in this order:

1. *Watches of several selectors per target*, and the nodes and setters of the
   OpenZWave adapter.
2. *Descriptions*: the JSON of services and channels, the parsing of selectors,
   the choice of a certificate by the name a client asks for.
3. *Proofs*: trips of values that hold values, as ranges do, which `IsPlain` leaves out; their
   depth has no bound, and the proof is an induction over it.
