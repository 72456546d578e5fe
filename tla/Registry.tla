------------------------------ MODULE Registry -------------------------------
(***************************************************************************)
(* The in-memory database of the taxonomy (components/taxonomy/src/        *)
(* backend.rs, `State`): adapters, their services, and the getter and      *)
(* setter channels of each service, kept in four maps that refer to each   *)
(* other, together with the tag store (tag_storage.rs) that persists the   *)
(* tags across restarts.                                                   *)
(*                                                                         *)
(* Every operation of `State` runs under the write lock of the             *)
(* AdapterManager, so each of them is one action here.  A call that        *)
(* returns an error leaves the maps as they were: it is a stuttering step, *)
(* and the conditions of the error are the negated guards of the action.   *)
(* Watches, which some of these operations also update, are in Watch.tla.  *)
(*                                                                         *)
(* A service's tags are shared (an Arc) with its channels, whose           *)
(* `service_tags` therefore are service_by_id[c.service].tags.             *)
(***************************************************************************)
EXTENDS Naturals, HashMap

CONSTANTS
  AdapterId,        \* identifiers of the adapters
  ServiceId,        \* identifiers of the services
  GetterId,         \* identifiers of the getter channels
  SetterId,         \* identifiers of the setter channels
  TagId,            \* the tags a caller names: [word, quotes] (how many quotes it has)
  Persistent,       \* TRUE iff the manager was given a db_path
  MaxStoreFailures  \* bound on the number of failing SQLite calls

(* The store keys rows by the text of the identifier alone, so services    *)
(* and channels share one name space.  The adapters of the box keep them   *)
(* apart by prefix ("service:", "getter:", "setter:").                     *)
ASSUME RegistryAssumption ==
  /\ \A t \in TagId : t = [word |-> t.word, quotes |-> t.quotes] /\ t.quotes \in Nat
  /\ ServiceId \cap GetterId = {}
  /\ ServiceId \cap SetterId = {}
  /\ GetterId \cap SetterId = {}
  /\ Persistent \in BOOLEAN
  /\ MaxStoreFailures \in Nat

VARIABLES
  adapter_by_id,    \* adapter -> the services it lists
  service_by_id,    \* service -> its adapter, its channels and its tags
  getter_by_id,     \* getter -> its service, its adapter and its tags
  setter_by_id,     \* setter -> its service, its adapter and its tags
  db,               \* rows of the tag store, by their keys <<id, tag>>
  failures,         \* SQLite calls that failed so far
  (* History, read by no action:                                           *)
  given,            \* rows the adapter supplied when it registered the object (if Persistent)
  lost              \* rows that a failed call left different from the memory

maps == <<adapter_by_id, service_by_id, getter_by_id, setter_by_id>>
store == <<db, failures, given, lost>>
registryVars == <<maps, store>>

(* `escape`: the store doubles every quote of a tag, though it passes the  *)
(* tag as a parameter, and gives the doubled form back when it is read.    *)
Escape(t) == [t EXCEPT !.quotes = 2 * @]
Quoted == {t \in TagId : Escape(t) # t}
Doubled == {Escape(t) : t \in Quoted}

ObjectId == ServiceId \cup GetterId \cup SetterId
AnyTag == TagId \cup Doubled
ServiceData == [adapter : AdapterId, tags : SUBSET AnyTag,
                getters : SUBSET GetterId, setters : SUBSET SetterId]
ChannelData == [service : ServiceId, adapter : AdapterId, tags : SUBSET AnyTag]

Init ==
  /\ adapter_by_id = EmptyMap
  /\ service_by_id = EmptyMap
  /\ getter_by_id = EmptyMap
  /\ setter_by_id = EmptyMap
  /\ db = {}
  /\ failures = 0
  /\ given = {}
  /\ lost = {}

-----------------------------------------------------------------------------
(* The tag store.  The key of a row is a hash of the identifier and the    *)
(* tag as the caller names them (taken to tell the pairs apart), its       *)
(* columns are their escaped forms.  An identifier is escaped where it is  *)
(* written and where it is looked up, so it still names the same object.   *)

(* Mutant: the two parameters of the SQL statements are swapped.            *)
RowsSwapped(ids, tags) == tags \X ids

Rows(ids, tags) == ids \X tags
RowsOf(ids) == {row \in db : row[1] \in ids}
GetTagsFor(id) == {Escape(row[2]) : row \in RowsOf({id})}

(* SQLite calls that fail are bounded by MaxStoreFailures.                 *)
StoreCall(ok) ==
  /\ ok \/ failures < MaxStoreFailures
  /\ failures' = IF ok THEN failures ELSE failures + 1

(* `add_tags` for each object of ids, one INSERT OR IGNORE per row.  A     *)
(* failure stops the call of that object and is only logged, so any part   *)
(* of the rows may be missing afterwards.  A crash while the loop runs     *)
(* leaves the same rows, and is followed by Stop.                          *)
StoreAddTags(ids, tags) ==
  LET rows == Rows(ids, tags)
  IN IF ~Persistent THEN UNCHANGED <<db, failures, lost>>
     ELSE \E written \in SUBSET rows :
            /\ StoreCall(written = rows)
            /\ db' = db \cup written
            /\ lost' = (lost \ written) \cup (rows \ (db \cup written))

(* `remove_tags` for each object of ids, one DELETE per row, failing       *)
(* likewise.                                                               *)
StoreRemoveTags(ids, tags) ==
  LET rows == Rows(ids, tags)
  IN IF ~Persistent THEN UNCHANGED <<db, failures, lost>>
     ELSE \E written \in SUBSET rows :
            /\ StoreCall(written = rows)
            /\ db' = db \ written
            /\ lost' = (lost \ written) \cup ((rows \ written) \cap db)

(* (History.)  The adapter registers object id with these tags.            *)
Supply(id, tags) == given' = IF Persistent THEN given \cup Rows({id}, tags) ELSE given

-----------------------------------------------------------------------------
(* Adapters.                                                               *)

(* `add_adapter`: DuplicateAdapter if it is there already.                 *)
AddAdapter(a) ==
  /\ a \notin DOMAIN adapter_by_id
  /\ adapter_by_id' = Put(adapter_by_id, a, {})
  /\ UNCHANGED <<service_by_id, getter_by_id, setter_by_id, store>>

(* What `aux_remove_service` does, for every service of ss that exists.    *)
AuxRemoveServices(ss) ==
  LET present == ss \cap DOMAIN service_by_id
      getters == UNION {service_by_id[s].getters : s \in present}
      setters == UNION {service_by_id[s].setters : s \in present}
  IN /\ service_by_id' = Drop(service_by_id, present)
     /\ getter_by_id' = Drop(getter_by_id, getters)
     /\ setter_by_id' = Drop(setter_by_id, setters)
     /\ given' = {row \in given : row[1] \notin present \cup getters \cup setters}
     /\ UNCHANGED <<db, failures, lost>>

(* `remove_adapter`: NoSuchAdapter if it is not there.                     *)
RemoveAdapter(a) ==
  /\ a \in DOMAIN adapter_by_id
  /\ adapter_by_id' = Drop(adapter_by_id, {a})
  /\ AuxRemoveServices(adapter_by_id[a])

-----------------------------------------------------------------------------
(* Services.                                                               *)

(* `add_service`: NoSuchAdapter, then GenericError if the store cannot be  *)
(* read, then DuplicateService if the adapter or the whole system knows    *)
(* the id.  The reads leave nothing behind when the call fails.            *)
AddService(s, a, tags) ==
  /\ a \in DOMAIN adapter_by_id
  /\ s \notin adapter_by_id[a]
  /\ s \notin DOMAIN service_by_id
  /\ adapter_by_id' = [adapter_by_id EXCEPT ![a] = @ \cup {s}]
  /\ service_by_id' = Put(service_by_id, s,
       [adapter |-> a, tags |-> tags \cup GetTagsFor(s),
        getters |-> {}, setters |-> {}])
  /\ Supply(s, tags)
  /\ UNCHANGED <<getter_by_id, setter_by_id, db, failures, lost>>

(* `remove_service`: NoSuchService if it is not there.  The service leaves *)
(* the list of its adapter, if that adapter is still registered.           *)
RemoveService(s) ==
  /\ s \in DOMAIN service_by_id
  /\ AuxRemoveServices({s})
  /\ adapter_by_id' = [adapter_by_id EXCEPT ![service_by_id[s].adapter] = @ \ {s}]

-----------------------------------------------------------------------------
(* Channels.  The store is read before the checks; unlike `add_service`,   *)
(* a failure to read it is ignored and the channel starts without the      *)
(* stored tags (readable = FALSE).                                         *)

StoredTags(c, readable) == IF readable THEN GetTagsFor(c) ELSE {}

ReadStore(c, readable) ==
  /\ ~Persistent => readable
  /\ StoreCall(readable)
  /\ lost' = IF readable THEN lost ELSE lost \cup RowsOf({c})
  /\ UNCHANGED db

(* `add_getter`: NoSuchService, ConflictingAdapter if the service belongs  *)
(* to another adapter, DuplicateGetter if the service or the system has it.*)
AddGetter(g, s, a, tags, readable) ==
  /\ s \in DOMAIN service_by_id
  /\ service_by_id[s].adapter = a
  /\ g \notin service_by_id[s].getters
  /\ g \notin DOMAIN getter_by_id
  /\ ReadStore(g, readable)
  /\ service_by_id' = [service_by_id EXCEPT ![s].getters = @ \cup {g}]
  /\ getter_by_id' = Put(getter_by_id, g,
       [service |-> s, adapter |-> a, tags |-> tags \cup StoredTags(g, readable)])
  /\ Supply(g, tags)
  /\ UNCHANGED <<adapter_by_id, setter_by_id>>

(* Mutant: the getter stays in the list of its service.                     *)
RemoveGetterStillListed(g) ==
  /\ g \in DOMAIN getter_by_id
  /\ getter_by_id' = Drop(getter_by_id, {g})
  /\ given' = {row \in given : row[1] # g}
  /\ UNCHANGED <<adapter_by_id, service_by_id, setter_by_id, db, failures, lost>>

(* `remove_getter`: NoSuchGetter if it is not there.                       *)
RemoveGetter(g) ==
  /\ g \in DOMAIN getter_by_id
  /\ getter_by_id' = Drop(getter_by_id, {g})
  /\ service_by_id' = [service_by_id EXCEPT ![getter_by_id[g].service].getters = @ \ {g}]
  /\ given' = {row \in given : row[1] # g}
  /\ UNCHANGED <<adapter_by_id, setter_by_id, db, failures, lost>>

(* `add_setter` and `remove_setter`: as for getters.                       *)
AddSetter(t, s, a, tags, readable) ==
  /\ s \in DOMAIN service_by_id
  /\ service_by_id[s].adapter = a
  /\ t \notin service_by_id[s].setters
  /\ t \notin DOMAIN setter_by_id
  /\ ReadStore(t, readable)
  /\ service_by_id' = [service_by_id EXCEPT ![s].setters = @ \cup {t}]
  /\ setter_by_id' = Put(setter_by_id, t,
       [service |-> s, adapter |-> a, tags |-> tags \cup StoredTags(t, readable)])
  /\ Supply(t, tags)
  /\ UNCHANGED <<adapter_by_id, getter_by_id>>

RemoveSetter(t) ==
  /\ t \in DOMAIN setter_by_id
  /\ setter_by_id' = Drop(setter_by_id, {t})
  /\ service_by_id' = [service_by_id EXCEPT ![setter_by_id[t].service].setters = @ \ {t}]
  /\ given' = {row \in given : row[1] # t}
  /\ UNCHANGED <<adapter_by_id, getter_by_id, db, failures, lost>>

-----------------------------------------------------------------------------
(* Tags.  Selectors can name any identifiers, so the registered objects    *)
(* that match them may be any non-empty set of them.                       *)

Tagged(m, ids, tags) == [o \in DOMAIN m |->
  IF o \in ids THEN [m[o] EXCEPT !.tags = @ \cup tags] ELSE m[o]]
Untagged(m, ids, tags) == [o \in DOMAIN m |->
  IF o \in ids THEN [m[o] EXCEPT !.tags = @ \ tags] ELSE m[o]]

(* The channels that `insert_tags`, resp. `remove_tags`, really changes:   *)
(* only those reach the store, whereas every matching service does.        *)
TagsInserted(m, ids, tags) == {c \in ids : ~(tags \subseteq m[c].tags)}
TagsRemoved(m, ids, tags) == {c \in ids : tags \cap m[c].tags # {}}

AddServiceTags(ss, tags) ==
  /\ ss \subseteq DOMAIN service_by_id
  /\ service_by_id' = Tagged(service_by_id, ss, tags)
  /\ StoreAddTags(ss, tags)
  /\ UNCHANGED <<adapter_by_id, getter_by_id, setter_by_id, given>>

RemoveServiceTags(ss, tags) ==
  /\ ss \subseteq DOMAIN service_by_id
  /\ service_by_id' = Untagged(service_by_id, ss, tags)
  /\ StoreRemoveTags(ss, tags)
  /\ UNCHANGED <<adapter_by_id, getter_by_id, setter_by_id, given>>

AddGetterTags(gs, tags) ==
  /\ gs \subseteq DOMAIN getter_by_id
  /\ getter_by_id' = Tagged(getter_by_id, gs, tags)
  /\ StoreAddTags(TagsInserted(getter_by_id, gs, tags), tags)
  /\ UNCHANGED <<adapter_by_id, service_by_id, setter_by_id, given>>

RemoveGetterTags(gs, tags) ==
  /\ gs \subseteq DOMAIN getter_by_id
  /\ getter_by_id' = Untagged(getter_by_id, gs, tags)
  /\ StoreRemoveTags(TagsRemoved(getter_by_id, gs, tags), tags)
  /\ UNCHANGED <<adapter_by_id, service_by_id, setter_by_id, given>>

(* Mutant: the store is told of the setters that have all the tags already. *)
AddSetterTagsInverted(ts, tags) ==
  /\ ts \subseteq DOMAIN setter_by_id
  /\ setter_by_id' = Tagged(setter_by_id, ts, tags)
  /\ StoreAddTags(ts \ TagsInserted(setter_by_id, ts, tags), tags)
  /\ UNCHANGED <<adapter_by_id, service_by_id, getter_by_id, given>>

AddSetterTags(ts, tags) ==
  /\ ts \subseteq DOMAIN setter_by_id
  /\ setter_by_id' = Tagged(setter_by_id, ts, tags)
  /\ StoreAddTags(TagsInserted(setter_by_id, ts, tags), tags)
  /\ UNCHANGED <<adapter_by_id, service_by_id, getter_by_id, given>>

RemoveSetterTags(ts, tags) ==
  /\ ts \subseteq DOMAIN setter_by_id
  /\ setter_by_id' = Untagged(setter_by_id, ts, tags)
  /\ StoreRemoveTags(TagsRemoved(setter_by_id, ts, tags), tags)
  /\ UNCHANGED <<adapter_by_id, service_by_id, getter_by_id, given>>

(* `stop` clears the maps; a restart of the box begins with empty maps     *)
(* too.  The store survives both.                                          *)
Stop ==
  /\ adapter_by_id' = EmptyMap
  /\ service_by_id' = EmptyMap
  /\ getter_by_id' = EmptyMap
  /\ setter_by_id' = EmptyMap
  /\ given' = {}
  /\ UNCHANGED <<db, failures, lost>>

-----------------------------------------------------------------------------
Next ==
  \/ \E a \in AdapterId : AddAdapter(a) \/ RemoveAdapter(a)
  \/ \E s \in ServiceId, a \in AdapterId, tags \in SUBSET TagId : AddService(s, a, tags)
  \/ \E s \in ServiceId : RemoveService(s)
  \/ \E s \in ServiceId, a \in AdapterId, tags \in SUBSET TagId, readable \in BOOLEAN :
       \/ \E g \in GetterId : AddGetter(g, s, a, tags, readable)
       \/ \E t \in SetterId : AddSetter(t, s, a, tags, readable)
  \/ \E g \in GetterId : RemoveGetter(g)
  \/ \E t \in SetterId : RemoveSetter(t)
  \/ \E tags \in SUBSET TagId :
       \/ \E ss \in SUBSET ServiceId : AddServiceTags(ss, tags) \/ RemoveServiceTags(ss, tags)
       \/ \E gs \in SUBSET GetterId : AddGetterTags(gs, tags) \/ RemoveGetterTags(gs, tags)
       \/ \E ts \in SUBSET SetterId : AddSetterTags(ts, tags) \/ RemoveSetterTags(ts, tags)
  \/ Stop

Spec == Init /\ [][Next]_registryVars

-----------------------------------------------------------------------------
(* The maps hold what they are meant to hold, and the store holds rows of  *)
(* tags for identifiers of the system.                                     *)
TypeOK ==
  /\ IsMap(adapter_by_id, AdapterId, SUBSET ServiceId)
  /\ IsMap(service_by_id, ServiceId, ServiceData)
  /\ IsMap(getter_by_id, GetterId, ChannelData)
  /\ IsMap(setter_by_id, SetterId, ChannelData)
  /\ db \subseteq ObjectId \X TagId
  /\ failures \in 0..MaxStoreFailures
  /\ given \subseteq ObjectId \X TagId
  /\ lost \subseteq ObjectId \X TagId

(* A service and the adapter that lists it agree, both ways.               *)
ServicesConsistent ==
  /\ \A s \in DOMAIN service_by_id :
       /\ service_by_id[s].adapter \in DOMAIN adapter_by_id
       /\ s \in adapter_by_id[service_by_id[s].adapter]
  /\ \A a \in DOMAIN adapter_by_id : \A s \in adapter_by_id[a] :
       /\ s \in DOMAIN service_by_id
       /\ service_by_id[s].adapter = a

(* A channel of m and the service that lists it (by listed) agree, both    *)
(* ways, also on the adapter.                                              *)
ChannelsConsistent(m, listed(_)) ==
  /\ \A c \in DOMAIN m :
       /\ m[c].service \in DOMAIN service_by_id
       /\ c \in listed(m[c].service)
       /\ m[c].adapter = service_by_id[m[c].service].adapter
  /\ \A s \in DOMAIN service_by_id : \A c \in listed(s) :
       c \in DOMAIN m /\ m[c].service = s

GettersOf(s) == service_by_id[s].getters
SettersOf(s) == service_by_id[s].setters

(* The four maps never contradict each other, whatever the order in which  *)
(* adapters, services and channels come and go.  In particular every       *)
(* channel's adapter is registered, which prepare_fetch_values,            *)
(* prepare_send_values and aux_start_channel_watch each assert             *)
(* ("Internal inconsistency: Could not find adapter"), panicking otherwise.*)
Consistent ==
  /\ ServicesConsistent
  /\ ChannelsConsistent(getter_by_id, GettersOf)
  /\ ChannelsConsistent(setter_by_id, SettersOf)

(* The tags in memory of the registered objects, as rows.                  *)
Registered == DOMAIN service_by_id \cup DOMAIN getter_by_id \cup DOMAIN setter_by_id
TagsInMemory ==
  (UNION {Rows({s}, service_by_id[s].tags) : s \in DOMAIN service_by_id})
    \cup (UNION {Rows({g}, getter_by_id[g].tags) : g \in DOMAIN getter_by_id})
    \cup (UNION {Rows({t}, setter_by_id[t].tags) : t \in DOMAIN setter_by_id})

(* A tag that is stored for a registered object is a tag of that object,   *)
(* unless a call to the store failed on it: what the user removed never    *)
(* comes back by itself at the next registration, and what the store       *)
(* brought at registration is not forgotten.  A tag with a quote is the    *)
(* exception: it comes back with its quotes doubled, and to remove it in   *)
(* that form leaves the row there.                                         *)
StoredTagsInMemory ==
  \A row \in RowsOf(Registered) : row[2] \in Quoted \/ row \in TagsInMemory \cup lost

(* A tag of a registered object is stored, or its adapter supplied it, or  *)
(* a call to the store failed on it, so that it survives a restart.  The   *)
(* exception is a tag that the store may have brought there by doubling    *)
(* the quotes of another: the row that there is, if any, is of that one.   *)
TagsSurvive ==
  Persistent => \A row \in TagsInMemory : row[2] \in Doubled \/ row \in db \cup given \cup lost

(* Memory and store agree both ways on the tags that have no quote,         *)
(* whatever fails and however often the box restarts; a tag with a quote is *)
(* stored, but does not come back as it was.                                *)
TagsAsStored == StoredTagsInMemory /\ TagsSurvive
=============================================================================
