----------------------------- MODULE WatchProofs ------------------------------
(***************************************************************************)
(* Proofs about the registry and the watch protocol over it, for any       *)
(* adapters, services, channels, tags, threads and watches.  The registry: *)
(* its types, the mutual consistency of its four maps, and its tags through*)
(* restarts.  The protocol: a listener knows the getters it is attached to,*)
(* every caller that waits is served, and no registration is lost on its   *)
(* way to the adapters.                                                    *)
(***************************************************************************)
EXTENDS Watch, FiniteSetTheorems, TLAPS

(* `Put` and `Drop` keep a map a map.                                       *)
LEMMA PutMap ==
  ASSUME NEW K, NEW V, NEW m, IsMap(m, K, V), NEW k \in K, NEW v \in V
  PROVE  IsMap(Put(m, k, v), K, V)
  BY DEF Put, IsMap

LEMMA DropMap ==
  ASSUME NEW K, NEW V, NEW m, IsMap(m, K, V), NEW S
  PROVE  IsMap(Drop(m, S), K, V)
  BY DEF Drop, Restrict, IsMap

-----------------------------------------------------------------------------
(* Type correctness.                                                       *)

(* The tags read back are tags of the system.                               *)
LEMMA ReadTags ==
  ASSUME db \subseteq ObjectId \X TagId, NEW k
  PROVE  GetTagsFor(k) \in SUBSET AnyTag
<1> SUFFICES ASSUME NEW t \in GetTagsFor(k) PROVE t \in AnyTag
  OBVIOUS
<1>1. PICK row \in RowsOf({k}) : t = Escape(row[2])
  BY DEF GetTagsFor
<1>2. row[2] \in TagId
  BY <1>1 DEF RowsOf
<1> QED  BY <1>1, <1>2, Zenon DEF AnyTag, Doubled, Quoted

(* The calls to the store keep its rows well-typed and its failures within *)
(* their bound.                                                            *)
StoreTypeOK ==
  /\ db \subseteq ObjectId \X TagId
  /\ failures \in 0..MaxStoreFailures
  /\ lost \subseteq ObjectId \X TagId

LEMMA StoreCallType ==
  ASSUME StoreTypeOK, NEW ok \in BOOLEAN, StoreCall(ok)
  PROVE  failures' \in 0..MaxStoreFailures
  BY RegistryAssumption DEF StoreTypeOK, StoreCall

LEMMA StoreAddTagsType ==
  ASSUME StoreTypeOK, NEW ids \in SUBSET ObjectId, NEW tags \in SUBSET TagId,
         StoreAddTags(ids, tags)
  PROVE  StoreTypeOK'
<1> DEFINE rows == Rows(ids, tags)
<1>1. rows \subseteq ObjectId \X TagId  BY DEF Rows
<1>2. CASE ~Persistent  BY <1>2 DEF StoreAddTags, StoreTypeOK
<1>3. CASE Persistent
  <2>1. PICK written \in SUBSET rows :
          /\ StoreCall(written = rows)
          /\ db' = db \cup written
          /\ lost' = (lost \ written) \cup (rows \ (db \cup written))
    BY <1>3 DEF StoreAddTags
  <2>2. failures' \in 0..MaxStoreFailures  BY <2>1, StoreCallType
  <2> QED  BY <1>1, <2>1, <2>2 DEF StoreTypeOK
<1> QED  BY <1>2, <1>3

LEMMA StoreRemoveTagsType ==
  ASSUME StoreTypeOK, NEW ids \in SUBSET ObjectId, NEW tags \in SUBSET TagId,
         StoreRemoveTags(ids, tags)
  PROVE  StoreTypeOK'
<1> DEFINE rows == Rows(ids, tags)
<1>1. rows \subseteq ObjectId \X TagId  BY DEF Rows
<1>2. CASE ~Persistent  BY <1>2 DEF StoreRemoveTags, StoreTypeOK
<1>3. CASE Persistent
  <2>1. PICK written \in SUBSET rows :
          /\ StoreCall(written = rows)
          /\ db' = db \ written
          /\ lost' = (lost \ written) \cup ((rows \ written) \cap db)
    BY <1>3 DEF StoreRemoveTags
  <2>2. failures' \in 0..MaxStoreFailures  BY <2>1, StoreCallType
  <2> QED  BY <1>1, <2>1, <2>2 DEF StoreTypeOK
<1> QED  BY <1>2, <1>3

LEMMA ReadStoreType ==
  ASSUME StoreTypeOK, NEW c \in ObjectId, NEW readable \in BOOLEAN,
         ReadStore(c, readable)
  PROVE  StoreTypeOK'
  BY StoreCallType DEF StoreTypeOK, ReadStore, RowsOf

(* Editing the tags of some objects of a map keeps it a map.               *)
LEMMA TaggedType ==
  ASSUME NEW K, NEW m, IsMap(m, K, ChannelData), NEW ids, NEW tags \in SUBSET TagId
  PROVE  /\ IsMap(Tagged(m, ids, tags), K, ChannelData)
         /\ IsMap(Untagged(m, ids, tags), K, ChannelData)
<1>1. \A x \in DOMAIN m : m[x] \in ChannelData  BY DEF IsMap
<1>2. Tagged(m, ids, tags) \in [DOMAIN m -> ChannelData]  BY <1>1 DEF Tagged, ChannelData, AnyTag
<1>3. Untagged(m, ids, tags) \in [DOMAIN m -> ChannelData]  BY <1>1 DEF Untagged, ChannelData, AnyTag
<1> QED  BY <1>2, <1>3 DEF IsMap, Tagged, Untagged

LEMMA TaggedServicesType ==
  ASSUME NEW K, NEW m, IsMap(m, K, ServiceData), NEW ids, NEW tags \in SUBSET TagId
  PROVE  /\ IsMap(Tagged(m, ids, tags), K, ServiceData)
         /\ IsMap(Untagged(m, ids, tags), K, ServiceData)
<1>1. \A x \in DOMAIN m : m[x] \in ServiceData  BY DEF IsMap
<1>2. Tagged(m, ids, tags) \in [DOMAIN m -> ServiceData]  BY <1>1 DEF Tagged, ServiceData, AnyTag
<1>3. Untagged(m, ids, tags) \in [DOMAIN m -> ServiceData]  BY <1>1 DEF Untagged, ServiceData, AnyTag
<1> QED  BY <1>2, <1>3 DEF IsMap, Tagged, Untagged

LEMMA EmptyMapType == ASSUME NEW K, NEW V PROVE IsMap(EmptyMap, K, V)
  BY DEF EmptyMap, IsMap

LEMMA InitTypeOK == Init => TypeOK
  BY EmptyMapType, RegistryAssumption DEF Init, TypeOK

LEMMA AuxRemoveServicesType ==
  ASSUME TypeOK, NEW ss, AuxRemoveServices(ss)
  PROVE  /\ IsMap(service_by_id', ServiceId, ServiceData)
         /\ IsMap(getter_by_id', GetterId, ChannelData)
         /\ IsMap(setter_by_id', SetterId, ChannelData)
         /\ StoreTypeOK'
         /\ given' \subseteq ObjectId \X TagId
<1>1. IsMap(service_by_id', ServiceId, ServiceData)
  BY DropMap DEF TypeOK, AuxRemoveServices
<1>2. IsMap(getter_by_id', GetterId, ChannelData)
  BY DropMap DEF TypeOK, AuxRemoveServices
<1>3. IsMap(setter_by_id', SetterId, ChannelData)
  BY DropMap DEF TypeOK, AuxRemoveServices
<1> QED  BY <1>1, <1>2, <1>3 DEF TypeOK, StoreTypeOK, AuxRemoveServices

LEMMA NextTypeOK == TypeOK /\ [Next]_registryVars => TypeOK'
<1> SUFFICES ASSUME TypeOK, [Next]_registryVars PROVE TypeOK'  OBVIOUS
<1>st. StoreTypeOK  BY DEF TypeOK, StoreTypeOK
<1>rt. \A k : GetTagsFor(k) \in SUBSET AnyTag  BY ReadTags DEF TypeOK
<1>1. ASSUME NEW a \in AdapterId, AddAdapter(a) PROVE TypeOK'
  <2>1. IsMap(adapter_by_id', AdapterId, SUBSET ServiceId)
    BY <1>1, PutMap DEF TypeOK, AddAdapter
  <2> QED  BY <1>1, <2>1 DEF TypeOK, AddAdapter, store
<1>2. ASSUME NEW a \in AdapterId, RemoveAdapter(a) PROVE TypeOK'
  <2>1. IsMap(adapter_by_id', AdapterId, SUBSET ServiceId)
    BY <1>2, DropMap DEF TypeOK, RemoveAdapter
  <2>2. AuxRemoveServices(adapter_by_id[a])  BY <1>2 DEF RemoveAdapter
  <2> QED  BY <2>1, <2>2, AuxRemoveServicesType DEF TypeOK, StoreTypeOK
<1>3. ASSUME NEW s \in ServiceId, NEW a \in AdapterId, NEW tags \in SUBSET TagId,
             AddService(s, a, tags)
      PROVE TypeOK'
  <2>1. IsMap(adapter_by_id', AdapterId, SUBSET ServiceId)
    <3>1. \A x \in DOMAIN adapter_by_id : adapter_by_id[x] \in SUBSET ServiceId
      BY DEF TypeOK, IsMap
    <3>2. adapter_by_id' \in [DOMAIN adapter_by_id -> SUBSET ServiceId]
      BY <1>3, <3>1 DEF TypeOK, IsMap, AddService
    <3> QED  BY <3>2 DEF TypeOK, IsMap
  <2>2. IsMap(service_by_id', ServiceId, ServiceData)
    <3>1. [adapter |-> a, tags |-> tags \cup GetTagsFor(s),
           getters |-> {}, setters |-> {}] \in ServiceData
      BY <1>rt DEF ServiceData, AnyTag
    <3> QED  BY <1>3, <3>1, PutMap DEF TypeOK, AddService
  <2>3. given' \subseteq ObjectId \X TagId
    BY <1>3 DEF TypeOK, AddService, Supply, Rows, ObjectId
  <2> QED  BY <1>3, <2>1, <2>2, <2>3 DEF TypeOK, AddService
<1>4. ASSUME NEW s \in ServiceId, RemoveService(s) PROVE TypeOK'
  <2>1. AuxRemoveServices({s})  BY <1>4 DEF RemoveService
  <2>2. adapter_by_id' \in [DOMAIN adapter_by_id -> SUBSET ServiceId]
    BY <1>4 DEF TypeOK, IsMap, RemoveService
  <2>3. IsMap(adapter_by_id', AdapterId, SUBSET ServiceId)
    BY <2>2 DEF TypeOK, IsMap
  <2> QED  BY <2>1, <2>3, AuxRemoveServicesType DEF TypeOK, StoreTypeOK
<1>5. ASSUME NEW s \in ServiceId, NEW a \in AdapterId, NEW tags \in SUBSET TagId,
             NEW readable \in BOOLEAN, NEW g \in GetterId,
             AddGetter(g, s, a, tags, readable)
      PROVE TypeOK'
  <2>1. StoreTypeOK'  BY <1>5, <1>st, ReadStoreType DEF AddGetter, ObjectId
  <2>2. \A x \in DOMAIN service_by_id : service_by_id[x] \in ServiceData
    BY DEF TypeOK, IsMap
  <2>3. service_by_id' \in [DOMAIN service_by_id -> ServiceData]
    BY <1>5, <2>2 DEF TypeOK, IsMap, AddGetter, ServiceData
  <2>4. IsMap(service_by_id', ServiceId, ServiceData)
    BY <2>3 DEF TypeOK, IsMap
  <2>5. [service |-> s, adapter |-> a, tags |-> tags \cup StoredTags(g, readable)]
          \in ChannelData
    BY <1>rt DEF ChannelData, StoredTags, AnyTag
  <2>6. IsMap(getter_by_id', GetterId, ChannelData)
    BY <1>5, <2>5, PutMap DEF TypeOK, AddGetter
  <2>7. given' \subseteq ObjectId \X TagId
    BY <1>5 DEF TypeOK, AddGetter, Supply, Rows, ObjectId
  <2> QED  BY <1>5, <2>1, <2>4, <2>6, <2>7 DEF TypeOK, StoreTypeOK, AddGetter
<1>6. ASSUME NEW s \in ServiceId, NEW a \in AdapterId, NEW tags \in SUBSET TagId,
             NEW readable \in BOOLEAN, NEW t \in SetterId,
             AddSetter(t, s, a, tags, readable)
      PROVE TypeOK'
  <2>1. StoreTypeOK'  BY <1>6, <1>st, ReadStoreType DEF AddSetter, ObjectId
  <2>2. \A x \in DOMAIN service_by_id : service_by_id[x] \in ServiceData
    BY DEF TypeOK, IsMap
  <2>3. service_by_id' \in [DOMAIN service_by_id -> ServiceData]
    BY <1>6, <2>2 DEF TypeOK, IsMap, AddSetter, ServiceData
  <2>4. IsMap(service_by_id', ServiceId, ServiceData)
    BY <2>3 DEF TypeOK, IsMap
  <2>5. [service |-> s, adapter |-> a, tags |-> tags \cup StoredTags(t, readable)]
          \in ChannelData
    BY <1>rt DEF ChannelData, StoredTags, AnyTag
  <2>6. IsMap(setter_by_id', SetterId, ChannelData)
    BY <1>6, <2>5, PutMap DEF TypeOK, AddSetter
  <2>7. given' \subseteq ObjectId \X TagId
    BY <1>6 DEF TypeOK, AddSetter, Supply, Rows, ObjectId
  <2> QED  BY <1>6, <2>1, <2>4, <2>6, <2>7 DEF TypeOK, StoreTypeOK, AddSetter
<1>7. ASSUME NEW g \in GetterId, RemoveGetter(g) PROVE TypeOK'
  <2>1. IsMap(getter_by_id', GetterId, ChannelData)
    BY <1>7, DropMap DEF TypeOK, RemoveGetter
  <2>2. \A x \in DOMAIN service_by_id : service_by_id[x] \in ServiceData
    BY DEF TypeOK, IsMap
  <2>3. service_by_id' \in [DOMAIN service_by_id -> ServiceData]
    <3> DEFINE s == getter_by_id[g].service
    <3>1. service_by_id' = [service_by_id EXCEPT ![s].getters = @ \ {g}]
      BY <1>7 DEF RemoveGetter
    <3> HIDE DEF s
    <3>2. service_by_id \in [DOMAIN service_by_id -> ServiceData]
      BY DEF TypeOK, IsMap
    <3> QED  BY <2>2, <3>1, <3>2 DEF ServiceData
  <2>4. IsMap(service_by_id', ServiceId, ServiceData)
    BY <2>3 DEF TypeOK, IsMap
  <2> QED  BY <1>7, <2>1, <2>4 DEF TypeOK, RemoveGetter
<1>8. ASSUME NEW t \in SetterId, RemoveSetter(t) PROVE TypeOK'
  <2>1. IsMap(setter_by_id', SetterId, ChannelData)
    BY <1>8, DropMap DEF TypeOK, RemoveSetter
  <2>2. \A x \in DOMAIN service_by_id : service_by_id[x] \in ServiceData
    BY DEF TypeOK, IsMap
  <2>3. service_by_id' \in [DOMAIN service_by_id -> ServiceData]
    <3> DEFINE s == setter_by_id[t].service
    <3>1. service_by_id' = [service_by_id EXCEPT ![s].setters = @ \ {t}]
      BY <1>8 DEF RemoveSetter
    <3> HIDE DEF s
    <3>2. service_by_id \in [DOMAIN service_by_id -> ServiceData]
      BY DEF TypeOK, IsMap
    <3> QED  BY <2>2, <3>1, <3>2 DEF ServiceData
  <2>4. IsMap(service_by_id', ServiceId, ServiceData)
    BY <2>3 DEF TypeOK, IsMap
  <2> QED  BY <1>8, <2>1, <2>4 DEF TypeOK, RemoveSetter
<1>9. ASSUME NEW tags \in SUBSET TagId, NEW ss \in SUBSET ServiceId,
             AddServiceTags(ss, tags) \/ RemoveServiceTags(ss, tags)
      PROVE TypeOK'
  <2>1. IsMap(service_by_id', ServiceId, ServiceData)
    BY <1>9, TaggedServicesType DEF TypeOK, AddServiceTags, RemoveServiceTags
  <2>2. StoreTypeOK'
    BY <1>9, <1>st, StoreAddTagsType, StoreRemoveTagsType
    DEF AddServiceTags, RemoveServiceTags, ObjectId
  <2> QED  BY <1>9, <2>1, <2>2 DEF TypeOK, StoreTypeOK, AddServiceTags, RemoveServiceTags
<1>10. ASSUME NEW tags \in SUBSET TagId, NEW gs \in SUBSET GetterId,
              AddGetterTags(gs, tags) \/ RemoveGetterTags(gs, tags)
       PROVE TypeOK'
  <2>1. IsMap(getter_by_id', GetterId, ChannelData)
    BY <1>10, TaggedType DEF TypeOK, AddGetterTags, RemoveGetterTags
  <2>2. /\ TagsInserted(getter_by_id, gs, tags) \in SUBSET ObjectId
        /\ TagsRemoved(getter_by_id, gs, tags) \in SUBSET ObjectId
    BY DEF TagsInserted, TagsRemoved, ObjectId
  <2>3. StoreTypeOK'
    BY <1>10, <1>st, <2>2, StoreAddTagsType, StoreRemoveTagsType
    DEF AddGetterTags, RemoveGetterTags
  <2> QED  BY <1>10, <2>1, <2>3 DEF TypeOK, StoreTypeOK, AddGetterTags, RemoveGetterTags
<1>11. ASSUME NEW tags \in SUBSET TagId, NEW ts \in SUBSET SetterId,
              AddSetterTags(ts, tags) \/ RemoveSetterTags(ts, tags)
       PROVE TypeOK'
  <2>1. IsMap(setter_by_id', SetterId, ChannelData)
    BY <1>11, TaggedType DEF TypeOK, AddSetterTags, RemoveSetterTags
  <2>2. /\ TagsInserted(setter_by_id, ts, tags) \in SUBSET ObjectId
        /\ TagsRemoved(setter_by_id, ts, tags) \in SUBSET ObjectId
    BY DEF TagsInserted, TagsRemoved, ObjectId
  <2>3. StoreTypeOK'
    BY <1>11, <1>st, <2>2, StoreAddTagsType, StoreRemoveTagsType
    DEF AddSetterTags, RemoveSetterTags
  <2> QED  BY <1>11, <2>1, <2>3 DEF TypeOK, StoreTypeOK, AddSetterTags, RemoveSetterTags
<1>12. CASE Stop
  BY <1>12, EmptyMapType DEF TypeOK, Stop
<1>13. CASE UNCHANGED registryVars
  BY <1>13 DEF TypeOK, registryVars, maps, store
<1> QED
  BY <1>1, <1>2, <1>3, <1>4, <1>5, <1>6, <1>7, <1>8, <1>9, <1>10, <1>11, <1>12, <1>13
  DEF Next

(* Every reachable state of the registry is well-typed.                     *)
THEOREM TypeCorrect == Spec => []TypeOK
  BY InitTypeOK, NextTypeOK, PTL DEF Spec

-----------------------------------------------------------------------------
(* Consistency of the maps.  It is inductive together with the types, which *)
(* say that each map is a function.                                         *)
IInv == TypeOK /\ Consistent

(* The maps are functions with the values their types give.                 *)
LEMMA MapFacts ==
  ASSUME TypeOK
  PROVE  /\ adapter_by_id \in [DOMAIN adapter_by_id -> SUBSET ServiceId]
         /\ service_by_id \in [DOMAIN service_by_id -> ServiceData]
         /\ getter_by_id \in [DOMAIN getter_by_id -> ChannelData]
         /\ setter_by_id \in [DOMAIN setter_by_id -> ChannelData]
  BY DEF TypeOK, IsMap

(* Editing tags leaves everything else of an object alone.                  *)
LEMMA TaggedChannels ==
  ASSUME NEW m, m \in [DOMAIN m -> ChannelData], NEW ids, NEW tags
  PROVE  \A m2 \in {Tagged(m, ids, tags), Untagged(m, ids, tags)} :
         /\ DOMAIN m2 = DOMAIN m
         /\ \A x \in DOMAIN m : m2[x].adapter = m[x].adapter /\ m2[x].service = m[x].service
  BY DEF Tagged, Untagged, ChannelData

LEMMA TaggedServices ==
  ASSUME NEW m, m \in [DOMAIN m -> ServiceData], NEW ids, NEW tags
  PROVE  \A m2 \in {Tagged(m, ids, tags), Untagged(m, ids, tags)} :
         /\ DOMAIN m2 = DOMAIN m
         /\ \A x \in DOMAIN m : /\ m2[x].adapter = m[x].adapter
                                /\ m2[x].getters = m[x].getters
                                /\ m2[x].setters = m[x].setters
  BY DEF Tagged, Untagged, ServiceData

LEMMA NextConsistent == IInv /\ [Next]_registryVars => Consistent'
<1> SUFFICES ASSUME TypeOK, Consistent, [Next]_registryVars PROVE Consistent'
  BY DEF IInv
<1> USE MapFacts DEF Consistent, ServicesConsistent, ChannelsConsistent, GettersOf, SettersOf
<1>1. ASSUME NEW a \in AdapterId, AddAdapter(a) PROVE Consistent'
  BY <1>1 DEF AddAdapter, Put
<1>2. ASSUME NEW a \in AdapterId, RemoveAdapter(a) PROVE Consistent'
  <2> USE <1>2 DEF RemoveAdapter, AuxRemoveServices, Drop, Restrict
  <2>1. ServicesConsistent'  OBVIOUS
  <2>2. ChannelsConsistent(getter_by_id, GettersOf)'  OBVIOUS
  <2>3. ChannelsConsistent(setter_by_id, SettersOf)'  OBVIOUS
  <2> QED  BY <2>1, <2>2, <2>3
<1>3. ASSUME NEW s \in ServiceId, NEW a \in AdapterId, NEW tags \in SUBSET TagId,
             AddService(s, a, tags)
      PROVE Consistent'
  <2> USE <1>3 DEF AddService, Put
  <2>1. ServicesConsistent'  OBVIOUS
  <2>2. ChannelsConsistent(getter_by_id, GettersOf)'  OBVIOUS
  <2>3. ChannelsConsistent(setter_by_id, SettersOf)'  OBVIOUS
  <2> QED  BY <2>1, <2>2, <2>3
<1>4. ASSUME NEW s \in ServiceId, RemoveService(s) PROVE Consistent'
  <2> USE <1>4 DEF RemoveService, AuxRemoveServices, Drop, Restrict
  <2>1. ServicesConsistent'  OBVIOUS
  <2>2. ChannelsConsistent(getter_by_id, GettersOf)'  OBVIOUS
  <2>3. ChannelsConsistent(setter_by_id, SettersOf)'  OBVIOUS
  <2> QED  BY <2>1, <2>2, <2>3
<1>5. ASSUME NEW s \in ServiceId, NEW a \in AdapterId, NEW tags \in SUBSET TagId,
             NEW readable \in BOOLEAN, NEW g \in GetterId,
             AddGetter(g, s, a, tags, readable)
      PROVE Consistent'
  <2> USE <1>5 DEF AddGetter, Put, ServiceData
  <2>1. ServicesConsistent'  OBVIOUS
  <2>4. /\ DOMAIN service_by_id' = DOMAIN service_by_id /\ s \in DOMAIN service_by_id
        /\ \A x \in DOMAIN service_by_id : service_by_id'[x].adapter = service_by_id[x].adapter
        /\ service_by_id'[s].getters = service_by_id[s].getters \cup {g}
        /\ \A x \in DOMAIN service_by_id : x # s => service_by_id'[x].getters = service_by_id[x].getters
    OBVIOUS
  <2>5. /\ DOMAIN getter_by_id' = DOMAIN getter_by_id \cup {g} /\ g \notin DOMAIN getter_by_id
        /\ getter_by_id'[g].service = s /\ getter_by_id'[g].adapter = service_by_id[s].adapter
        /\ \A x \in DOMAIN getter_by_id : getter_by_id'[x] = getter_by_id[x]
    OBVIOUS
  <2>2. ChannelsConsistent(getter_by_id, GettersOf)'
    BY ONLY Consistent, <2>4, <2>5 DEF Consistent, ChannelsConsistent, GettersOf
  <2>3. ChannelsConsistent(setter_by_id, SettersOf)'  OBVIOUS
  <2> QED  BY <2>1, <2>2, <2>3
<1>6. ASSUME NEW s \in ServiceId, NEW a \in AdapterId, NEW tags \in SUBSET TagId,
             NEW readable \in BOOLEAN, NEW t \in SetterId,
             AddSetter(t, s, a, tags, readable)
      PROVE Consistent'
  <2> USE <1>6 DEF AddSetter, Put, ServiceData
  <2>1. ServicesConsistent'  OBVIOUS
  <2>4. /\ DOMAIN service_by_id' = DOMAIN service_by_id /\ s \in DOMAIN service_by_id
        /\ \A x \in DOMAIN service_by_id : service_by_id'[x].adapter = service_by_id[x].adapter
        /\ service_by_id'[s].setters = service_by_id[s].setters \cup {t}
        /\ \A x \in DOMAIN service_by_id : x # s => service_by_id'[x].setters = service_by_id[x].setters
    OBVIOUS
  <2>5. /\ DOMAIN setter_by_id' = DOMAIN setter_by_id \cup {t} /\ t \notin DOMAIN setter_by_id
        /\ setter_by_id'[t].service = s /\ setter_by_id'[t].adapter = service_by_id[s].adapter
        /\ \A x \in DOMAIN setter_by_id : setter_by_id'[x] = setter_by_id[x]
    OBVIOUS
  <2>2. ChannelsConsistent(getter_by_id, GettersOf)'  OBVIOUS
  <2>3. ChannelsConsistent(setter_by_id, SettersOf)'
    BY ONLY Consistent, <2>4, <2>5 DEF Consistent, ChannelsConsistent, SettersOf
  <2> QED  BY <2>1, <2>2, <2>3
<1>7. ASSUME NEW g \in GetterId, RemoveGetter(g) PROVE Consistent'
  <2> USE <1>7 DEF RemoveGetter, Drop, Restrict, ServiceData
  <2>1. ServicesConsistent'  OBVIOUS
  <2>2. ChannelsConsistent(getter_by_id, GettersOf)'  OBVIOUS
  <2>3. ChannelsConsistent(setter_by_id, SettersOf)'  OBVIOUS
  <2> QED  BY <2>1, <2>2, <2>3
<1>8. ASSUME NEW t \in SetterId, RemoveSetter(t) PROVE Consistent'
  <2> USE <1>8 DEF RemoveSetter, Drop, Restrict, ServiceData
  <2>1. ServicesConsistent'  OBVIOUS
  <2>2. ChannelsConsistent(getter_by_id, GettersOf)'  OBVIOUS
  <2>3. ChannelsConsistent(setter_by_id, SettersOf)'  OBVIOUS
  <2> QED  BY <2>1, <2>2, <2>3
<1>9. ASSUME NEW tags \in SUBSET TagId, NEW ss \in SUBSET ServiceId,
             AddServiceTags(ss, tags) \/ RemoveServiceTags(ss, tags)
      PROVE Consistent'
  <2>1. /\ DOMAIN service_by_id' = DOMAIN service_by_id
        /\ \A x \in DOMAIN service_by_id :
               /\ service_by_id'[x].adapter = service_by_id[x].adapter
               /\ service_by_id'[x].getters = service_by_id[x].getters
               /\ service_by_id'[x].setters = service_by_id[x].setters
    <3>1. service_by_id' \in {Tagged(service_by_id, ss, tags), Untagged(service_by_id, ss, tags)}
      BY ONLY <1>9 DEF AddServiceTags, RemoveServiceTags
    <3>2. service_by_id \in [DOMAIN service_by_id -> ServiceData]
      BY ONLY TypeOK, MapFacts
    <3> QED  BY ONLY <3>1, <3>2, TaggedServices
  <2>2. UNCHANGED <<adapter_by_id, getter_by_id, setter_by_id>>
    BY <1>9 DEF AddServiceTags, RemoveServiceTags
  <2> QED  BY <2>1, <2>2
<1>10. ASSUME NEW tags \in SUBSET TagId, NEW gs \in SUBSET GetterId,
              AddGetterTags(gs, tags) \/ RemoveGetterTags(gs, tags)
       PROVE Consistent'
  <2>1. /\ DOMAIN getter_by_id' = DOMAIN getter_by_id
        /\ \A x \in DOMAIN getter_by_id :
               /\ getter_by_id'[x].adapter = getter_by_id[x].adapter
               /\ getter_by_id'[x].service = getter_by_id[x].service
    <3>1. getter_by_id' \in {Tagged(getter_by_id, gs, tags), Untagged(getter_by_id, gs, tags)}
      BY ONLY <1>10 DEF AddGetterTags, RemoveGetterTags
    <3>2. getter_by_id \in [DOMAIN getter_by_id -> ChannelData]
      BY ONLY TypeOK, MapFacts
    <3> QED  BY ONLY <3>1, <3>2, TaggedChannels
  <2>2. UNCHANGED <<adapter_by_id, service_by_id, setter_by_id>>
    BY <1>10 DEF AddGetterTags, RemoveGetterTags
  <2> QED  BY <2>1, <2>2
<1>11. ASSUME NEW tags \in SUBSET TagId, NEW ts \in SUBSET SetterId,
              AddSetterTags(ts, tags) \/ RemoveSetterTags(ts, tags)
       PROVE Consistent'
  <2>1. /\ DOMAIN setter_by_id' = DOMAIN setter_by_id
        /\ \A x \in DOMAIN setter_by_id :
               /\ setter_by_id'[x].adapter = setter_by_id[x].adapter
               /\ setter_by_id'[x].service = setter_by_id[x].service
    <3>1. setter_by_id' \in {Tagged(setter_by_id, ts, tags), Untagged(setter_by_id, ts, tags)}
      BY ONLY <1>11 DEF AddSetterTags, RemoveSetterTags
    <3>2. setter_by_id \in [DOMAIN setter_by_id -> ChannelData]
      BY ONLY TypeOK, MapFacts
    <3> QED  BY ONLY <3>1, <3>2, TaggedChannels
  <2>2. UNCHANGED <<adapter_by_id, service_by_id, getter_by_id>>
    BY <1>11 DEF AddSetterTags, RemoveSetterTags
  <2> QED  BY <2>1, <2>2
<1>12. CASE Stop
  BY <1>12 DEF Stop, EmptyMap
<1>13. CASE UNCHANGED registryVars
  BY <1>13 DEF registryVars, maps, store
<1> HIDE DEF Consistent
<1> QED
  BY ONLY [Next]_registryVars,
     <1>1, <1>2, <1>3, <1>4, <1>5, <1>6, <1>7, <1>8, <1>9, <1>10, <1>11, <1>12, <1>13
  DEF Next

(* The four maps are mutually consistent in every reachable state, so the   *)
(* assertions "Could not find adapter" of backend.rs never fire.            *)
THEOREM RegistryConsistent == Spec => []Consistent
<1>1. Init => Consistent
  BY DEF Init, EmptyMap, Consistent, ServicesConsistent, ChannelsConsistent,
         GettersOf, SettersOf
<1>2. TypeOK /\ Consistent /\ [Next]_registryVars => Consistent'
  BY NextConsistent DEF IInv
<1> QED  BY <1>1, <1>2, TypeCorrect, PTL DEF Spec

-----------------------------------------------------------------------------
(* Tags in memory and in the store, row by row.  Without a db_path nothing  *)
(* is ever stored; the rest is TagsAsStored for one row, to which a tag     *)
(* that has a quote, or that is the doubled form of one that has, is the    *)
(* exception.                                                               *)
TagOf(m, o, t) == o \in DOMAIN m /\ t \in m[o].tags

InMemory(o, t) ==
  TagOf(service_by_id, o, t) \/ TagOf(getter_by_id, o, t) \/ TagOf(setter_by_id, o, t)

RowKept(o, t) ==
  /\ t \notin Quoted /\ <<o, t>> \in db /\ o \in Registered => InMemory(o, t) \/ <<o, t>> \in lost
  /\ t \notin Doubled /\ Persistent /\ InMemory(o, t) =>
       <<o, t>> \in db \/ <<o, t>> \in given \/ <<o, t>> \in lost

TagsInv ==
  /\ ~Persistent => db = {}
  /\ \A o \in ObjectId, t \in TagId : RowKept(o, t)

(* The union over the objects is a disjunction.                             *)
LEMMA InRows ==
  ASSUME NEW m, NEW o, NEW t
  PROVE  <<o, t>> \in UNION {Rows({x}, m[x].tags) : x \in DOMAIN m} <=> TagOf(m, o, t)
<1>1. ASSUME <<o, t>> \in UNION {Rows({x}, m[x].tags) : x \in DOMAIN m}
      PROVE  TagOf(m, o, t)
  <2>1. PICK S \in {Rows({x}, m[x].tags) : x \in DOMAIN m} : <<o, t>> \in S
    BY <1>1
  <2>2. PICK x \in DOMAIN m : S = Rows({x}, m[x].tags)
    BY <2>1
  <2> QED  BY <2>1, <2>2 DEF Rows, TagOf
<1>2. ASSUME TagOf(m, o, t)
      PROVE  <<o, t>> \in UNION {Rows({x}, m[x].tags) : x \in DOMAIN m}
  <2>1. Rows({o}, m[o].tags) \in {Rows({x}, m[x].tags) : x \in DOMAIN m}
    BY <1>2, Zenon DEF TagOf
  <2>2. <<o, t>> \in Rows({o}, m[o].tags)
    BY <1>2 DEF Rows, TagOf
  <2> QED  BY <2>1, <2>2, Zenon
<1> QED  BY <1>1, <1>2

LEMMA InTagsInMemory == \A o, t : <<o, t>> \in TagsInMemory <=> InMemory(o, t)
<1> TAKE o, t
<1> DEFINE S == UNION {Rows({s}, service_by_id[s].tags) : s \in DOMAIN service_by_id}
           G == UNION {Rows({g}, getter_by_id[g].tags) : g \in DOMAIN getter_by_id}
           T == UNION {Rows({t2}, setter_by_id[t2].tags) : t2 \in DOMAIN setter_by_id}
<1>1. /\ <<o, t>> \in S <=> TagOf(service_by_id, o, t)
      /\ <<o, t>> \in G <=> TagOf(getter_by_id, o, t)
      /\ <<o, t>> \in T <=> TagOf(setter_by_id, o, t)
  BY InRows
<1>2. TagsInMemory = S \cup G \cup T
  BY DEF TagsInMemory
<1> HIDE DEF S, G, T
<1> QED  BY <1>1, <1>2 DEF InMemory

LEMMA TagsInvImplies == TypeOK /\ TagsInv => TagsAsStored
<1> SUFFICES ASSUME TypeOK, TagsInv PROVE TagsAsStored  OBVIOUS
<1>t. /\ db \subseteq ObjectId \X TagId
      /\ \A o, t : InMemory(o, t) => o \in ObjectId /\ t \in AnyTag
  BY MapFacts DEF TypeOK, IsMap, InMemory, TagOf, ObjectId, ServiceData, ChannelData
<1>1. ASSUME NEW row \in RowsOf(Registered), row[2] \notin Quoted
      PROVE  row \in TagsInMemory \cup lost
  <2>1. PICK o \in ObjectId, t \in TagId : row = <<o, t>>
    BY <1>t DEF RowsOf
  <2> QED  BY <1>1, <2>1, InTagsInMemory DEF RowsOf, TagsInv, RowKept
<1>2. ASSUME Persistent, NEW row \in TagsInMemory, row[2] \notin Doubled
      PROVE  row \in db \cup given \cup lost
  <2>1. PICK o, t : row = <<o, t>>
    BY <1>2 DEF TagsInMemory, Rows
  <2>2. InMemory(o, t)
    BY <1>2, <2>1, InTagsInMemory
  <2>3. o \in ObjectId /\ t \in TagId
    BY <1>t, <1>2, <2>1, <2>2 DEF AnyTag
  <2> QED  BY <1>2, <2>1, <2>2, <2>3 DEF TagsInv, RowKept
<1> QED  BY <1>1, <1>2 DEF TagsAsStored, StoredTagsInMemory, TagsSurvive

(* What a call to the store may have done to one row.  A row that the call  *)
(* was to write is written, or is known to be lost; every other row is      *)
(* left alone.                                                              *)
LEMMA StoreAddRow ==
  ASSUME NEW ids, NEW tags, StoreAddTags(ids, tags), NEW o, NEW t
  PROVE  /\ ~Persistent => UNCHANGED <<db, lost>>
         /\ <<o, t>> \in db => <<o, t>> \in db'
         /\ <<o, t>> \in lost => <<o, t>> \in db' \/ <<o, t>> \in lost'
         /\ Persistent /\ o \in ids /\ t \in tags => <<o, t>> \in db' \/ <<o, t>> \in lost'
         /\ ~(o \in ids /\ t \in tags) =>
              /\ <<o, t>> \in db' <=> <<o, t>> \in db
              /\ <<o, t>> \in lost' <=> <<o, t>> \in lost
<1>1. CASE ~Persistent  BY <1>1 DEF StoreAddTags
<1>2. CASE Persistent
  <2>1. PICK written \in SUBSET Rows(ids, tags) :
          /\ db' = db \cup written
          /\ lost' = (lost \ written) \cup (Rows(ids, tags) \ (db \cup written))
    BY <1>2 DEF StoreAddTags
  <2>2. <<o, t>> \in Rows(ids, tags) <=> o \in ids /\ t \in tags
    BY DEF Rows
  <2> QED  BY <1>2, <2>1, <2>2
<1> QED  BY <1>1, <1>2

LEMMA StoreRemoveRow ==
  ASSUME NEW ids, NEW tags, StoreRemoveTags(ids, tags), NEW o, NEW t
  PROVE  /\ ~Persistent => UNCHANGED <<db, lost>>
         /\ <<o, t>> \in db' => <<o, t>> \in db
         /\ Persistent /\ o \in ids /\ t \in tags => <<o, t>> \notin db' \/ <<o, t>> \in lost'
         /\ ~(o \in ids /\ t \in tags) =>
              /\ <<o, t>> \in db' <=> <<o, t>> \in db
              /\ <<o, t>> \in lost' <=> <<o, t>> \in lost
<1>1. CASE Persistent
  <2>1. PICK written \in SUBSET Rows(ids, tags) :
          /\ db' = db \ written
          /\ lost' = (lost \ written) \cup ((Rows(ids, tags) \ written) \cap db)
    BY <1>1 DEF StoreRemoveTags
  <2>2. <<o, t>> \in Rows(ids, tags) <=> o \in ids /\ t \in tags
    BY DEF Rows
  <2> QED  BY <1>1, <2>1, <2>2
<1>2. CASE ~Persistent  BY <1>2 DEF StoreRemoveTags
<1> QED  BY <1>1, <1>2

(* The tags that editing gives and takes.                                   *)
LEMMA TaggedTags ==
  ASSUME NEW m, \/ m \in [DOMAIN m -> ChannelData]
                \/ m \in [DOMAIN m -> ServiceData],
         NEW ids, NEW tags, NEW o, NEW t
  PROVE  /\ TagOf(Tagged(m, ids, tags), o, t) <=>
              o \in DOMAIN m /\ (TagOf(m, o, t) \/ (o \in ids /\ t \in tags))
         /\ TagOf(Untagged(m, ids, tags), o, t) <=>
              TagOf(m, o, t) /\ ~(o \in ids /\ t \in tags)
<1>1. ASSUME NEW x \in DOMAIN m
      PROVE  /\ [m[x] EXCEPT !.tags = @ \cup tags].tags = m[x].tags \cup tags
             /\ [m[x] EXCEPT !.tags = @ \ tags].tags = m[x].tags \ tags
  BY <1>1 DEF ChannelData, ServiceData
<1>2. /\ DOMAIN Tagged(m, ids, tags) = DOMAIN m
      /\ DOMAIN Untagged(m, ids, tags) = DOMAIN m
  BY DEF Tagged, Untagged
<1>3. ASSUME NEW x \in DOMAIN m
      PROVE  /\ Tagged(m, ids, tags)[x].tags = IF x \in ids THEN m[x].tags \cup tags ELSE m[x].tags
             /\ Untagged(m, ids, tags)[x].tags = IF x \in ids THEN m[x].tags \ tags ELSE m[x].tags
  BY <1>1 DEF Tagged, Untagged
<1> QED  BY <1>2, <1>3 DEF TagOf

(* Dropping and adding objects.                                             *)
LEMMA DropTags ==
  \A m, S, o, t : TagOf(Drop(m, S), o, t) <=> TagOf(m, o, t) /\ o \notin S
  BY DEF TagOf, Drop, Restrict

LEMMA PutTags ==
  \A m, k, v, o, t :
    TagOf(Put(m, k, v), o, t) <=> IF o = k THEN t \in v.tags ELSE TagOf(m, o, t)
  BY DEF TagOf, Put

(* The names of services, getters and setters are apart.                    *)
LEMMA NamesApart ==
  ASSUME TypeOK, NEW o
  PROVE  /\ o \in DOMAIN service_by_id => o \in ServiceId /\ o \notin GetterId /\ o \notin SetterId
         /\ o \in DOMAIN getter_by_id => o \in GetterId /\ o \notin ServiceId /\ o \notin SetterId
         /\ o \in DOMAIN setter_by_id => o \in SetterId /\ o \notin ServiceId /\ o \notin GetterId
  BY RegistryAssumption DEF TypeOK, IsMap

LEMMA AuxRemoveServicesTags ==
  ASSUME TypeOK, TagsInv, NEW ss, AuxRemoveServices(ss)
  PROVE  TagsInv'
<1> DEFINE present == ss \cap DOMAIN service_by_id
           getters == UNION {service_by_id[s].getters : s \in present}
           setters == UNION {service_by_id[s].setters : s \in present}
<1>1. getters \subseteq GetterId /\ setters \subseteq SetterId
  <2>1. \A s \in present : service_by_id[s].getters \subseteq GetterId /\ service_by_id[s].setters \subseteq SetterId
    BY MapFacts DEF ServiceData
  <2> QED  BY <2>1
<1>2. /\ service_by_id' = Drop(service_by_id, present)
      /\ getter_by_id' = Drop(getter_by_id, getters)
      /\ setter_by_id' = Drop(setter_by_id, setters)
      /\ given' = {row \in given : row[1] \notin present \cup getters \cup setters}
      /\ UNCHANGED <<db, failures, lost>>
  BY DEF AuxRemoveServices
<1>3. present \subseteq ServiceId
  BY DEF TypeOK, IsMap
<1> HIDE DEF present, getters, setters
<1> SUFFICES ASSUME NEW o \in ObjectId, NEW t \in TagId PROVE RowKept(o, t)'
  BY <1>2 DEF TagsInv
<1>4. /\ TagOf(service_by_id', o, t) <=> TagOf(service_by_id, o, t) /\ o \notin present
      /\ TagOf(getter_by_id', o, t) <=> TagOf(getter_by_id, o, t) /\ o \notin getters
      /\ TagOf(setter_by_id', o, t) <=> TagOf(setter_by_id, o, t) /\ o \notin setters
  BY <1>2, DropTags
<1>5. /\ o \in DOMAIN service_by_id' <=> o \in DOMAIN service_by_id /\ o \notin present
      /\ o \in DOMAIN getter_by_id' <=> o \in DOMAIN getter_by_id /\ o \notin getters
      /\ o \in DOMAIN setter_by_id' <=> o \in DOMAIN setter_by_id /\ o \notin setters
  BY <1>2 DEF Drop, Restrict
<1>6. <<o, t>> \in given' <=> <<o, t>> \in given /\ o \notin present \cup getters \cup setters
  BY <1>2
<1>7. RowKept(o, t)
  BY DEF TagsInv
<1>9. /\ TagOf(service_by_id, o, t) => o \in DOMAIN service_by_id
      /\ TagOf(getter_by_id, o, t) => o \in DOMAIN getter_by_id
      /\ TagOf(setter_by_id, o, t) => o \in DOMAIN setter_by_id
  BY DEF TagOf
<1> QED
  BY <1>1, <1>2, <1>3, <1>4, <1>5, <1>6, <1>7, <1>9, NamesApart DEF RowKept, InMemory, Registered

(* What is read back of a tag that has no quote is that tag, and what is    *)
(* read back that is not a doubled form is of the row of its own.           *)
LEMMA ReadBack ==
  ASSUME TypeOK, NEW k, NEW t
  PROVE  /\ t \in TagId /\ t \notin Quoted /\ <<k, t>> \in db => t \in GetTagsFor(k)
         /\ t \notin Doubled /\ t \in GetTagsFor(k) => <<k, t>> \in db
<1>1. ASSUME t \in TagId, t \notin Quoted, <<k, t>> \in db PROVE t \in GetTagsFor(k)
  <2>1. <<k, t>> \in RowsOf({k})
    BY <1>1 DEF RowsOf
  <2>2. Escape(t) = t
    BY <1>1 DEF Quoted
  <2> HIDE DEF Escape
  <2>3. Escape(<<k, t>>[2]) = t
    BY <2>2
  <2> QED  BY <2>1, <2>3 DEF GetTagsFor
<1>2. ASSUME t \notin Doubled, t \in GetTagsFor(k) PROVE <<k, t>> \in db
  <2>1. PICK row \in RowsOf({k}) : t = Escape(row[2])
    BY <1>2 DEF GetTagsFor
  <2>2. row = <<k, row[2]>> /\ row[2] \in TagId /\ row \in db
    BY <2>1 DEF RowsOf, TypeOK
  <2>3. Escape(row[2]) = row[2]
    BY <1>2, <2>1, <2>2, Zenon DEF Doubled, Quoted
  <2> QED  BY <2>1, <2>2, <2>3
<1> QED  BY <1>1, <1>2

(* The only tags that change are those of one object, which is new.         *)
LEMMA NewObjectTags ==
  ASSUME TypeOK, TagsInv, NEW k \in ObjectId, k \notin Registered, NEW tags \in SUBSET TagId,
         NEW readable \in BOOLEAN,
         Registered' = Registered \cup {k},
         \A t : InMemory(k, t)' <=> t \in tags \/ t \in StoredTags(k, readable),
         \A o, t : o # k => (InMemory(o, t)' <=> InMemory(o, t)),
         Supply(k, tags), UNCHANGED db,
         lost' = IF readable THEN lost ELSE lost \cup RowsOf({k})
  PROVE  TagsInv'
<1> SUFFICES ASSUME NEW o \in ObjectId, NEW t \in TagId PROVE RowKept(o, t)'
  BY DEF TagsInv
<1>1. RowKept(o, t)
  BY DEF TagsInv
<1>2. <<o, t>> \in lost => <<o, t>> \in lost'
  OBVIOUS
<1>3. <<o, t>> \in given => <<o, t>> \in given'
  BY DEF Supply
<1>4. CASE o # k
  BY <1>1, <1>2, <1>3, <1>4 DEF RowKept
<1>5. CASE o = k
  <2>1. /\ ~readable /\ <<k, t>> \in db => <<k, t>> \in lost'
        /\ t \notin Doubled /\ t \in StoredTags(k, readable) => <<k, t>> \in db
        /\ readable /\ t \notin Quoted /\ <<k, t>> \in db => t \in StoredTags(k, readable)
    BY ReadBack DEF RowsOf, StoredTags
  <2>2. Persistent /\ t \in tags => <<k, t>> \in given'
    BY DEF Supply, Rows
  <2> QED  BY <1>5, <2>1, <2>2 DEF RowKept
<1> QED  BY <1>4, <1>5

(* Editing the tags of some objects, of which those whose tags change are   *)
(* told to the store.                                                       *)
LEMMA AddTagsKeepsRows ==
  ASSUME TagsInv, NEW ids, NEW told \in SUBSET ids, NEW tags,
         ids \subseteq Registered, Registered' = Registered,
         \A o, t : InMemory(o, t)' <=> InMemory(o, t) \/ (o \in ids /\ t \in tags),
         \A o \in ids : \A t \in tags : o \in told \/ InMemory(o, t),
         StoreAddTags(told, tags), UNCHANGED given
  PROVE  TagsInv'
<1>1. ~Persistent => db' = {}
  BY StoreAddRow DEF TagsInv, StoreAddTags
<1>2. ASSUME NEW o \in ObjectId, NEW t \in TagId PROVE RowKept(o, t)'
  BY StoreAddRow DEF TagsInv, RowKept
<1> QED  BY <1>1, <1>2 DEF TagsInv

LEMMA RemoveTagsKeepsRows ==
  ASSUME TagsInv, NEW ids, NEW told \in SUBSET ids, NEW tags,
         ids \subseteq Registered, Registered' = Registered,
         \A o, t : InMemory(o, t)' <=> InMemory(o, t) /\ ~(o \in ids /\ t \in tags),
         \A o \in ids : \A t \in tags : o \in told \/ ~InMemory(o, t),
         StoreRemoveTags(told, tags), UNCHANGED given
  PROVE  TagsInv'
<1>1. ~Persistent => db' = {}
  BY DEF TagsInv, StoreRemoveTags
<1>2. ASSUME NEW o \in ObjectId, NEW t \in TagId PROVE RowKept(o, t)'
  BY StoreRemoveRow DEF TagsInv, RowKept
<1> QED  BY <1>1, <1>2 DEF TagsInv

LEMMA NextTagsInv == TypeOK /\ TagsInv /\ [Next]_registryVars => TagsInv'
<1> SUFFICES ASSUME TypeOK, TagsInv, [Next]_registryVars PROVE TagsInv'
  OBVIOUS
<1>1. ASSUME NEW a \in AdapterId, AddAdapter(a) PROVE TagsInv'
  BY <1>1 DEF AddAdapter, store, TagsInv, RowKept, InMemory, Registered
<1>2. ASSUME NEW a \in AdapterId, RemoveAdapter(a) PROVE TagsInv'
  BY <1>2, AuxRemoveServicesTags DEF RemoveAdapter
<1>3. ASSUME NEW s \in ServiceId, NEW a \in AdapterId, NEW tags \in SUBSET TagId,
             AddService(s, a, tags)
      PROVE TagsInv'
  <2>1. s \in ObjectId /\ s \notin Registered
    BY <1>3, NamesApart DEF AddService, ObjectId, Registered
  <2>2. Registered' = Registered \cup {s}
    BY <1>3 DEF AddService, Put, Registered
  <2>3. \A o, t : InMemory(o, t)' <=>
          IF o = s THEN t \in tags \/ t \in StoredTags(s, TRUE) ELSE InMemory(o, t)
    <3> TAKE o, t
    <3>1. TagOf(service_by_id', o, t) <=>
            IF o = s THEN t \in tags \/ t \in StoredTags(s, TRUE) ELSE TagOf(service_by_id, o, t)
      BY <1>3, PutTags DEF AddService, StoredTags
    <3> QED  BY <1>3, <2>1, <3>1 DEF AddService, InMemory, TagOf, Registered
  <2> QED  BY <1>3, <2>1, <2>2, <2>3, NewObjectTags DEF AddService
<1>4. ASSUME NEW s \in ServiceId, RemoveService(s) PROVE TagsInv'
  BY <1>4, AuxRemoveServicesTags DEF RemoveService
<1>5. ASSUME NEW s \in ServiceId, NEW a \in AdapterId, NEW tags \in SUBSET TagId,
             NEW readable \in BOOLEAN, NEW g \in GetterId,
             AddGetter(g, s, a, tags, readable)
      PROVE TagsInv'
  <2>1. g \in ObjectId /\ g \notin Registered
    BY <1>5, NamesApart DEF AddGetter, ObjectId, Registered
  <2>2. DOMAIN service_by_id' = DOMAIN service_by_id
    BY <1>5 DEF AddGetter
  <2>3. Registered' = Registered \cup {g}
    BY <1>5, <2>2 DEF AddGetter, Put, Registered
  <2>4. \A o, t : InMemory(o, t)' <=>
          IF o = g THEN t \in tags \/ t \in StoredTags(g, readable) ELSE InMemory(o, t)
    <3> TAKE o, t
    <3>1. TagOf(getter_by_id', o, t) <=>
            IF o = g THEN t \in tags \/ t \in StoredTags(g, readable) ELSE TagOf(getter_by_id, o, t)
      BY <1>5, PutTags DEF AddGetter
    <3>2. TagOf(service_by_id', o, t) <=> TagOf(service_by_id, o, t)
      BY <1>5, <2>2, MapFacts DEF AddGetter, ServiceData, TagOf
    <3>3. TagOf(setter_by_id', o, t) <=> TagOf(setter_by_id, o, t)
      BY <1>5 DEF AddGetter
    <3> QED  BY <2>1, <3>1, <3>2, <3>3 DEF InMemory, TagOf, Registered
  <2> QED  BY <1>5, <2>1, <2>3, <2>4, NewObjectTags DEF AddGetter, ReadStore
<1>6. ASSUME NEW s \in ServiceId, NEW a \in AdapterId, NEW tags \in SUBSET TagId,
             NEW readable \in BOOLEAN, NEW k \in SetterId,
             AddSetter(k, s, a, tags, readable)
      PROVE TagsInv'
  <2>1. k \in ObjectId /\ k \notin Registered
    BY <1>6, NamesApart DEF AddSetter, ObjectId, Registered
  <2>2. DOMAIN service_by_id' = DOMAIN service_by_id
    BY <1>6 DEF AddSetter
  <2>3. Registered' = Registered \cup {k}
    BY <1>6, <2>2 DEF AddSetter, Put, Registered
  <2>4. \A o, t : InMemory(o, t)' <=>
          IF o = k THEN t \in tags \/ t \in StoredTags(k, readable) ELSE InMemory(o, t)
    <3> TAKE o, t
    <3>1. TagOf(setter_by_id', o, t) <=>
            IF o = k THEN t \in tags \/ t \in StoredTags(k, readable) ELSE TagOf(setter_by_id, o, t)
      BY <1>6, PutTags DEF AddSetter
    <3>2. TagOf(service_by_id', o, t) <=> TagOf(service_by_id, o, t)
      BY <1>6, <2>2, MapFacts DEF AddSetter, ServiceData, TagOf
    <3>3. TagOf(getter_by_id', o, t) <=> TagOf(getter_by_id, o, t)
      BY <1>6 DEF AddSetter
    <3> QED  BY <2>1, <3>1, <3>2, <3>3 DEF InMemory, TagOf, Registered
  <2> QED  BY <1>6, <2>1, <2>3, <2>4, NewObjectTags DEF AddSetter, ReadStore
<1>7. ASSUME NEW g \in GetterId, RemoveGetter(g) PROVE TagsInv'
  <2> SUFFICES ASSUME NEW o \in ObjectId, NEW t \in TagId PROVE RowKept(o, t)'
    BY <1>7 DEF TagsInv, RemoveGetter
  <2>1. TagOf(getter_by_id', o, t) <=> TagOf(getter_by_id, o, t) /\ o # g
    BY <1>7, DropTags DEF RemoveGetter
  <2>2. /\ DOMAIN service_by_id' = DOMAIN service_by_id
        /\ DOMAIN getter_by_id' = DOMAIN getter_by_id \ {g}
    BY <1>7 DEF RemoveGetter, Drop, Restrict
  <2>3. TagOf(service_by_id', o, t) <=> TagOf(service_by_id, o, t)
    BY <1>7, <2>2, MapFacts DEF RemoveGetter, ServiceData, TagOf
  <2>4. RowKept(o, t)
    BY DEF TagsInv
  <2>5. /\ TagOf(service_by_id, o, t) => o # g
        /\ TagOf(setter_by_id, o, t) => o # g
    BY <1>7, NamesApart DEF TagOf
  <2> QED  BY <1>7, <2>1, <2>2, <2>3, <2>4, <2>5, NamesApart
           DEF RemoveGetter, RowKept, InMemory, Registered
<1>8. ASSUME NEW k \in SetterId, RemoveSetter(k) PROVE TagsInv'
  <2> SUFFICES ASSUME NEW o \in ObjectId, NEW t \in TagId PROVE RowKept(o, t)'
    BY <1>8 DEF TagsInv, RemoveSetter
  <2>1. TagOf(setter_by_id', o, t) <=> TagOf(setter_by_id, o, t) /\ o # k
    BY <1>8, DropTags DEF RemoveSetter
  <2>2. /\ DOMAIN service_by_id' = DOMAIN service_by_id
        /\ DOMAIN setter_by_id' = DOMAIN setter_by_id \ {k}
    BY <1>8 DEF RemoveSetter, Drop, Restrict
  <2>3. TagOf(service_by_id', o, t) <=> TagOf(service_by_id, o, t)
    BY <1>8, <2>2, MapFacts DEF RemoveSetter, ServiceData, TagOf
  <2>4. RowKept(o, t)
    BY DEF TagsInv
  <2>5. /\ TagOf(service_by_id, o, t) => o # k
        /\ TagOf(getter_by_id, o, t) => o # k
    BY <1>8, NamesApart DEF TagOf
  <2> QED  BY <1>8, <2>1, <2>2, <2>3, <2>4, <2>5, NamesApart
           DEF RemoveSetter, RowKept, InMemory, Registered
<1>9. ASSUME NEW tags \in SUBSET TagId, NEW ss \in SUBSET ServiceId,
             AddServiceTags(ss, tags) \/ RemoveServiceTags(ss, tags)
      PROVE TagsInv'
  <2>1. Registered' = Registered /\ ss \subseteq Registered
    BY <1>9 DEF AddServiceTags, RemoveServiceTags, Tagged, Untagged, Registered
  <2>2. ASSUME AddServiceTags(ss, tags) PROVE TagsInv'
    <3>1. \A o, t : InMemory(o, t)' <=> InMemory(o, t) \/ (o \in ss /\ t \in tags)
      <4> TAKE o, t
      <4>1. TagOf(service_by_id', o, t) <=>
              o \in DOMAIN service_by_id /\ (TagOf(service_by_id, o, t) \/ (o \in ss /\ t \in tags))
        BY <2>2, TaggedTags, MapFacts DEF AddServiceTags
      <4>2. ss \subseteq DOMAIN service_by_id /\ UNCHANGED <<getter_by_id, setter_by_id>>
        BY <2>2 DEF AddServiceTags
      <4> QED  BY <4>1, <4>2 DEF InMemory, TagOf
    <3> QED  BY <2>1, <2>2, <3>1, AddTagsKeepsRows DEF AddServiceTags
  <2>3. ASSUME RemoveServiceTags(ss, tags) PROVE TagsInv'
    <3>1. \A o, t : InMemory(o, t)' <=> InMemory(o, t) /\ ~(o \in ss /\ t \in tags)
      <4> TAKE o, t
      <4>1. TagOf(service_by_id', o, t) <=> TagOf(service_by_id, o, t) /\ ~(o \in ss /\ t \in tags)
        BY <2>3, TaggedTags, MapFacts DEF RemoveServiceTags
      <4>2. ss \subseteq DOMAIN service_by_id /\ UNCHANGED <<getter_by_id, setter_by_id>>
        BY <2>3 DEF RemoveServiceTags
      <4> QED  BY <4>1, <4>2, NamesApart DEF InMemory, TagOf
    <3> QED  BY <2>1, <2>3, <3>1, RemoveTagsKeepsRows DEF RemoveServiceTags
  <2> QED  BY <1>9, <2>2, <2>3
<1>10. ASSUME NEW tags \in SUBSET TagId, NEW gs \in SUBSET GetterId,
              AddGetterTags(gs, tags) \/ RemoveGetterTags(gs, tags)
       PROVE TagsInv'
  <2>1. Registered' = Registered /\ gs \subseteq Registered
    BY <1>10 DEF AddGetterTags, RemoveGetterTags, Tagged, Untagged, Registered
  <2>2. ASSUME AddGetterTags(gs, tags) PROVE TagsInv'
    <3>1. \A o, t : InMemory(o, t)' <=> InMemory(o, t) \/ (o \in gs /\ t \in tags)
      <4> TAKE o, t
      <4>1. TagOf(getter_by_id', o, t) <=>
              o \in DOMAIN getter_by_id /\ (TagOf(getter_by_id, o, t) \/ (o \in gs /\ t \in tags))
        BY <2>2, TaggedTags, MapFacts DEF AddGetterTags
      <4>2. gs \subseteq DOMAIN getter_by_id /\ UNCHANGED <<service_by_id, setter_by_id>>
        BY <2>2 DEF AddGetterTags
      <4> QED  BY <4>1, <4>2 DEF InMemory, TagOf
    <3> DEFINE told == TagsInserted(getter_by_id, gs, tags)
    <3>2. told \in SUBSET gs /\ \A o \in gs : \A t \in tags : o \in told \/ InMemory(o, t)
      BY <2>2 DEF AddGetterTags, TagsInserted, InMemory, TagOf
    <3>3. StoreAddTags(told, tags) /\ UNCHANGED given
      BY <2>2 DEF AddGetterTags
    <3> HIDE DEF told
    <3> QED  BY <2>1, <3>1, <3>2, <3>3, AddTagsKeepsRows
  <2>3. ASSUME RemoveGetterTags(gs, tags) PROVE TagsInv'
    <3>1. \A o, t : InMemory(o, t)' <=> InMemory(o, t) /\ ~(o \in gs /\ t \in tags)
      <4> TAKE o, t
      <4>1. TagOf(getter_by_id', o, t) <=> TagOf(getter_by_id, o, t) /\ ~(o \in gs /\ t \in tags)
        BY <2>3, TaggedTags, MapFacts DEF RemoveGetterTags
      <4>2. gs \subseteq DOMAIN getter_by_id /\ UNCHANGED <<service_by_id, setter_by_id>>
        BY <2>3 DEF RemoveGetterTags
      <4> QED  BY <4>1, <4>2, NamesApart DEF InMemory, TagOf
    <3> DEFINE told == TagsRemoved(getter_by_id, gs, tags)
    <3>2. told \in SUBSET gs /\ \A o \in gs : \A t \in tags : o \in told \/ ~InMemory(o, t)
      BY <2>3, NamesApart DEF RemoveGetterTags, TagsRemoved, InMemory, TagOf
    <3>3. StoreRemoveTags(told, tags) /\ UNCHANGED given
      BY <2>3 DEF RemoveGetterTags
    <3> HIDE DEF told
    <3> QED  BY <2>1, <3>1, <3>2, <3>3, RemoveTagsKeepsRows
  <2> QED  BY <1>10, <2>2, <2>3
<1>11. ASSUME NEW tags \in SUBSET TagId, NEW ks \in SUBSET SetterId,
              AddSetterTags(ks, tags) \/ RemoveSetterTags(ks, tags)
       PROVE TagsInv'
  <2>1. Registered' = Registered /\ ks \subseteq Registered
    BY <1>11 DEF AddSetterTags, RemoveSetterTags, Tagged, Untagged, Registered
  <2>2. ASSUME AddSetterTags(ks, tags) PROVE TagsInv'
    <3>1. \A o, t : InMemory(o, t)' <=> InMemory(o, t) \/ (o \in ks /\ t \in tags)
      <4> TAKE o, t
      <4>1. TagOf(setter_by_id', o, t) <=>
              o \in DOMAIN setter_by_id /\ (TagOf(setter_by_id, o, t) \/ (o \in ks /\ t \in tags))
        BY <2>2, TaggedTags, MapFacts DEF AddSetterTags
      <4>2. ks \subseteq DOMAIN setter_by_id /\ UNCHANGED <<service_by_id, getter_by_id>>
        BY <2>2 DEF AddSetterTags
      <4> QED  BY <4>1, <4>2 DEF InMemory, TagOf
    <3> DEFINE told == TagsInserted(setter_by_id, ks, tags)
    <3>2. told \in SUBSET ks /\ \A o \in ks : \A t \in tags : o \in told \/ InMemory(o, t)
      BY <2>2 DEF AddSetterTags, TagsInserted, InMemory, TagOf
    <3>3. StoreAddTags(told, tags) /\ UNCHANGED given
      BY <2>2 DEF AddSetterTags
    <3> HIDE DEF told
    <3> QED  BY <2>1, <3>1, <3>2, <3>3, AddTagsKeepsRows
  <2>3. ASSUME RemoveSetterTags(ks, tags) PROVE TagsInv'
    <3>1. \A o, t : InMemory(o, t)' <=> InMemory(o, t) /\ ~(o \in ks /\ t \in tags)
      <4> TAKE o, t
      <4>1. TagOf(setter_by_id', o, t) <=> TagOf(setter_by_id, o, t) /\ ~(o \in ks /\ t \in tags)
        BY <2>3, TaggedTags, MapFacts DEF RemoveSetterTags
      <4>2. ks \subseteq DOMAIN setter_by_id /\ UNCHANGED <<service_by_id, getter_by_id>>
        BY <2>3 DEF RemoveSetterTags
      <4> QED  BY <4>1, <4>2, NamesApart DEF InMemory, TagOf
    <3> DEFINE told == TagsRemoved(setter_by_id, ks, tags)
    <3>2. told \in SUBSET ks /\ \A o \in ks : \A t \in tags : o \in told \/ ~InMemory(o, t)
      BY <2>3, NamesApart DEF RemoveSetterTags, TagsRemoved, InMemory, TagOf
    <3>3. StoreRemoveTags(told, tags) /\ UNCHANGED given
      BY <2>3 DEF RemoveSetterTags
    <3> HIDE DEF told
    <3> QED  BY <2>1, <3>1, <3>2, <3>3, RemoveTagsKeepsRows
  <2> QED  BY <1>11, <2>2, <2>3
<1>12. CASE Stop
  BY <1>12 DEF Stop, EmptyMap, TagsInv, RowKept, InMemory, TagOf, Registered
<1>13. CASE UNCHANGED registryVars
  BY <1>13 DEF registryVars, maps, store, TagsInv, RowKept, InMemory, Registered
<1> QED
  BY ONLY [Next]_registryVars,
     <1>1, <1>2, <1>3, <1>4, <1>5, <1>6, <1>7, <1>8, <1>9, <1>10, <1>11, <1>12, <1>13
  DEF Next

(* The tags of the registered objects and the rows of the store agree, both *)
(* ways, whatever is edited, fails or restarts: only the rows that a failed *)
(* call to SQLite left behind differ.                                       *)
THEOREM TagsSurviveRestarts == Spec => []TagsAsStored
<1>1. Init => TagsInv
  BY DEF Init, EmptyMap, TagsInv, RowKept, InMemory, TagOf
<1>2. TypeOK /\ TagsInv /\ [Next]_registryVars => TagsInv'
  BY NextTagsInv
<1>3. TypeOK /\ TagsInv => TagsAsStored
  BY TagsInvImplies
<1> QED  BY <1>1, <1>2, <1>3, TypeCorrect, PTL DEF Spec

-----------------------------------------------------------------------------
(* The protocol implements the registry.                                   *)

LEMMA WatchStepIsRegistryStep == [WatchNext]_watchVars => [Next]_registryVars
<1> SUFFICES ASSUME [WatchNext]_watchVars PROVE [Next]_registryVars  OBVIOUS
<1>1. ASSUME NEW t \in Thread, ThreadStep(t) PROVE [Next]_registryVars
  <2>1. ASSUME NEW s \in ServiceId, NEW a \in AdapterId, NEW tags \in SUBSET TagId,
               NEW readable \in BOOLEAN, NEW g \in GetterId,
               AddGetterAndWatch(t, g, s, a, tags, readable)
        PROVE  Next
    <3>1. AddGetter(g, s, a, tags, readable)  BY <2>1 DEF AddGetterAndWatch
    <3> QED  BY <3>1, Zenon DEF Next
  <2>2. ASSUME NEW tags \in SUBSET TagId, NEW gs \in SUBSET GetterId,
               AddGetterTagsAndWatch(t, gs, tags)
        PROVE  Next
    BY <2>2 DEF AddGetterTagsAndWatch, Next
  <2>3. ASSUME NEW watch \in TargetMaps, WatchValues(t, watch)
        PROVE  UNCHANGED registryVars
    BY <2>3 DEF WatchValues
  <2>4. SendStart(t) => UNCHANGED registryVars  BY DEF SendStart
  <2> QED  BY <1>1, <2>1, <2>2, <2>3, <2>4 DEF ThreadStep
<1>2. ASSUME NEW g \in GetterId, RemoveGetterAndUnwatch(g) PROVE Next
  BY <1>2 DEF RemoveGetterAndUnwatch, Next
<1>3. ASSUME NEW tags \in SUBSET TagId, NEW gs \in SUBSET GetterId,
             RemoveGetterTagsAndUnwatch(gs, tags)
      PROVE  Next
  BY <1>3 DEF RemoveGetterTagsAndUnwatch, Next
<1>4. OtherRegistryOperation => Next
  BY Zenon DEF OtherRegistryOperation, Next
<1>5. StopManager => Next  BY DEF StopManager, Next
<1>6. ASSUME NEW k \in DOMAIN guard, DropGuard(k) \/ SendRelease(k)
      PROVE  UNCHANGED registryVars
  BY <1>6 DEF DropGuard, SendRelease
<1>7. Handler => UNCHANGED registryVars
  BY DEF Handler, ReceiveStart, StartItem, RegisterOngoingWatch, ReceiveRelease, HandlerPanics, Die
<1>8. UNCHANGED watchVars => UNCHANGED registryVars  BY DEF watchVars
<1> QED  BY <1>1, <1>2, <1>3, <1>4, <1>5, <1>6, <1>7, <1>8 DEF WatchNext

(* A behaviour of the protocol is one of the registry, so what is proved of *)
(* the registry holds of the protocol.                                      *)
LEMMA WatchedRegistry == WatchSpec => Spec
<1>1. WatchInit => Init  BY DEF WatchInit
<1> QED  BY <1>1, WatchStepIsRegistryStep, PTL DEF WatchSpec, Spec

(* The registry stays consistent under the protocol, therefore.             *)
COROLLARY WatchedRegistryConsistent == WatchSpec => [](TypeOK /\ Consistent)
  BY WatchedRegistry, TypeCorrect, RegistryConsistent, PTL

-----------------------------------------------------------------------------
(* What each kind of step does to the watchers.                            *)

(* The getters that are registered, before and after.                       *)
LEMMA GetterDomains ==
  /\ \A gs, tags : AddGetterTags(gs, tags) \/ RemoveGetterTags(gs, tags) =>
       DOMAIN getter_by_id' = DOMAIN getter_by_id /\ gs \subseteq DOMAIN getter_by_id
  /\ \A g : RemoveGetter(g) =>
       g \in DOMAIN getter_by_id /\ DOMAIN getter_by_id' = DOMAIN getter_by_id \ {g}
  /\ OtherRegistryOperation => DOMAIN getter_by_id' \subseteq DOMAIN getter_by_id
<1>1. \A gs, tags : AddGetterTags(gs, tags) \/ RemoveGetterTags(gs, tags) =>
        DOMAIN getter_by_id' = DOMAIN getter_by_id /\ gs \subseteq DOMAIN getter_by_id
  BY DEF AddGetterTags, RemoveGetterTags, Tagged, Untagged
<1>2. \A g : RemoveGetter(g) =>
        g \in DOMAIN getter_by_id /\ DOMAIN getter_by_id' = DOMAIN getter_by_id \ {g}
  BY DEF RemoveGetter, Drop, Restrict
<1>3. ASSUME OtherRegistryOperation
      PROVE  DOMAIN getter_by_id' \subseteq DOMAIN getter_by_id
  <2>1. ASSUME NEW ss, AuxRemoveServices(ss)
        PROVE  DOMAIN getter_by_id' \subseteq DOMAIN getter_by_id
    BY <2>1 DEF AuxRemoveServices, Drop, Restrict
  <2>2. \/ \E ss : AuxRemoveServices(ss)
        \/ getter_by_id' = getter_by_id
    BY <1>3 DEF OtherRegistryOperation, AddAdapter, RemoveAdapter, AddService, RemoveService,
         AddSetter, RemoveSetter, AddServiceTags, RemoveServiceTags, AddSetterTags, RemoveSetterTags
  <2> QED  BY <2>1, <2>2
<1> QED  BY <1>1, <1>2, <1>3

(* Getters that may need registration: the watchers that are found are      *)
(* attached to them, and the listeners told; unless an assertion fails, the *)
(* items that watch values are handed to the caller.                        *)
LEMMA RegistrationEffect ==
  ASSUME WatchTypeOK, NEW t \in Thread, NEW gs \in SUBSET (DOMAIN getter_by_id'),
         DOMAIN getter_by_id' \subseteq GetterId, DOMAIN getter_by_id \subseteq DOMAIN getter_by_id',
         MayNeedRegistration(t, gs)
  PROVE  \E found \in SUBSET (GetterId \X DOMAIN watchers) :
           /\ getter_watchers' \in [DOMAIN getter_by_id' -> SUBSET WatchKey]
           /\ \A g \in DOMAIN getter_by_id' : \A k :
                k \in getter_watchers'[g] <=> \/ g \in DOMAIN getter_by_id /\ k \in getter_watchers[g]
                                              \/ <<g, k>> \in found
           /\ view' \in [0 .. watch_counter - 1 -> SUBSET GetterId]
           /\ \A k \in 0 .. watch_counter - 1 : \A g :
                g \in view'[k] <=> g \in view[k] \/ <<g, k>> \in found
           /\ \/ /\ failed_asserts' = failed_asserts \cup {"already_watching"}
                 /\ caller' = [caller EXCEPT ![t] = [Idle EXCEPT !.pc = "dead"]]
              \/ /\ failed_asserts' = failed_asserts
                 /\ \E request \in SUBSET found :
                      /\ RegisterWatches(t, request, NoKey)
                      /\ \A i \in found : WatchesValues(i[2]) => i \in request
           /\ UNCHANGED <<watch_counter, watchers, guard, refused, watch_queue, handler>>
<1> DEFINE attached(g) == IF g \in DOMAIN getter_watchers THEN getter_watchers[g] ELSE {}
           targets(g, k) == MatchingTargets(watchers[k].watch, g, getter_by_id', service_by_id')
           pairs == {i \in gs \X DOMAIN watchers :
                       /\ i[1] \notin DOMAIN watchers[i[2]].guards
                       /\ ~IsDropped(i[2])
                       /\ targets(i[1], i[2]) # {}}
           request == {i \in pairs : Watches(targets(i[1], i[2]))}
<1>1. /\ getter_watchers' = [g \in DOMAIN getter_by_id' |->
                              attached(g) \cup {i[2] : i \in {j \in pairs : j[1] = g}}]
      /\ view' = [k \in DOMAIN view |-> view[k] \cup {i[1] : i \in {j \in pairs : j[2] = k}}]
      /\ \/ /\ failed_asserts' = failed_asserts \cup {"already_watching"}
            /\ caller' = [caller EXCEPT ![t] = [Idle EXCEPT !.pc = "dead"]]
         \/ /\ failed_asserts' = failed_asserts
            /\ RegisterWatches(t, request, NoKey)
      /\ UNCHANGED <<watch_counter, watchers, guard, refused, watch_queue, handler>>
  BY Zenon DEF MayNeedRegistration
<1>2. pairs \in SUBSET (GetterId \X DOMAIN watchers) /\ request \in SUBSET pairs
  OBVIOUS
<1>3. \A i \in pairs : WatchesValues(i[2]) => i \in request
  <2>1. \A g, k : WatchesValues(k) /\ targets(g, k) # {} => Watches(targets(g, k))
    BY DEF WatchesValues, Watches, MatchingTargets
  <2> QED  BY <2>1
<1> HIDE DEF pairs, request
<1>4. \A i \in pairs : i = <<i[1], i[2]>> /\ i[1] \in GetterId /\ i[2] \in DOMAIN watchers
  BY <1>2
<1>5. /\ \A g, k : k \in {i[2] : i \in {j \in pairs : j[1] = g}} <=> <<g, k>> \in pairs
      /\ \A g, k : g \in {i[1] : i \in {j \in pairs : j[2] = k}} <=> <<g, k>> \in pairs
  BY <1>4
<1>6. DOMAIN watchers \subseteq WatchKey /\ 0 .. watch_counter - 1 \subseteq WatchKey
  BY WatchAssumption DEF WatchTypeOK, WatchKey
<1>7. \A g \in DOMAIN getter_by_id' :
        {i[2] : i \in {j \in pairs : j[1] = g}} \subseteq WatchKey /\ attached(g) \subseteq WatchKey
  BY <1>4, <1>6 DEF WatchTypeOK
<1>8. /\ getter_watchers' \in [DOMAIN getter_by_id' -> SUBSET WatchKey]
      /\ \A g \in DOMAIN getter_by_id' : \A k :
           k \in getter_watchers'[g] <=> \/ g \in DOMAIN getter_by_id /\ k \in getter_watchers[g]
                                         \/ <<g, k>> \in pairs
  BY <1>1, <1>5, <1>7 DEF WatchTypeOK
<1>9. /\ view' \in [0 .. watch_counter - 1 -> SUBSET GetterId]
      /\ \A k \in 0 .. watch_counter - 1 : \A g :
           g \in view'[k] <=> g \in view[k] \/ <<g, k>> \in pairs
  <2>1. DOMAIN view = 0 .. watch_counter - 1 /\ \A k \in DOMAIN view : view[k] \subseteq GetterId
    BY DEF WatchTypeOK
  <2> DEFINE told(k) == {i[1] : i \in {j \in pairs : j[2] = k}}
  <2>2. \A k : told(k) \subseteq GetterId /\ \A g : g \in told(k) <=> <<g, k>> \in pairs
    BY <1>4, <1>5
  <2>3. view' = [k \in DOMAIN view |-> view[k] \cup told(k)]  BY <1>1
  <2> HIDE DEF told
  <2> QED  BY <2>1, <2>2, <2>3
<1>10. \/ /\ failed_asserts' = failed_asserts \cup {"already_watching"}
          /\ caller' = [caller EXCEPT ![t] = [Idle EXCEPT !.pc = "dead"]]
       \/ /\ failed_asserts' = failed_asserts
          /\ \E r \in SUBSET pairs :
               /\ RegisterWatches(t, r, NoKey)
               /\ \A i \in pairs : WatchesValues(i[2]) => i \in r
  BY <1>1, <1>2, <1>3, Zenon
<1>11. UNCHANGED <<watch_counter, watchers, guard, refused, watch_queue, handler>>
  BY <1>1
<1>12. pairs \in SUBSET (GetterId \X DOMAIN watchers)  BY <1>2
<1> HIDE DEF attached
<1> QED  BY <1>8, <1>9, <1>10, <1>11, <1>12, ZenonT(30)

(* Getters that may need unregistration, and operations that do not look at *)
(* the watchers: attachments only disappear, and what stays attached keeps  *)
(* its guards and its place in the view of its listener.                    *)
LEMMA UnregistrationEffect ==
  ASSUME WatchTypeOK, DOMAIN getter_by_id' \subseteq DOMAIN getter_by_id,
         NEW gs \in SUBSET (DOMAIN getter_by_id), NEW b \in BOOLEAN,
         MayNeedUnregistration(gs, b) \/ Unwatched
  PROVE  /\ getter_watchers' \in [DOMAIN getter_by_id' -> SUBSET WatchKey]
         /\ DOMAIN watchers' = DOMAIN watchers
         /\ \A k \in DOMAIN watchers :
              /\ DOMAIN watchers'[k] = {"watch", "guards"}
              /\ watchers'[k].watch = watchers[k].watch
              /\ IsMap(watchers'[k].guards, GetterId, Nat \ {0})
         /\ view' \in [0 .. watch_counter - 1 -> SUBSET GetterId]
         /\ \A g \in DOMAIN getter_by_id' : \A k \in getter_watchers'[g] :
              /\ k \in getter_watchers[g]
              /\ k \in DOMAIN watchers =>
                   /\ g \in DOMAIN watchers[k].guards => g \in DOMAIN watchers'[k].guards
                   /\ g \in view[k] => g \in view'[k]
         /\ refused' = {i \in refused : Attached(i[2], i[1])'}
         /\ UNCHANGED <<watch_counter, guard, failed_asserts, channelState>>
<1>1. CASE Unwatched
  BY <1>1 DEF Unwatched, ForgetRefused, WatchTypeOK
<1>2. CASE MayNeedUnregistration(gs, b)
  <2> DEFINE gone(g) == {k \in getter_watchers[g] : k \notin DOMAIN watchers}
             disconnected(g) == {k \in getter_watchers[g] \ gone(g) :
                /\ ~IsDropped(k)
                /\ \/ b
                   \/ \E target \in watchers[k].watch : \E selector \in target.select :
                        ~Matches(selector, g, getter_by_id', service_by_id')}
             left(k) == {g \in gs : k \in disconnected(g)}
  <2>1. /\ getter_watchers' = [g \in DOMAIN getter_by_id' |->
             IF g \in gs THEN getter_watchers[g] \ (gone(g) \cup disconnected(g))
                         ELSE getter_watchers[g]]
        /\ watchers' = [k \in DOMAIN watchers |->
             [watchers[k] EXCEPT !.guards = Drop(@, left(k))]]
        /\ view' = [k \in DOMAIN view |-> view[k] \ left(k)]
        /\ refused' = {i \in refused : Attached(i[2], i[1])'}
        /\ UNCHANGED <<watch_counter, guard, failed_asserts, channelState>>
    BY <1>2, Zenon DEF MayNeedUnregistration, ForgetRefused
  <2>2. \A g, k : g \in left(k) => g \in gs /\ k \in disconnected(g)  OBVIOUS
  <2> HIDE DEF gone, disconnected, left
  <2>3. /\ getter_watchers' \in [DOMAIN getter_by_id' -> SUBSET WatchKey]
        /\ \A g \in DOMAIN getter_by_id' : \A k \in getter_watchers'[g] :
             k \in getter_watchers[g] /\ g \notin left(k)
    BY <2>1, <2>2 DEF WatchTypeOK
  <2>4. view' \in [0 .. watch_counter - 1 -> SUBSET GetterId]
        /\ \A k \in 0 .. watch_counter - 1 : view'[k] = view[k] \ left(k)
    BY <2>1 DEF WatchTypeOK
  <2>5. DOMAIN watchers' = DOMAIN watchers  BY <2>1
  <2>6. ASSUME NEW k \in DOMAIN watchers
        PROVE  /\ DOMAIN watchers'[k] = {"watch", "guards"}
               /\ watchers'[k].watch = watchers[k].watch
               /\ watchers'[k].guards = Drop(watchers[k].guards, left(k))
    <3>1. DOMAIN watchers[k] = {"watch", "guards"}  BY DEF WatchTypeOK
    <3>2. watchers'[k] = [watchers[k] EXCEPT !.guards = Drop(@, left(k))]  BY <2>1
    <3> QED  BY <3>1, <3>2
  <2>7. \A k \in DOMAIN watchers : IsMap(watchers'[k].guards, GetterId, Nat \ {0})
    BY <2>6, DropMap DEF WatchTypeOK
  <2>8. \A k \in DOMAIN watchers : DOMAIN watchers'[k].guards = DOMAIN watchers[k].guards \ left(k)
    BY <2>6 DEF Drop, Restrict
  <2>9. DOMAIN watchers \subseteq 0 .. watch_counter - 1  BY DEF WatchTypeOK
  <2>10. \A g \in DOMAIN getter_by_id' : \A k \in getter_watchers'[g] :
           k \in DOMAIN watchers =>
             /\ g \in DOMAIN watchers[k].guards => g \in DOMAIN watchers'[k].guards
             /\ g \in view[k] => g \in view'[k]
    BY <2>3, <2>4, <2>8, <2>9
  <2> QED  BY <2>1, <2>3, <2>4, <2>5, <2>6, <2>7, <2>10, Zenon
<1> QED  BY <1>1, <1>2

(* A new watcher: it is attached to the getters that match.                 *)
LEMMA WatchValuesEffect ==
  ASSUME WatchTypeOK, DOMAIN getter_by_id \subseteq GetterId,
         NEW t \in Thread, NEW watch \in TargetMaps, WatchValues(t, watch)
  PROVE  \E found \in SUBSET DOMAIN getter_by_id :
           /\ watch_counter \in WatchKey /\ watch_counter' = watch_counter + 1
           /\ caller[t].pc = "idle" /\ ~Poisoned
           /\ watchers' = Put(watchers, watch_counter, [watch |-> watch, guards |-> EmptyMap])
           /\ getter_watchers' = [g \in DOMAIN getter_by_id |->
                IF g \in found THEN getter_watchers[g] \cup {watch_counter} ELSE getter_watchers[g]]
           /\ view' = Put(view, watch_counter, found)
           /\ \/ /\ failed_asserts' = failed_asserts \cup {"already_watching"}
                 /\ caller' = [caller EXCEPT ![t] = [Idle EXCEPT !.pc = "dead"]]
                 /\ guard' = Put(guard, watch_counter, "none")
              \/ /\ failed_asserts' = failed_asserts
                 /\ \E gs \in SUBSET found :
                      /\ RegisterWatches(t, gs \X {watch_counter}, watch_counter)
                      /\ guard' = Put(guard, watch_counter,
                                      IF gs \X {watch_counter} = {} THEN "held" ELSE "none")
                      /\ (\A target \in watch : target.payload # "Never") => gs = found
           /\ UNCHANGED <<registryVars, refused, watch_queue, handler>>
<1> DEFINE k == watch_counter
           targets(g) == MatchingTargets(watch, g, getter_by_id, service_by_id)
           matching == {g \in DOMAIN getter_by_id : targets(g) # {}}
           some == {g \in matching : Watches(targets(g))}
<1>1. /\ k \in WatchKey /\ watch_counter' = k + 1 /\ caller[t].pc = "idle" /\ ~Poisoned
      /\ watchers' = Put(watchers, k, [watch |-> watch, guards |-> EmptyMap])
      /\ getter_watchers' = [g \in DOMAIN getter_by_id |->
           IF g \in matching THEN getter_watchers[g] \cup {k} ELSE getter_watchers[g]]
      /\ view' = Put(view, k, matching)
      /\ UNCHANGED <<registryVars, refused, watch_queue, handler>>
  BY Zenon DEF WatchValues
<1>2. \/ /\ failed_asserts' = failed_asserts \cup {"already_watching"}
         /\ caller' = [caller EXCEPT ![t] = [Idle EXCEPT !.pc = "dead"]]
         /\ guard' = Put(guard, k, "none")
      \/ /\ failed_asserts' = failed_asserts
         /\ RegisterWatches(t, some \X {k}, k)
         /\ guard' = Put(guard, k, IF some \X {k} = {} THEN "held" ELSE "none")
  BY Zenon DEF WatchValues
<1>3. (\A target \in watch : target.payload # "Never") => some = matching
  BY DEF Watches, MatchingTargets
<1>4. matching \in SUBSET DOMAIN getter_by_id /\ some \in SUBSET matching  OBVIOUS
<1> HIDE DEF k, matching, some
<1>5. \/ /\ failed_asserts' = failed_asserts \cup {"already_watching"}
         /\ caller' = [caller EXCEPT ![t] = [Idle EXCEPT !.pc = "dead"]]
         /\ guard' = Put(guard, k, "none")
      \/ /\ failed_asserts' = failed_asserts
         /\ \E gs \in SUBSET matching :
              /\ RegisterWatches(t, gs \X {k}, k)
              /\ guard' = Put(guard, k, IF gs \X {k} = {} THEN "held" ELSE "none")
              /\ (\A target \in watch : target.payload # "Never") => gs = matching
  BY <1>2, <1>3, <1>4, Zenon
<1> QED  BY <1>1, <1>4, <1>5, ZenonT(30) DEF k

-----------------------------------------------------------------------------
(* Types.                                                                   *)

CallerData == [pc : {"idle", "send", "wait", "dead"}, request : SUBSET Item,
               key : WatchKey \cup {NoKey}]
MessageData == [op : {"Start", "Release"}, request : SUBSET Item,
                reply : SUBSET Thread, key : WatchKey \cup {NoKey}]
HandlerData == [pc : {"idle", "start", "dead"}, todo : SUBSET Item,
                to_add : SUBSET Item, reply : SUBSET Thread]

(* The channel, the threads and the asserts are what they are meant to be.  *)
ChannelTypeOK ==
  /\ caller \in [Thread -> CallerData]
  /\ watch_queue \in Seq(MessageData)
  /\ handler \in HandlerData

LEMMA IdleIsCaller == /\ Idle \in CallerData
                      /\ [Idle EXCEPT !.pc = "dead"] \in CallerData
                      /\ [Idle EXCEPT !.pc = "dead"] = [pc |-> "dead", request |-> {}, key |-> NoKey]
                      /\ IdleHandler \in HandlerData
                      /\ [IdleHandler EXCEPT !.pc = "dead"] \in HandlerData
  BY DEF Idle, CallerData, IdleHandler, HandlerData

LEMMA RegisterWatchesType ==
  ASSUME caller \in [Thread -> CallerData], NEW t \in Thread, NEW request \in SUBSET Item,
         NEW key \in WatchKey \cup {NoKey}, RegisterWatches(t, request, key)
  PROVE  /\ caller' \in [Thread -> CallerData]
         /\ caller'[t] = IF request = {} THEN Idle
                         ELSE [pc |-> "send", request |-> request, key |-> key]
         /\ caller'[t].pc \in {"idle", "send"}
         /\ \A u \in Thread \ {t} : caller'[u] = caller[u]
<1>1. [pc |-> "send", request |-> request, key |-> key] \in CallerData  BY DEF CallerData
<1> DEFINE new == IF request = {} THEN Idle ELSE [pc |-> "send", request |-> request, key |-> key]
<1>2. new \in CallerData  BY <1>1, IdleIsCaller
<1>3. caller' = [caller EXCEPT ![t] = new]  BY DEF RegisterWatches
<1> HIDE DEF new
<1>4. caller' \in [Thread -> CallerData] /\ caller'[t] = new
      /\ \A u \in Thread \ {t} : caller'[u] = caller[u]
  BY <1>2, <1>3
<1>5. new.pc \in {"idle", "send"}  BY DEF new, Idle
<1> QED  BY <1>4, <1>5 DEF new

LEMMA DeadCallerType ==
  ASSUME caller \in [Thread -> CallerData], NEW t \in Thread,
         caller' = [caller EXCEPT ![t] = [Idle EXCEPT !.pc = "dead"]]
  PROVE  /\ caller' \in [Thread -> CallerData]
         /\ caller'[t] = [pc |-> "dead", request |-> {}, key |-> NoKey]
         /\ \A u \in Thread \ {t} : caller'[u] = caller[u]
<1> DEFINE new == [Idle EXCEPT !.pc = "dead"]
<1>1. new \in CallerData /\ new = [pc |-> "dead", request |-> {}, key |-> NoKey]  BY IdleIsCaller
<1>2. caller' = [caller EXCEPT ![t] = new]  OBVIOUS
<1> HIDE DEF new
<1> QED  BY <1>1, <1>2

(* The WatchGuards of the callers that return are made.                     *)
LEMMA ReturnType ==
  ASSUME guard \in [0 .. watch_counter - 1 -> {"none", "held", "dropping", "gone"}],
         NEW ts, Return(ts)
  PROVE  guard' \in [0 .. watch_counter - 1 -> {"none", "held", "dropping", "gone"}]
  BY DEF Return

LEMMA TypesOfChannel == WatchTypeOK => ChannelTypeOK
  BY DEF WatchTypeOK, ChannelTypeOK, CallerData, MessageData, HandlerData

LEMMA RegistrationType ==
  ASSUME WatchTypeOK, NEW t \in Thread, NEW gs \in SUBSET (DOMAIN getter_by_id'),
         DOMAIN getter_by_id' \subseteq GetterId, DOMAIN getter_by_id \subseteq DOMAIN getter_by_id',
         MayNeedRegistration(t, gs)
  PROVE  WatchTypeOK'
<1>1. PICK found \in SUBSET (GetterId \X DOMAIN watchers) :
        /\ getter_watchers' \in [DOMAIN getter_by_id' -> SUBSET WatchKey]
        /\ view' \in [0 .. watch_counter - 1 -> SUBSET GetterId]
        /\ \/ /\ failed_asserts' = failed_asserts \cup {"already_watching"}
              /\ caller' = [caller EXCEPT ![t] = [Idle EXCEPT !.pc = "dead"]]
           \/ /\ failed_asserts' = failed_asserts
              /\ \E request \in SUBSET found : RegisterWatches(t, request, NoKey)
        /\ UNCHANGED <<watch_counter, watchers, guard, refused, watch_queue, handler>>
  <2> HIDE DEF MayNeedRegistration, WatchTypeOK
  <2> QED  BY RegistrationEffect, ZenonT(30)
<1>2. found \subseteq Item
  BY WatchAssumption DEF WatchTypeOK, WatchKey, Item
<1>3. caller' \in [Thread -> CallerData]
  <2>1. caller \in [Thread -> CallerData]  BY TypesOfChannel DEF ChannelTypeOK
  <2>2. NoKey \in WatchKey \cup {NoKey}  OBVIOUS
  <2> QED  BY <1>1, <1>2, <2>1, <2>2, RegisterWatchesType, DeadCallerType
<1>4. failed_asserts' \subseteq {"already_watching", "not_watching"}
  BY <1>1 DEF WatchTypeOK
<1> QED  BY <1>1, <1>3, <1>4 DEF WatchTypeOK, CallerData

LEMMA UnregistrationType ==
  ASSUME WatchTypeOK, DOMAIN getter_by_id' \subseteq DOMAIN getter_by_id,
         NEW gs \in SUBSET (DOMAIN getter_by_id), NEW b \in BOOLEAN,
         MayNeedUnregistration(gs, b) \/ Unwatched
  PROVE  WatchTypeOK'
<1>1. /\ getter_watchers' \in [DOMAIN getter_by_id' -> SUBSET WatchKey]
      /\ DOMAIN watchers' = DOMAIN watchers
      /\ \A k \in DOMAIN watchers :
           /\ DOMAIN watchers'[k] = {"watch", "guards"}
           /\ watchers'[k].watch = watchers[k].watch
           /\ IsMap(watchers'[k].guards, GetterId, Nat \ {0})
      /\ view' \in [0 .. watch_counter - 1 -> SUBSET GetterId]
      /\ refused' \subseteq refused
      /\ UNCHANGED <<watch_counter, guard, failed_asserts, channelState>>
  BY UnregistrationEffect
<1> QED  BY <1>1 DEF WatchTypeOK, channelState

LEMMA WatchValuesType ==
  ASSUME WatchTypeOK, DOMAIN getter_by_id \subseteq GetterId,
         NEW t \in Thread, NEW watch \in TargetMaps, WatchValues(t, watch)
  PROVE  WatchTypeOK'
<1> DEFINE k == watch_counter
<1>1. PICK found \in SUBSET DOMAIN getter_by_id :
        /\ k \in WatchKey /\ watch_counter' = k + 1
        /\ watchers' = Put(watchers, k, [watch |-> watch, guards |-> EmptyMap])
        /\ getter_watchers' = [g \in DOMAIN getter_by_id |->
             IF g \in found THEN getter_watchers[g] \cup {k} ELSE getter_watchers[g]]
        /\ view' = Put(view, k, found)
        /\ \/ /\ failed_asserts' = failed_asserts \cup {"already_watching"}
              /\ caller' = [caller EXCEPT ![t] = [Idle EXCEPT !.pc = "dead"]]
              /\ guard' = Put(guard, k, "none")
           \/ /\ failed_asserts' = failed_asserts
              /\ \E gs \in SUBSET found :
                   /\ RegisterWatches(t, gs \X {k}, k)
                   /\ guard' = Put(guard, k, IF gs \X {k} = {} THEN "held" ELSE "none")
        /\ UNCHANGED <<registryVars, refused, watch_queue, handler>>
  <2> HIDE DEF WatchValues, WatchTypeOK
  <2> QED  BY WatchValuesEffect, ZenonT(30)
<1>2. /\ k \in 0 .. MaxWatches /\ watch_counter' \in 0 .. MaxWatches
      /\ 0 .. watch_counter' - 1 = (0 .. k - 1) \cup {k}
      /\ \A j \in 0 .. k - 1 : j # k
  BY <1>1, WatchAssumption DEF WatchTypeOK, WatchKey
<1>3. caller' \in [Thread -> CallerData]
  <2>1. caller \in [Thread -> CallerData]  BY TypesOfChannel DEF ChannelTypeOK
  <2>2. \A gs \in SUBSET found : gs \X {k} \in SUBSET Item  BY <1>1 DEF Item
  <2>3. ASSUME NEW gs \in SUBSET found, RegisterWatches(t, gs \X {k}, k)
        PROVE  caller' \in [Thread -> CallerData]
    BY <1>1, <2>1, <2>2, <2>3, RegisterWatchesType
  <2> QED  BY <1>1, <2>1, <2>3, DeadCallerType
<1>4. guard' \in [0 .. watch_counter' - 1 -> {"none", "held", "dropping", "gone"}]
  <2>1. \A v \in {"none", "held"} :
          Put(guard, k, v) \in [(0 .. k - 1) \cup {k} -> {"none", "held", "dropping", "gone"}]
    BY DEF Put, WatchTypeOK
  <2> QED  BY <1>1, <1>2, <2>1
<1>5. view' \in [0 .. watch_counter' - 1 -> SUBSET GetterId]
  <2>1. Put(view, k, found) \in [(0 .. k - 1) \cup {k} -> SUBSET GetterId]
    BY DEF Put, WatchTypeOK
  <2> QED  BY <1>1, <1>2, <2>1
<1>6. DOMAIN watchers' \subseteq 0 .. watch_counter' - 1
  BY <1>1, <1>2 DEF Put, WatchTypeOK
<1>7. ASSUME NEW j \in DOMAIN watchers'
      PROVE  /\ DOMAIN watchers'[j] = {"watch", "guards"}
             /\ watchers'[j].watch \in TargetMaps
             /\ IsMap(watchers'[j].guards, GetterId, Nat \ {0})
  <2>1. CASE j = k
    <3>1. watchers'[j] = [watch |-> watch, guards |-> EmptyMap]  BY <1>1, <2>1 DEF Put
    <3> QED  BY <3>1, EmptyMapType
  <2>2. CASE j # k
    <3>1. watchers'[j] = watchers[j] /\ j \in DOMAIN watchers  BY <1>1, <1>7, <2>2 DEF Put
    <3> QED  BY <3>1 DEF WatchTypeOK
  <2> QED  BY <2>1, <2>2
<1>8. getter_watchers' \in [DOMAIN getter_by_id' -> SUBSET WatchKey]
  BY <1>1 DEF WatchTypeOK, registryVars, maps
<1>9. failed_asserts' \subseteq {"already_watching", "not_watching"}
  BY <1>1 DEF WatchTypeOK
<1> QED  BY <1>1, <1>2, <1>3, <1>4, <1>5, <1>6, <1>7, <1>8, <1>9 DEF WatchTypeOK, CallerData

LEMMA HeadOfQueue ==
  ASSUME NEW S, NEW q \in Seq(S), q # <<>>
  PROVE  /\ Head(q) \in S /\ Head(q) = q[1] /\ 1 \in DOMAIN q
         /\ Tail(q) \in Seq(S)
         /\ \A n \in DOMAIN Tail(q) : n + 1 \in DOMAIN q /\ Tail(q)[n] = q[n + 1]
         /\ \A n \in DOMAIN q : n = 1 \/ (n - 1 \in DOMAIN Tail(q) /\ q[n] = Tail(q)[n - 1])
         /\ \A n \in DOMAIN q : n \in Nat
         /\ \A n \in DOMAIN Tail(q) : n \in Nat /\ n + 1 # 1
  OBVIOUS

LEMMA AppendedMessage ==
  ASSUME NEW S, NEW q \in Seq(S), NEW m \in S
  PROVE  /\ Append(q, m) \in Seq(S)
         /\ \A n \in DOMAIN q : n \in DOMAIN Append(q, m) /\ Append(q, m)[n] = q[n]
         /\ Len(q) + 1 \in DOMAIN Append(q, m) /\ Append(q, m)[Len(q) + 1] = m
         /\ \A n \in DOMAIN Append(q, m) : n \in DOMAIN q \/ n = Len(q) + 1
         /\ Len(q) + 1 \notin DOMAIN q
  OBVIOUS

(* The steps of the channel: what they leave alone, and the types of what   *)
(* they change.                                                             *)
LEMMA ChannelStepType ==
  ASSUME WatchTypeOK,
         \/ \E t \in Thread : SendStart(t)
         \/ \E k \in DOMAIN guard : DropGuard(k) \/ SendRelease(k)
         \/ Handler
  PROVE  WatchTypeOK'
<1>0. /\ UNCHANGED registryVars
      /\ ChannelTypeOK /\ guard \in [0 .. watch_counter - 1 -> {"none", "held", "dropping", "gone"}]
  BY TypesOfChannel DEF WatchTypeOK, SendStart, DropGuard, SendRelease, Handler, ReceiveStart,
     StartItem, RegisterOngoingWatch, ReceiveRelease, HandlerPanics, Die
<1> DEFINE Same == UNCHANGED <<getter_watchers, watch_counter, watchers, failed_asserts, view>>
<1>s. ASSUME Same, refused' \subseteq Item, ChannelTypeOK',
             guard' \in [0 .. watch_counter - 1 -> {"none", "held", "dropping", "gone"}]
      PROVE  WatchTypeOK'
  BY <1>0, <1>s DEF WatchTypeOK, ChannelTypeOK, CallerData, MessageData, HandlerData,
                    registryVars, maps
<1>r. refused \subseteq Item  BY DEF WatchTypeOK
<1>1. ASSUME NEW t \in Thread, SendStart(t) PROVE WatchTypeOK'
  <2>1. CASE handler.pc = "dead"
    <3>1. caller' \in [Thread -> CallerData] /\ UNCHANGED <<watch_queue, handler>>
      BY <1>0, <1>1, <2>1, IdleIsCaller DEF SendStart, ChannelTypeOK
    <3>2. guard' \in [0 .. watch_counter - 1 -> {"none", "held", "dropping", "gone"}]
      BY <1>0, <1>1, <2>1, ReturnType DEF SendStart
    <3> QED  BY <1>0, <1>1, <1>r, <1>s, <3>1, <3>2 DEF SendStart, ChannelTypeOK
  <2>2. CASE handler.pc # "dead"
    <3> DEFINE m == [op |-> "Start", request |-> caller[t].request, reply |-> {t}, key |-> NoKey]
    <3>1. m \in MessageData  BY <1>0 DEF MessageData, ChannelTypeOK, CallerData
    <3>2. watch_queue' = Append(watch_queue, m)  BY <1>1, <2>2 DEF SendStart
    <3>3. watch_queue' \in Seq(MessageData)
      <4> HIDE DEF m
      <4> QED  BY <1>0, <3>1, <3>2, AppendedMessage DEF ChannelTypeOK
    <3>4. caller' \in [Thread -> CallerData]
      <4>1. caller' = [caller EXCEPT ![t] = [caller[t] EXCEPT !.pc = "wait"]]
        BY <1>1, <2>2 DEF SendStart
      <4>2. [caller[t] EXCEPT !.pc = "wait"] \in CallerData
        BY <1>0 DEF ChannelTypeOK, CallerData
      <4> QED  BY <1>0, <4>1, <4>2 DEF ChannelTypeOK
    <3> QED  BY <1>0, <1>1, <1>r, <1>s, <2>2, <3>3, <3>4 DEF SendStart, ChannelTypeOK
  <2> QED  BY <2>1, <2>2
<1>2. ASSUME NEW k \in DOMAIN guard, DropGuard(k) PROVE WatchTypeOK'
  <2>1. guard' \in [0 .. watch_counter - 1 -> {"none", "held", "dropping", "gone"}]
    BY <1>0, <1>2 DEF DropGuard
  <2>2. Same /\ refused' = refused /\ UNCHANGED channelState  BY <1>2 DEF DropGuard
  <2>3. ChannelTypeOK'
    BY <1>0, <2>2 DEF ChannelTypeOK, channelState, CallerData, MessageData, HandlerData
  <2> QED  BY <1>r, <1>s, <2>1, <2>2, <2>3
<1>3. ASSUME NEW k \in DOMAIN guard, SendRelease(k) PROVE WatchTypeOK'
  <2>1. guard' \in [0 .. watch_counter - 1 -> {"none", "held", "dropping", "gone"}]
    BY <1>0, <1>3 DEF SendRelease
  <2> DEFINE m == [op |-> "Release", request |-> {}, reply |-> {}, key |-> k]
  <2>2. k \in WatchKey  BY <1>0, <1>3, WatchAssumption DEF WatchTypeOK, WatchKey
  <2>3. m \in MessageData  BY <2>2 DEF MessageData
  <2>4. watch_queue' = watch_queue \/ watch_queue' = Append(watch_queue, m)
    BY <1>3 DEF SendRelease
  <2>5. watch_queue' \in Seq(MessageData)
    <3> HIDE DEF m
    <3> QED  BY <1>0, <2>3, <2>4, AppendedMessage DEF ChannelTypeOK
  <2> QED  BY <1>0, <1>3, <1>r, <1>s, <2>1, <2>5 DEF SendRelease, ChannelTypeOK
<1>4. CASE ReceiveStart
  <2>1. Head(watch_queue) \in MessageData /\ watch_queue' \in Seq(MessageData)
    BY <1>0, <1>4, HeadOfQueue DEF ReceiveStart, ChannelTypeOK
  <2>2. handler' \in HandlerData
    BY <1>4, <2>1 DEF ReceiveStart, MessageData, HandlerData
  <2> QED  BY <1>0, <1>4, <1>r, <1>s, <2>1, <2>2 DEF ReceiveStart, ChannelTypeOK, watchState
<1>5. ASSUME NEW i \in Item, StartItem(i) PROVE WatchTypeOK'
  <2>1. handler' \in HandlerData
    <3>1. \/ handler' = [handler EXCEPT !.todo = @ \ {i}]
          \/ handler' = [handler EXCEPT !.todo = @ \ {i}, !.to_add = @ \cup {i}]
      BY <1>5 DEF StartItem
    <3>2. handler \in HandlerData  BY <1>0 DEF ChannelTypeOK
    <3>3. [handler EXCEPT !.todo = @ \ {i}] \in HandlerData  BY <3>2 DEF HandlerData
    <3>4. [handler EXCEPT !.todo = @ \ {i}, !.to_add = @ \cup {i}] \in HandlerData
      BY <3>2 DEF HandlerData
    <3> QED  BY <3>1, <3>3, <3>4
  <2>2. refused' \subseteq Item  BY <1>5, <1>r DEF StartItem
  <2> QED  BY <1>0, <1>5, <1>s, <2>1, <2>2 DEF StartItem, ChannelTypeOK
<1>6. CASE RegisterOngoingWatch
  <2>1. caller' \in [Thread -> CallerData]
    BY <1>0, <1>6, IdleIsCaller DEF RegisterOngoingWatch, ChannelTypeOK
  <2>2. guard' \in [0 .. watch_counter - 1 -> {"none", "held", "dropping", "gone"}]
    BY <1>0, <1>6, ReturnType DEF RegisterOngoingWatch
  <2>3. DOMAIN watchers' = DOMAIN watchers  BY <1>6 DEF RegisterOngoingWatch
  <2>4. ASSUME NEW k \in DOMAIN watchers
        PROVE  /\ DOMAIN watchers'[k] = {"watch", "guards"}
               /\ watchers'[k].watch = watchers[k].watch
               /\ IsMap(watchers'[k].guards, GetterId, Nat \ {0})
    <3> DEFINE gs == {i[1] : i \in {j \in handler.to_add : j[2] = k}}
    <3>1. watchers'[k] = [watchers[k] EXCEPT !.guards = PushGuard(@, gs)]
      BY <1>6 DEF RegisterOngoingWatch
    <3>2. DOMAIN watchers[k] = {"watch", "guards"} /\ IsMap(watchers[k].guards, GetterId, Nat \ {0})
      BY DEF WatchTypeOK
    <3>3. gs \subseteq GetterId
      <4>1. handler.to_add \subseteq Item  BY <1>0 DEF ChannelTypeOK, HandlerData
      <4> QED  BY <4>1 DEF Item
    <3> HIDE DEF gs
    <3>4. /\ DOMAIN watchers'[k] = {"watch", "guards"} /\ watchers'[k].watch = watchers[k].watch
          /\ watchers'[k].guards = PushGuard(watchers[k].guards, gs)
      BY <3>1, <3>2
    <3>5. IsMap(PushGuard(watchers[k].guards, gs), GetterId, Nat \ {0})
      BY <3>2, <3>3 DEF IsMap, PushGuard
    <3> QED  BY <3>4, <3>5
  <2> QED
    BY <1>0, <1>6, <2>1, <2>2, <2>3, <2>4, IdleIsCaller
       DEF RegisterOngoingWatch, WatchTypeOK, CallerData, HandlerData, registryVars, maps
<1>7. CASE ReceiveRelease
  <2>1. watch_queue' \in Seq(MessageData)
    BY <1>0, <1>7, HeadOfQueue DEF ReceiveRelease, ChannelTypeOK
  <2>2. PICK k : StopWatch(k)  BY <1>7 DEF ReceiveRelease
  <2>3. /\ DOMAIN watchers' \subseteq DOMAIN watchers
        /\ \A j \in DOMAIN watchers' : watchers'[j] = watchers[j]
        /\ getter_watchers' \in [DOMAIN getter_by_id -> SUBSET WatchKey]
        /\ failed_asserts' \subseteq {"already_watching", "not_watching"}
    BY <2>2 DEF StopWatch, Drop, Restrict, WatchTypeOK
  <2> QED
    BY <1>0, <1>7, <2>1, <2>3
       DEF ReceiveRelease, WatchTypeOK, MessageData, registryVars, maps
<1>8. CASE HandlerPanics
  <2>1. Die  BY <1>8 DEF HandlerPanics
  <2>2. caller' \in [Thread -> CallerData] /\ handler' \in HandlerData /\ watch_queue' = <<>>
    BY <1>0, <2>1, IdleIsCaller DEF Die, ChannelTypeOK
  <2>3. guard' \in [0 .. watch_counter - 1 -> {"none", "held", "dropping", "gone"}]
    BY <1>0, <2>1, ReturnType DEF Die
  <2> QED  BY <1>0, <1>r, <1>s, <2>1, <2>2, <2>3 DEF Die, ChannelTypeOK
<1> QED  BY <1>1, <1>2, <1>3, <1>4, <1>5, <1>6, <1>7, <1>8 DEF Handler

-----------------------------------------------------------------------------
(* The steps of the protocol, by what they do to the watchers.             *)

Registering(t, gs) ==
  /\ gs \subseteq DOMAIN getter_by_id'
  /\ DOMAIN getter_by_id \subseteq DOMAIN getter_by_id'
  /\ ~Poisoned /\ caller[t].pc = "idle"
  /\ MayNeedRegistration(t, gs)

Unregistering(gs, b) ==
  /\ gs \subseteq DOMAIN getter_by_id
  /\ DOMAIN getter_by_id' \subseteq DOMAIN getter_by_id
  /\ MayNeedUnregistration(gs, b) \/ Unwatched

ChannelStep ==
  \/ \E t \in Thread : SendStart(t)
  \/ \E k \in DOMAIN guard : DropGuard(k) \/ SendRelease(k)
  \/ Handler

LEMMA WatchSteps ==
  ASSUME [WatchNext]_watchVars
  PROVE  \/ \E t \in Thread : \E gs : Registering(t, gs)
         \/ \E t \in Thread, watch \in TargetMaps : WatchValues(t, watch)
         \/ \E gs : \E b \in BOOLEAN : Unregistering(gs, b)
         \/ StopManager
         \/ ChannelStep
         \/ UNCHANGED watchVars
<1>1. ASSUME NEW t \in Thread, NEW s \in ServiceId, NEW a \in AdapterId, NEW tags \in SUBSET TagId,
             NEW readable \in BOOLEAN, NEW g \in GetterId,
             AddGetterAndWatch(t, g, s, a, tags, readable)
      PROVE  Registering(t, {g})
  <2>1. AddGetter(g, s, a, tags, readable) /\ ~Poisoned /\ caller[t].pc = "idle"
        /\ MayNeedRegistration(t, {g})
    BY <1>1 DEF AddGetterAndWatch
  <2>2. DOMAIN getter_by_id' = DOMAIN getter_by_id \cup {g}  BY <2>1 DEF AddGetter, Put
  <2> QED  BY <2>1, <2>2 DEF Registering
<1>2. ASSUME NEW t \in Thread, NEW tags \in SUBSET TagId, NEW gs \in SUBSET GetterId,
             AddGetterTagsAndWatch(t, gs, tags)
      PROVE  Registering(t, TagsInserted(getter_by_id, gs, tags))
  <2>1. DOMAIN getter_by_id' = DOMAIN getter_by_id /\ gs \subseteq DOMAIN getter_by_id
    BY <1>2, GetterDomains DEF AddGetterTagsAndWatch
  <2>2. TagsInserted(getter_by_id, gs, tags) \subseteq gs  BY DEF TagsInserted
  <2> QED  BY <1>2, <2>1, <2>2 DEF Registering, AddGetterTagsAndWatch
<1>3. ASSUME NEW g \in GetterId, RemoveGetterAndUnwatch(g) PROVE Unregistering({g}, TRUE)
  BY <1>3, GetterDomains DEF RemoveGetterAndUnwatch, Unregistering
<1>4. ASSUME NEW tags \in SUBSET TagId, NEW gs \in SUBSET GetterId,
             RemoveGetterTagsAndUnwatch(gs, tags)
      PROVE  Unregistering(gs, FALSE)
  BY <1>4, GetterDomains DEF RemoveGetterTagsAndUnwatch, Unregistering
<1>5. OtherRegistryOperation => Unregistering({}, TRUE)
  <2>1. OtherRegistryOperation => Unwatched  BY DEF OtherRegistryOperation
  <2> QED  BY <2>1, GetterDomains DEF Unregistering
<1>6. TRUE \in BOOLEAN /\ FALSE \in BOOLEAN  OBVIOUS
<1>7. ASSUME WatchNext
      PROVE  \/ \E t \in Thread : \E gs : Registering(t, gs)
             \/ \E t \in Thread, watch \in TargetMaps : WatchValues(t, watch)
             \/ \E gs : \E b \in BOOLEAN : Unregistering(gs, b)
             \/ StopManager
             \/ ChannelStep
  BY <1>1, <1>2, <1>3, <1>4, <1>5, <1>6, <1>7, ZenonT(60) DEF WatchNext, ThreadStep, ChannelStep
<1> QED  BY <1>7

LEMMA WatchTypeNext ==
  ASSUME TypeOK, TypeOK', WatchTypeOK, [WatchNext]_watchVars
  PROVE  WatchTypeOK'
<1>d. DOMAIN getter_by_id \subseteq GetterId /\ DOMAIN getter_by_id' \subseteq GetterId
  BY DEF TypeOK, IsMap
<1>1. ASSUME NEW t \in Thread, NEW gs, Registering(t, gs) PROVE WatchTypeOK'
  BY <1>d, <1>1, RegistrationType DEF Registering
<1>2. ASSUME NEW t \in Thread, NEW watch \in TargetMaps, WatchValues(t, watch) PROVE WatchTypeOK'
  BY <1>d, <1>2, WatchValuesType
<1>3. ASSUME NEW gs, NEW b \in BOOLEAN, Unregistering(gs, b) PROVE WatchTypeOK'
  BY <1>3, UnregistrationType DEF Unregistering
<1>4. CASE StopManager
  <2>1. getter_watchers' = EmptyMap /\ watchers' = EmptyMap /\ getter_by_id' = EmptyMap
    BY <1>4 DEF StopManager, Stop
  <2>2. EmptyMap \in [DOMAIN EmptyMap -> SUBSET WatchKey] /\ DOMAIN EmptyMap = {}
    BY DEF EmptyMap
  <2> QED  BY <1>4, <2>1, <2>2 DEF StopManager, WatchTypeOK, channelState
<1>5. CASE ChannelStep  BY <1>5, ChannelStepType DEF ChannelStep
<1>6. CASE UNCHANGED watchVars
  BY <1>6 DEF watchVars, registryVars, maps, watchState, channelState, WatchTypeOK
<1> QED  BY <1>1, <1>2, <1>3, <1>4, <1>5, <1>6, WatchSteps

LEMMA WatchTypeInit == WatchInit => WatchTypeOK
<1> SUFFICES ASSUME WatchInit PROVE WatchTypeOK  OBVIOUS
<1>1. DOMAIN EmptyMap = {} /\ EmptyMap \in [{} -> SUBSET WatchKey] /\ EmptyMap \in [{} -> SUBSET GetterId]
      /\ EmptyMap \in [{} -> {"none", "held", "dropping", "gone"}]
  BY DEF EmptyMap
<1>2. 0 .. 0 - 1 = {} /\ 0 \in 0 .. MaxWatches  BY WatchAssumption
<1>3. caller \in [Thread -> CallerData]  BY IdleIsCaller DEF WatchInit
<1>4. handler \in HandlerData  BY IdleIsCaller DEF WatchInit
<1>5. watch_queue = <<>>  BY DEF WatchInit
<1> QED
  BY <1>1, <1>2, <1>3, <1>4, <1>5 DEF WatchInit, Init, WatchTypeOK, CallerData, HandlerData

LEMMA WatchTypeCorrect == WatchSpec => []WatchTypeOK
<1>1. TypeOK /\ TypeOK' /\ WatchTypeOK /\ [WatchNext]_watchVars => WatchTypeOK'
  BY WatchTypeNext
<1> QED  BY WatchTypeInit, <1>1, WatchedRegistryConsistent, PTL DEF WatchSpec

-----------------------------------------------------------------------------
(* What listeners know.  A key is handed out once only, so a new watcher is *)
(* attached nowhere yet; while the watcher exists, whatever the state of    *)
(* its WatchGuard, its listener has been told of its getters.               *)
Known ==
  \A g \in DOMAIN getter_watchers : \A k \in getter_watchers[g] :
    /\ k \in 0 .. watch_counter - 1
    /\ k \in DOMAIN watchers => g \in view[k]

LEMMA KnownNext ==
  ASSUME TypeOK, TypeOK', WatchTypeOK, Known, [WatchNext]_watchVars
  PROVE  Known'
<1>d. DOMAIN getter_by_id \subseteq GetterId /\ DOMAIN getter_by_id' \subseteq GetterId
  BY DEF TypeOK, IsMap
<1>w. DOMAIN getter_watchers = DOMAIN getter_by_id /\ watch_counter \in Nat
      /\ DOMAIN watchers \subseteq 0 .. watch_counter - 1
  BY DEF WatchTypeOK
<1>1. ASSUME NEW t \in Thread, NEW gs, Registering(t, gs) PROVE Known'
  <2>1. PICK found \in SUBSET (GetterId \X DOMAIN watchers) :
        /\ getter_watchers' \in [DOMAIN getter_by_id' -> SUBSET WatchKey]
        /\ \A g \in DOMAIN getter_by_id' : \A k :
             k \in getter_watchers'[g] <=> \/ g \in DOMAIN getter_by_id /\ k \in getter_watchers[g]
                                           \/ <<g, k>> \in found
        /\ \A k \in 0 .. watch_counter - 1 : \A g :
             g \in view'[k] <=> g \in view[k] \/ <<g, k>> \in found
        /\ UNCHANGED <<watch_counter, watchers>>
    <3> HIDE DEF MayNeedRegistration, WatchTypeOK
    <3>1. MayNeedRegistration(t, gs) /\ gs \in SUBSET (DOMAIN getter_by_id')
          /\ DOMAIN getter_by_id \subseteq DOMAIN getter_by_id'
      BY <1>1 DEF Registering
    <3> QED  BY <1>d, <3>1, RegistrationEffect, ZenonT(30)
  <2>2. \A g, k : <<g, k>> \in found => k \in DOMAIN watchers  OBVIOUS
  <2> QED  BY <1>w, <2>1, <2>2 DEF Known
<1>2. ASSUME NEW t \in Thread, NEW watch \in TargetMaps, WatchValues(t, watch) PROVE Known'
  <2>1. PICK found \in SUBSET DOMAIN getter_by_id :
           /\ watch_counter' = watch_counter + 1
           /\ watchers' = Put(watchers, watch_counter, [watch |-> watch, guards |-> EmptyMap])
           /\ getter_watchers' = [g \in DOMAIN getter_by_id |->
                IF g \in found THEN getter_watchers[g] \cup {watch_counter} ELSE getter_watchers[g]]
           /\ view' = Put(view, watch_counter, found)
    <3> HIDE DEF WatchValues, WatchTypeOK
    <3> QED  BY <1>d, <1>2, WatchValuesEffect, ZenonT(30)
  <2>2. DOMAIN view = 0 .. watch_counter - 1  BY DEF WatchTypeOK
  <2>3. /\ \A k \in 0 .. watch_counter - 1 : k # watch_counter /\ k \in 0 .. watch_counter' - 1
        /\ watch_counter \in 0 .. watch_counter' - 1
    BY <1>w, <2>1
  <2> QED  BY <1>w, <2>1, <2>2, <2>3 DEF Known, Put
<1>3. ASSUME NEW gs, NEW b \in BOOLEAN, Unregistering(gs, b) PROVE Known'
  <2>1. /\ getter_watchers' \in [DOMAIN getter_by_id' -> SUBSET WatchKey]
        /\ DOMAIN watchers' = DOMAIN watchers
        /\ \A g \in DOMAIN getter_by_id' : \A k \in getter_watchers'[g] :
              /\ k \in getter_watchers[g]
              /\ k \in DOMAIN watchers => (g \in view[k] => g \in view'[k])
        /\ UNCHANGED watch_counter
    BY <1>3, UnregistrationEffect DEF Unregistering
  <2> QED  BY <1>3, <1>w, <2>1 DEF Known, Unregistering
<1>4. CASE StopManager
  BY <1>4 DEF StopManager, EmptyMap, Known
<1>5. CASE ChannelStep
  <2>1. /\ UNCHANGED <<watch_counter, view>>
        /\ DOMAIN watchers' \subseteq DOMAIN watchers
        /\ DOMAIN getter_watchers' = DOMAIN getter_watchers
        /\ \A g \in DOMAIN getter_watchers : getter_watchers'[g] \subseteq getter_watchers[g]
    BY <1>5 DEF ChannelStep, SendStart, DropGuard, SendRelease, Handler, ReceiveStart,
     StartItem, RegisterOngoingWatch, ReceiveRelease, StopWatch, Drop, Restrict, HandlerPanics, Die,
     watchState
  <2> QED  BY <2>1 DEF Known
<1>6. CASE UNCHANGED watchVars
  BY <1>6 DEF watchVars, watchState, Known
<1> QED  BY <1>1, <1>2, <1>3, <1>4, <1>5, <1>6, WatchSteps

(* A listener is told of every getter attached to its watcher, and not told *)
(* that it left as long as it stays; the protocol is well-typed.            *)
THEOREM ListenersKnow == WatchSpec => []AttachedKnown
<1>1. WatchInit => Known  BY DEF WatchInit, Known, EmptyMap
<1>2. TypeOK /\ TypeOK' /\ WatchTypeOK /\ Known /\ [WatchNext]_watchVars => Known'
  BY KnownNext
<1>3. WatchTypeOK /\ Known => AttachedKnown  BY DEF Known, AttachedKnown, Live, Attached
<1> QED
  BY <1>1, <1>2, <1>3, WatchTypeCorrect, WatchedRegistryConsistent, PTL DEF WatchSpec

-----------------------------------------------------------------------------
(* Whoever waits is served.  A request to release answers nobody, and the   *)
(* background thread holds nothing when it is idle; it dies only on the     *)
(* poisoned lock.                                                           *)
Served(t) ==
  /\ t \in handler.reply => caller[t].pc = "wait"
  /\ \A n \in DOMAIN watch_queue : t \in watch_queue[n].reply =>
       /\ caller[t].pc = "wait" /\ t \notin handler.reply
       /\ \A m \in DOMAIN watch_queue : t \in watch_queue[m].reply => m = n
  /\ caller[t].pc = "wait" =>
       t \in handler.reply \/ \E n \in DOMAIN watch_queue : t \in watch_queue[n].reply

ChannelInv ==
  /\ \A n \in DOMAIN watch_queue : watch_queue[n].op = "Release" =>
       watch_queue[n].reply = {} /\ watch_queue[n].request = {}
  /\ handler.pc # "start" => handler.todo = {} /\ handler.to_add = {} /\ handler.reply = {}
  /\ handler.pc = "dead" => Poisoned
  /\ \A t \in Thread : Served(t)

(* What a thread does under the lock.                                       *)
LEMMA UnderLock ==
  ASSUME TypeOK, TypeOK', WatchTypeOK, NEW t \in Thread,
         \/ \E gs : Registering(t, gs)
         \/ \E watch \in TargetMaps : WatchValues(t, watch)
  PROVE  /\ caller[t].pc = "idle" /\ caller'[t].pc \in {"idle", "send", "dead"}
         /\ \A u \in Thread \ {t} : caller'[u] = caller[u]
         /\ UNCHANGED <<watch_queue, handler>>
         /\ failed_asserts \subseteq failed_asserts'
<1>c. caller \in [Thread -> CallerData]  BY TypesOfChannel DEF ChannelTypeOK
<1>d. DOMAIN getter_by_id \subseteq GetterId /\ DOMAIN getter_by_id' \subseteq GetterId
  BY DEF TypeOK, IsMap
<1>i. Idle.pc = "idle"  BY DEF Idle
<1>1. ASSUME NEW gs, Registering(t, gs)
      PROVE  /\ caller[t].pc = "idle" /\ caller'[t].pc \in {"idle", "send", "dead"}
             /\ \A u \in Thread \ {t} : caller'[u] = caller[u]
             /\ UNCHANGED <<watch_queue, handler>>
             /\ failed_asserts \subseteq failed_asserts'
  <2>1. PICK found \in SUBSET (GetterId \X DOMAIN watchers) :
           /\ \/ /\ failed_asserts' = failed_asserts \cup {"already_watching"}
                 /\ caller' = [caller EXCEPT ![t] = [Idle EXCEPT !.pc = "dead"]]
              \/ /\ failed_asserts' = failed_asserts
                 /\ \E request \in SUBSET found : RegisterWatches(t, request, NoKey)
           /\ UNCHANGED <<watch_queue, handler>>
    <3> HIDE DEF MayNeedRegistration, WatchTypeOK
    <3>1. MayNeedRegistration(t, gs) /\ gs \in SUBSET (DOMAIN getter_by_id')
          /\ DOMAIN getter_by_id \subseteq DOMAIN getter_by_id'
      BY <1>1 DEF Registering
    <3> QED  BY <1>d, <3>1, RegistrationEffect, ZenonT(30)
  <2>2. found \subseteq Item
    BY WatchAssumption DEF WatchTypeOK, WatchKey, Item
  <2> QED  BY <1>1, <1>c, <1>i, <2>1, <2>2, RegisterWatchesType, DeadCallerType DEF Registering
<1>2. ASSUME NEW watch \in TargetMaps, WatchValues(t, watch)
      PROVE  /\ caller[t].pc = "idle" /\ caller'[t].pc \in {"idle", "send", "dead"}
             /\ \A u \in Thread \ {t} : caller'[u] = caller[u]
             /\ UNCHANGED <<watch_queue, handler>>
             /\ failed_asserts \subseteq failed_asserts'
  <2>1. PICK found \in SUBSET DOMAIN getter_by_id :
           /\ watch_counter \in WatchKey /\ caller[t].pc = "idle"
           /\ \/ /\ failed_asserts' = failed_asserts \cup {"already_watching"}
                 /\ caller' = [caller EXCEPT ![t] = [Idle EXCEPT !.pc = "dead"]]
              \/ /\ failed_asserts' = failed_asserts
                 /\ \E gs \in SUBSET found :
                      RegisterWatches(t, gs \X {watch_counter}, watch_counter)
           /\ UNCHANGED <<watch_queue, handler>>
    <3> HIDE DEF WatchValues, WatchTypeOK
    <3> QED  BY <1>d, <1>2, WatchValuesEffect, ZenonT(30)
  <2>2. \A gs \in SUBSET found : gs \X {watch_counter} \in SUBSET Item
    BY <1>d, <2>1 DEF Item
  <2>3. ASSUME NEW gs \in SUBSET found, RegisterWatches(t, gs \X {watch_counter}, watch_counter)
        PROVE  /\ caller'[t].pc \in {"idle", "send"}
               /\ \A u \in Thread \ {t} : caller'[u] = caller[u]
    <3> DEFINE request == gs \X {watch_counter}
    <3>1. request \in SUBSET Item /\ RegisterWatches(t, request, watch_counter)  BY <2>2, <2>3
    <3> HIDE DEF request
    <3> QED  BY <1>c, <1>i, <2>1, <3>1, RegisterWatchesType
  <2> QED  BY <1>c, <2>1, <2>3, DeadCallerType
<1> QED  BY <1>1, <1>2

LEMMA ChannelInvNext ==
  ASSUME TypeOK, TypeOK', WatchTypeOK, ChannelInv, [WatchNext]_watchVars
  PROVE  ChannelInv'
<1>c. ChannelTypeOK  BY TypesOfChannel
<1>q. watch_queue \in Seq(MessageData)  BY <1>c DEF ChannelTypeOK
<1>1. ASSUME NEW t \in Thread,
             (\E gs : Registering(t, gs)) \/ (\E watch \in TargetMaps : WatchValues(t, watch))
      PROVE  ChannelInv'
  <2>1. /\ caller[t].pc = "idle" /\ caller'[t].pc \in {"idle", "send", "dead"}
        /\ \A u \in Thread \ {t} : caller'[u] = caller[u]
        /\ UNCHANGED <<watch_queue, handler>>
        /\ failed_asserts \subseteq failed_asserts'
    BY <1>1, UnderLock
  <2> QED  BY <2>1 DEF ChannelInv, Served, Poisoned
<1>2. ASSUME UNCHANGED <<channelState, failed_asserts>> PROVE ChannelInv'
  BY <1>2 DEF channelState, ChannelInv, Served, Poisoned
<1>3. ASSUME NEW t \in Thread, SendStart(t) PROVE ChannelInv'
  <2>1. CASE handler.pc = "dead"
    <3>1. /\ UNCHANGED <<watch_queue, handler, failed_asserts>>
          /\ caller[t].pc = "send" /\ caller'[t] = Idle
          /\ \A u \in Thread \ {t} : caller'[u] = caller[u]
      BY <1>3, <1>c, <2>1 DEF SendStart, ChannelTypeOK
    <3> QED  BY <3>1 DEF ChannelInv, Served, Poisoned, Idle
  <2>2. CASE handler.pc # "dead"
    <3> DEFINE m == [op |-> "Start", request |-> caller[t].request, reply |-> {t}, key |-> NoKey]
    <3>1. m \in MessageData /\ m.reply = {t} /\ m.op = "Start"
      BY <1>c DEF MessageData, ChannelTypeOK, CallerData
    <3>2. watch_queue' = Append(watch_queue, m) /\ UNCHANGED <<handler, failed_asserts>>
          /\ caller[t].pc = "send" /\ caller'[t].pc = "wait"
          /\ \A u \in Thread \ {t} : caller'[u] = caller[u]
      BY <1>3, <1>c, <2>2 DEF SendStart, ChannelTypeOK, CallerData
    <3> HIDE DEF m
    <3>3. /\ \A n \in DOMAIN watch_queue : n \in DOMAIN watch_queue' /\ watch_queue'[n] = watch_queue[n]
          /\ Len(watch_queue) + 1 \in DOMAIN watch_queue' /\ watch_queue'[Len(watch_queue) + 1] = m
          /\ \A n \in DOMAIN watch_queue' : n \in DOMAIN watch_queue \/ n = Len(watch_queue) + 1
          /\ Len(watch_queue) + 1 \notin DOMAIN watch_queue
      BY <1>q, <3>1, <3>2, AppendedMessage
    <3>4. \A u \in Thread : Served(u)'
      BY <3>1, <3>2, <3>3 DEF ChannelInv, Served
    <3> QED  BY <3>1, <3>2, <3>3, <3>4 DEF ChannelInv, Poisoned
  <2> QED  BY <2>1, <2>2
<1>4. ASSUME NEW k \in DOMAIN guard, SendRelease(k) PROVE ChannelInv'
  <2> DEFINE m == [op |-> "Release", request |-> {}, reply |-> {}, key |-> k]
  <2>1. k \in WatchKey  BY WatchAssumption DEF WatchTypeOK, WatchKey
  <2>2. m \in MessageData /\ m.reply = {} /\ m.request = {}  BY <2>1 DEF MessageData
  <2>3. /\ watch_queue' = watch_queue \/ watch_queue' = Append(watch_queue, m)
        /\ UNCHANGED <<caller, handler, failed_asserts>>
    BY <1>4 DEF SendRelease
  <2> HIDE DEF m
  <2>4. CASE watch_queue' = watch_queue
    BY <2>3, <2>4 DEF ChannelInv, Served, Poisoned
  <2>5. CASE watch_queue' = Append(watch_queue, m)
    <3>3. /\ \A n \in DOMAIN watch_queue : n \in DOMAIN watch_queue' /\ watch_queue'[n] = watch_queue[n]
          /\ watch_queue'[Len(watch_queue) + 1] = m
          /\ \A n \in DOMAIN watch_queue' : n \in DOMAIN watch_queue \/ n = Len(watch_queue) + 1
      BY <1>q, <2>2, <2>5, AppendedMessage
    <3> QED  BY <2>2, <2>3, <3>3 DEF ChannelInv, Served, Poisoned
  <2> QED  BY <2>3, <2>4, <2>5
<1>5. CASE ReceiveStart
  <2>1. /\ handler.pc = "idle" /\ watch_queue # <<>> /\ watch_queue' = Tail(watch_queue)
        /\ handler'.pc = "start" /\ handler'.reply = Head(watch_queue).reply
        /\ UNCHANGED <<caller, failed_asserts>>
    BY <1>5 DEF ReceiveStart, watchState
  <2>2. /\ Head(watch_queue) = watch_queue[1] /\ 1 \in DOMAIN watch_queue
        /\ \A n \in DOMAIN watch_queue' :
             n \in Nat /\ n + 1 # 1 /\ n + 1 \in DOMAIN watch_queue /\ watch_queue'[n] = watch_queue[n + 1]
        /\ \A n \in DOMAIN watch_queue :
             n = 1 \/ (n - 1 \in DOMAIN watch_queue' /\ watch_queue[n] = watch_queue'[n - 1])
    BY <1>q, <2>1, HeadOfQueue
  <2>3. ASSUME NEW u \in Thread PROVE Served(u)'
    <3>1. Served(u) /\ handler.reply = {} /\ handler'.reply = watch_queue[1].reply
      BY <2>1, <2>2 DEF ChannelInv
    <3>2. u \in handler'.reply => caller'[u].pc = "wait"  BY <2>1, <2>2, <3>1 DEF Served
    <3>3. ASSUME NEW n \in DOMAIN watch_queue', u \in watch_queue'[n].reply
          PROVE  /\ caller'[u].pc = "wait" /\ u \notin handler'.reply
                 /\ \A m \in DOMAIN watch_queue' : u \in watch_queue'[m].reply => m = n
      BY <2>1, <2>2, <3>1, <3>3 DEF Served
    <3>4. caller'[u].pc = "wait" =>
            u \in handler'.reply \/ \E n \in DOMAIN watch_queue' : u \in watch_queue'[n].reply
      BY <2>1, <2>2, <3>1 DEF Served
    <3> QED  BY <3>2, <3>3, <3>4 DEF Served
  <2> QED  BY <2>1, <2>2, <2>3 DEF ChannelInv, Poisoned
<1>6. ASSUME NEW i \in Item, StartItem(i) PROVE ChannelInv'
  <2>1. /\ handler.pc = "start" /\ handler'.pc = "start" /\ handler'.reply = handler.reply
        /\ UNCHANGED <<caller, watch_queue, failed_asserts>>
    <3>1. \/ handler' = [handler EXCEPT !.todo = @ \ {i}]
          \/ handler' = [handler EXCEPT !.todo = @ \ {i}, !.to_add = @ \cup {i}]
      BY <1>6 DEF StartItem
    <3> QED  BY <1>6, <1>c, <3>1 DEF StartItem, ChannelTypeOK, HandlerData
  <2> QED  BY <2>1 DEF ChannelInv, Served, Poisoned
<1>7. CASE RegisterOngoingWatch
  <2>1. /\ handler' = IdleHandler /\ UNCHANGED <<watch_queue, failed_asserts>>
        /\ caller' = [t \in Thread |-> IF t \in handler.reply THEN Idle ELSE caller[t]]
    BY <1>7 DEF RegisterOngoingWatch
  <2> QED  BY <2>1 DEF ChannelInv, Served, Poisoned, Idle, IdleHandler
<1>8. CASE ReceiveRelease
  <2>1. /\ handler.pc = "idle" /\ watch_queue # <<>> /\ watch_queue' = Tail(watch_queue)
        /\ Head(watch_queue).op = "Release"
        /\ UNCHANGED <<caller, handler>> /\ ~Poisoned
    BY <1>8 DEF ReceiveRelease
  <2>2. /\ Head(watch_queue) = watch_queue[1] /\ 1 \in DOMAIN watch_queue
        /\ \A n \in DOMAIN watch_queue' :
             n \in Nat /\ n + 1 # 1 /\ n + 1 \in DOMAIN watch_queue /\ watch_queue'[n] = watch_queue[n + 1]
        /\ \A n \in DOMAIN watch_queue :
             n = 1 \/ (n - 1 \in DOMAIN watch_queue' /\ watch_queue[n] = watch_queue'[n - 1])
    BY <1>q, <2>1, HeadOfQueue
  <2>3. watch_queue[1].reply = {}  BY <2>1, <2>2 DEF ChannelInv
  <2>4. \A u \in Thread : Served(u)'
    BY <2>1, <2>2, <2>3 DEF ChannelInv, Served
  <2> QED  BY <2>1, <2>2, <2>4 DEF ChannelInv
<1>9. CASE HandlerPanics
  <2>1. Die /\ Poisoned  BY <1>9 DEF HandlerPanics
  <2>2. /\ handler' = [IdleHandler EXCEPT !.pc = "dead"] /\ watch_queue' = <<>>
        /\ caller' = [t \in Thread |-> IF t \in {u \in Thread : caller[u].pc = "wait"}
                                       THEN Idle ELSE caller[t]]
        /\ UNCHANGED failed_asserts
    BY <2>1 DEF Die
  <2> QED  BY <2>1, <2>2 DEF ChannelInv, Served, Poisoned, Idle, IdleHandler
<1>10. CASE UNCHANGED watchVars
  BY <1>2, <1>10 DEF watchVars, watchState
<1>11. ASSUME NEW k \in DOMAIN guard, DropGuard(k) PROVE ChannelInv'
  BY <1>2, <1>11 DEF DropGuard
<1>12. ASSUME NEW gs, NEW b \in BOOLEAN, Unregistering(gs, b) PROVE ChannelInv'
  BY <1>2, <1>12 DEF Unregistering, MayNeedUnregistration, Unwatched
<1>13. CASE StopManager  BY <1>2, <1>13 DEF StopManager
<1>14. CASE ChannelStep
  BY <1>3, <1>4, <1>5, <1>6, <1>7, <1>8, <1>9, <1>11, <1>14, Zenon DEF ChannelStep, Handler
<1> QED  BY <1>1, <1>10, <1>12, <1>13, <1>14, WatchSteps, Zenon

LEMMA ChannelInvInit == WatchInit => ChannelInv
  BY DEF WatchInit, ChannelInv, Served, Idle, IdleHandler

LEMMA ChannelInvCorrect == WatchSpec => []ChannelInv
<1>1. TypeOK /\ TypeOK' /\ WatchTypeOK /\ ChannelInv /\ [WatchNext]_watchVars => ChannelInv'
  BY ChannelInvNext
<1> QED
  BY ChannelInvInit, <1>1, WatchTypeCorrect, WatchedRegistryConsistent, PTL DEF WatchSpec

(* A blocked caller is served by exactly one request, queued or in          *)
(* progress, and no request outlives the wait of its caller.                *)
THEOREM EveryWaiterIsServed == WatchSpec => []WaitingServed
<1>1. ChannelInv => WaitingServed
  <2> SUFFICES ASSUME ChannelInv, NEW t \in Thread
               PROVE  LET queued == {n \in DOMAIN watch_queue : t \in watch_queue[n].reply}
                      IN IF caller[t].pc = "wait"
                         THEN IF t \in handler.reply THEN queued = {} ELSE Cardinality(queued) = 1
                         ELSE queued = {} /\ t \notin handler.reply
    BY DEF WaitingServed
  <2> DEFINE queued == {n \in DOMAIN watch_queue : t \in watch_queue[n].reply}
  <2>1. Served(t)  BY DEF ChannelInv
  <2>2. CASE caller[t].pc # "wait"  BY <2>1, <2>2 DEF Served
  <2>3. CASE caller[t].pc = "wait" /\ t \in handler.reply  BY <2>1, <2>3 DEF Served
  <2>4. CASE caller[t].pc = "wait" /\ t \notin handler.reply
    <3>1. PICK n \in DOMAIN watch_queue : t \in watch_queue[n].reply  BY <2>1, <2>4 DEF Served
    <3>2. queued = {n}  BY <2>1, <3>1 DEF Served
    <3>3. Cardinality(queued) = 1  BY <3>2, FS_Singleton
    <3> QED  BY <2>4, <3>3
  <2> QED  BY <2>2, <2>3, <2>4
<1> QED  BY <1>1, ChannelInvCorrect, PTL

-----------------------------------------------------------------------------
(* A WatchGuard that was dropped stays dropped: the key a caller will make  *)
(* a WatchGuard of is its own, and has none yet.                            *)
CallerKeys ==
  \A t \in Thread : caller[t].key # NoKey =>
    /\ caller[t].key \in DOMAIN guard /\ guard[caller[t].key] = "none"
    /\ \A u \in Thread : caller[u].key = caller[t].key => u = t

LEMMA ReturnKeys ==
  ASSUME WatchTypeOK, CallerKeys, NEW ts \in SUBSET Thread, Return(ts),
         caller' = [t \in Thread |-> IF t \in ts THEN Idle ELSE caller[t]]
  PROVE  /\ CallerKeys'
         /\ DOMAIN guard' = DOMAIN guard
         /\ \A k \in DOMAIN guard : IsDropped(k)' <=> IsDropped(k)
<1>1. DOMAIN guard' = DOMAIN guard  BY DEF Return
<1>2. ASSUME NEW k \in DOMAIN guard
      PROVE  guard'[k] = IF \E t \in ts : caller[t].key = k /\ k # NoKey THEN "held" ELSE guard[k]
  BY DEF Return
<1>3. CallerKeys'  BY <1>1, <1>2 DEF CallerKeys, Idle
<1>4. \A k \in DOMAIN guard : IsDropped(k)' <=> IsDropped(k)
  BY <1>2 DEF CallerKeys, IsDropped
<1> QED  BY <1>1, <1>3, <1>4

LEMMA CallerKeysNext ==
  ASSUME TypeOK, TypeOK', WatchTypeOK, CallerKeys, [WatchNext]_watchVars
  PROVE  CallerKeys'
<1>c. caller \in [Thread -> CallerData]  BY TypesOfChannel DEF ChannelTypeOK
<1>d. DOMAIN getter_by_id \subseteq GetterId /\ DOMAIN getter_by_id' \subseteq GetterId
  BY DEF TypeOK, IsMap
<1>i. Idle.key = NoKey  BY DEF Idle
<1>1. ASSUME NEW t \in Thread, NEW gs, Registering(t, gs) PROVE CallerKeys'
  <2>1. PICK found \in SUBSET (GetterId \X DOMAIN watchers) :
           /\ \/ caller' = [caller EXCEPT ![t] = [Idle EXCEPT !.pc = "dead"]]
              \/ \E request \in SUBSET found : RegisterWatches(t, request, NoKey)
           /\ UNCHANGED guard
    <3> HIDE DEF MayNeedRegistration, WatchTypeOK
    <3>1. MayNeedRegistration(t, gs) /\ gs \in SUBSET (DOMAIN getter_by_id')
          /\ DOMAIN getter_by_id \subseteq DOMAIN getter_by_id'
      BY <1>1 DEF Registering
    <3> QED  BY <1>d, <3>1, RegistrationEffect, ZenonT(30)
  <2>2. found \subseteq Item
    BY WatchAssumption DEF WatchTypeOK, WatchKey, Item
  <2>3. caller'[t].key = NoKey /\ \A u \in Thread \ {t} : caller'[u] = caller[u]
    <3>1. ASSUME NEW request \in SUBSET found, RegisterWatches(t, request, NoKey)
          PROVE  caller'[t].key = NoKey /\ \A u \in Thread \ {t} : caller'[u] = caller[u]
      <4>1. /\ caller'[t] = IF request = {} THEN Idle
                            ELSE [pc |-> "send", request |-> request, key |-> NoKey]
            /\ \A u \in Thread \ {t} : caller'[u] = caller[u]
        BY <1>c, <2>2, <3>1, RegisterWatchesType
      <4> QED  BY <1>i, <4>1
    <3> QED  BY <1>c, <2>1, <3>1, DeadCallerType
  <2> QED  BY <2>1, <2>3 DEF CallerKeys
<1>2. ASSUME NEW t \in Thread, NEW watch \in TargetMaps, WatchValues(t, watch) PROVE CallerKeys'
  <2>1. PICK found \in SUBSET DOMAIN getter_by_id :
           /\ watch_counter \in WatchKey
           /\ \/ /\ caller' = [caller EXCEPT ![t] = [Idle EXCEPT !.pc = "dead"]]
                 /\ guard' = Put(guard, watch_counter, "none")
              \/ \E gs \in SUBSET found :
                   /\ RegisterWatches(t, gs \X {watch_counter}, watch_counter)
                   /\ guard' = Put(guard, watch_counter,
                                   IF gs \X {watch_counter} = {} THEN "held" ELSE "none")
    <3> HIDE DEF WatchValues, WatchTypeOK
    <3> QED  BY <1>d, <1>2, WatchValuesEffect, ZenonT(30)
  <2>2. watch_counter \notin DOMAIN guard  BY DEF WatchTypeOK
  <2>3. /\ DOMAIN guard' = DOMAIN guard \cup {watch_counter}
        /\ \A k \in DOMAIN guard : guard'[k] = guard[k]
    BY <2>1, <2>2 DEF Put
  <2>4. /\ \A u \in Thread \ {t} : caller'[u] = caller[u]
        /\ caller'[t].key = NoKey \/ (caller'[t].key = watch_counter /\ guard'[watch_counter] = "none")
    <3>1. CASE caller' = [caller EXCEPT ![t] = [Idle EXCEPT !.pc = "dead"]]
      BY <1>c, <3>1, DeadCallerType
    <3>2. ASSUME NEW gs \in SUBSET found,
                 RegisterWatches(t, gs \X {watch_counter}, watch_counter),
                 guard' = Put(guard, watch_counter,
                              IF gs \X {watch_counter} = {} THEN "held" ELSE "none")
          PROVE  /\ \A u \in Thread \ {t} : caller'[u] = caller[u]
                 /\ \/ caller'[t].key = NoKey
                    \/ caller'[t].key = watch_counter /\ guard'[watch_counter] = "none"
      <4> DEFINE request == gs \X {watch_counter}
      <4>1. request \in SUBSET Item /\ RegisterWatches(t, request, watch_counter)
            /\ guard' = Put(guard, watch_counter, IF request = {} THEN "held" ELSE "none")
        BY <1>d, <2>1, <3>2 DEF Item
      <4> HIDE DEF request
      <4>2. /\ caller'[t] = IF request = {} THEN Idle
                            ELSE [pc |-> "send", request |-> request, key |-> watch_counter]
            /\ \A u \in Thread \ {t} : caller'[u] = caller[u]
        BY <1>c, <2>1, <4>1, RegisterWatchesType
      <4>3. CASE request = {}  BY <1>i, <4>2, <4>3
      <4>4. CASE request # {}
        <5>1. caller'[t].key = watch_counter  BY <4>2, <4>4
        <5>2. guard'[watch_counter] = "none"  BY <4>1, <4>4 DEF Put
        <5> QED  BY <4>2, <5>1, <5>2
      <4> QED  BY <4>3, <4>4
    <3> QED  BY <2>1, <3>1, <3>2
  <2> QED  BY <2>2, <2>3, <2>4 DEF CallerKeys
<1>3. ASSUME UNCHANGED <<caller, guard>> PROVE CallerKeys'
  BY <1>3 DEF CallerKeys
<1>4. ASSUME NEW t \in Thread, SendStart(t) PROVE CallerKeys'
  <2>1. CASE handler.pc = "dead"
    <3>1. Return({t}) /\ caller' = [caller EXCEPT ![t] = Idle]  BY <1>4, <2>1 DEF SendStart
    <3>2. caller' = [u \in Thread |-> IF u \in {t} THEN Idle ELSE caller[u]]  BY <1>c, <3>1
    <3> QED  BY <3>1, <3>2, ReturnKeys
  <2>2. CASE handler.pc # "dead"
    <3>1. \A u \in Thread : caller'[u].key = caller[u].key
      BY <1>4, <1>c, <2>2 DEF SendStart, CallerData
    <3> QED  BY <1>4, <2>2, <3>1 DEF SendStart, CallerKeys
  <2> QED  BY <2>1, <2>2
<1>5. ASSUME NEW k \in DOMAIN guard, DropGuard(k) \/ SendRelease(k) PROVE CallerKeys'
  <2>1. /\ guard[k] # "none" /\ UNCHANGED caller
        /\ DOMAIN guard' = DOMAIN guard /\ \A j \in DOMAIN guard \ {k} : guard'[j] = guard[j]
    BY <1>5 DEF DropGuard, SendRelease, channelState
  <2> QED  BY <2>1 DEF CallerKeys
<1>6. CASE RegisterOngoingWatch
  <2>1. handler.reply \in SUBSET Thread  BY DEF WatchTypeOK
  <2> QED  BY <1>6, <2>1, ReturnKeys DEF RegisterOngoingWatch
<1>7. CASE HandlerPanics
  <2> DEFINE ts == {t \in Thread : caller[t].pc = "wait"}
  <2>1. ts \in SUBSET Thread /\ Return(ts)
        /\ caller' = [t \in Thread |-> IF t \in ts THEN Idle ELSE caller[t]]
    BY <1>7 DEF HandlerPanics, Die
  <2> HIDE DEF ts
  <2> QED  BY <2>1, ReturnKeys
<1>8. ReceiveStart \/ (\E i \in Item : StartItem(i)) \/ ReceiveRelease => UNCHANGED <<caller, guard>>
  BY DEF ReceiveStart, StartItem, ReceiveRelease, watchState
<1>9. CASE ChannelStep
  BY <1>3, <1>4, <1>5, <1>6, <1>7, <1>8, <1>9, Zenon DEF ChannelStep, Handler
<1>10. ASSUME NEW gs, NEW b \in BOOLEAN, Unregistering(gs, b) PROVE CallerKeys'
  BY <1>3, <1>10 DEF Unregistering, MayNeedUnregistration, Unwatched, channelState
<1>11. CASE StopManager  BY <1>3, <1>11 DEF StopManager, channelState
<1>12. CASE UNCHANGED watchVars  BY <1>3, <1>12 DEF watchVars, watchState, channelState
<1> QED  BY <1>1, <1>2, <1>9, <1>10, <1>11, <1>12, WatchSteps, Zenon

LEMMA CallerKeysCorrect == WatchSpec => []CallerKeys
<1>1. WatchInit => CallerKeys  BY DEF WatchInit, CallerKeys, Idle
<1>2. TypeOK /\ TypeOK' /\ WatchTypeOK /\ CallerKeys /\ [WatchNext]_watchVars => CallerKeys'
  BY CallerKeysNext
<1> QED
  BY <1>1, <1>2, WatchTypeCorrect, WatchedRegistryConsistent, PTL DEF WatchSpec

-----------------------------------------------------------------------------
(* No registration is lost.                                                *)

OnItsWay(i) ==
  \/ \E t \in Thread : caller[t].pc = "send" /\ i \in caller[t].request
  \/ \E n \in DOMAIN watch_queue : i \in watch_queue[n].request
  \/ i \in handler.todo
  \/ i \in handler.to_add

LEMMA PendingIsOnItsWay == \A i : i \in PendingItems <=> OnItsWay(i)
<1> DEFINE sending == UNION {caller[t].request : t \in {u \in Thread : caller[u].pc = "send"}}
           queued == UNION {watch_queue[n].request : n \in DOMAIN watch_queue}
<1>1. \A i : i \in sending <=> \E t \in Thread : caller[t].pc = "send" /\ i \in caller[t].request
  <2> TAKE i
  <2>1. ASSUME i \in sending
        PROVE  \E t \in Thread : caller[t].pc = "send" /\ i \in caller[t].request
    <3>1. PICK S \in {caller[t].request : t \in {u \in Thread : caller[u].pc = "send"}} : i \in S
      BY <2>1
    <3>2. PICK t \in {u \in Thread : caller[u].pc = "send"} : S = caller[t].request
      BY <3>1
    <3> QED  BY <3>1, <3>2
  <2>2. ASSUME NEW t \in Thread, caller[t].pc = "send", i \in caller[t].request
        PROVE  i \in sending
    <3>1. t \in {u \in Thread : caller[u].pc = "send"}
      BY <2>2
    <3>2. caller[t].request \in {caller[v].request : v \in {u \in Thread : caller[u].pc = "send"}}
      BY <3>1, Zenon
    <3> QED  BY <2>2, <3>2, Zenon
  <2> QED  BY <2>1, <2>2, Zenon
<1>2. \A i : i \in queued <=> \E n \in DOMAIN watch_queue : i \in watch_queue[n].request
  BY Zenon
<1>3. PendingItems = sending \cup queued \cup handler.todo \cup handler.to_add
  BY DEF PendingItems
<1> HIDE DEF sending, queued
<1> QED  BY <1>1, <1>2, <1>3 DEF OnItsWay

(* What is not lost, for one getter and one watcher.                        *)
Safe(g, k) ==
  Live(k) /\ Attached(k, g) /\ WatchesValues(k) =>
    OnItsWay(<<g, k>>) \/ <<g, k>> \in refused \/ g \in DOMAIN watchers[k].guards

NothingLost == ~Poisoned => \A g \in GetterId, k \in WatchKey : Safe(g, k)

LEMMA RegistrationLosesNothing ==
  ASSUME TypeOK, TypeOK', WatchTypeOK, NothingLost, NEW t \in Thread, NEW gs, Registering(t, gs)
  PROVE  NothingLost'
<1>c. caller \in [Thread -> CallerData]  BY TypesOfChannel DEF ChannelTypeOK
<1>d. DOMAIN getter_by_id \subseteq GetterId /\ DOMAIN getter_by_id' \subseteq GetterId
  BY DEF TypeOK, IsMap
<1> SUFFICES ASSUME ~Poisoned' PROVE NothingLost'  BY DEF NothingLost
<1>1. PICK found \in SUBSET (GetterId \X DOMAIN watchers) :
        /\ getter_watchers' \in [DOMAIN getter_by_id' -> SUBSET WatchKey]
        /\ \A g \in DOMAIN getter_by_id' : \A k :
             k \in getter_watchers'[g] <=> \/ g \in DOMAIN getter_by_id /\ k \in getter_watchers[g]
                                           \/ <<g, k>> \in found
        /\ \/ failed_asserts' = failed_asserts \cup {"already_watching"}
           \/ \E request \in SUBSET found :
                /\ RegisterWatches(t, request, NoKey)
                /\ \A i \in found : WatchesValues(i[2]) => i \in request
        /\ UNCHANGED <<watchers, guard, refused, watch_queue, handler>>
  <2> HIDE DEF MayNeedRegistration, WatchTypeOK
  <2>1. MayNeedRegistration(t, gs) /\ gs \in SUBSET (DOMAIN getter_by_id')
        /\ DOMAIN getter_by_id \subseteq DOMAIN getter_by_id'
    BY DEF Registering
  <2> QED  BY <1>d, <2>1, RegistrationEffect, ZenonT(30)
<1>2. PICK request \in SUBSET found :
        /\ RegisterWatches(t, request, NoKey)
        /\ \A i \in found : WatchesValues(i[2]) => i \in request
  BY <1>1 DEF Poisoned
<1>3. found \subseteq Item
  BY WatchAssumption DEF WatchTypeOK, WatchKey, Item
<1>4. /\ caller'[t] = IF request = {} THEN Idle
                      ELSE [pc |-> "send", request |-> request, key |-> NoKey]
      /\ \A u \in Thread \ {t} : caller'[u] = caller[u]
  BY <1>c, <1>2, <1>3, RegisterWatchesType
<1>5. caller[t].pc = "idle" /\ ~Poisoned  BY DEF Registering
<1>6. \A i : OnItsWay(i) => OnItsWay(i)'
  BY <1>1, <1>4, <1>5 DEF OnItsWay
<1>7. \A i \in request : OnItsWay(i)'
  <2>1. ASSUME NEW i \in request PROVE caller'[t].pc = "send" /\ i \in caller'[t].request
    BY <1>4
  <2> QED  BY <2>1 DEF OnItsWay
<1>8. ASSUME NEW g \in GetterId, NEW k \in WatchKey, Live(k)', Attached(k, g)', WatchesValues(k)'
      PROVE  OnItsWay(<<g, k>>)' \/ <<g, k>> \in refused' \/ g \in DOMAIN watchers'[k].guards
  <2>1. Live(k) /\ WatchesValues(k)
    BY <1>1, <1>8 DEF Live, IsDropped, WatchesValues
  <2>2. CASE <<g, k>> \in found
    <3>1. <<g, k>> \in request  BY <1>2, <2>1, <2>2
    <3> QED  BY <1>7, <3>1
  <2>3. CASE <<g, k>> \notin found
    <3>1. Attached(k, g)  BY <1>1, <1>8, <2>3 DEF Attached, WatchTypeOK
    <3>2. Safe(g, k)  BY <1>5 DEF NothingLost
    <3> QED  BY <1>1, <1>6, <2>1, <3>1, <3>2 DEF Safe
  <2> QED  BY <2>2, <2>3
<1> QED  BY <1>8 DEF NothingLost, Safe

LEMMA WatchValuesLosesNothing ==
  ASSUME TypeOK, WatchTypeOK, Known, NothingLost,
         NEW t \in Thread, NEW watch \in TargetMaps, WatchValues(t, watch)
  PROVE  NothingLost'
<1> DEFINE key == watch_counter
<1>c. caller \in [Thread -> CallerData]  BY TypesOfChannel DEF ChannelTypeOK
<1>d. DOMAIN getter_by_id \subseteq GetterId  BY DEF TypeOK, IsMap
<1> SUFFICES ASSUME ~Poisoned' PROVE NothingLost'  BY DEF NothingLost
<1>1. PICK found \in SUBSET DOMAIN getter_by_id :
        /\ key \in WatchKey /\ caller[t].pc = "idle" /\ ~Poisoned
        /\ watchers' = Put(watchers, key, [watch |-> watch, guards |-> EmptyMap])
        /\ getter_watchers' = [g \in DOMAIN getter_by_id |->
             IF g \in found THEN getter_watchers[g] \cup {key} ELSE getter_watchers[g]]
        /\ \/ failed_asserts' = failed_asserts \cup {"already_watching"}
           \/ \E gs \in SUBSET found :
                /\ RegisterWatches(t, gs \X {key}, key)
                /\ guard' = Put(guard, key, IF gs \X {key} = {} THEN "held" ELSE "none")
                /\ (\A target \in watch : target.payload # "Never") => gs = found
        /\ UNCHANGED <<refused, watch_queue, handler>>
  <2> HIDE DEF WatchValues, WatchTypeOK
  <2> QED  BY <1>d, WatchValuesEffect, ZenonT(30)
<1>2. PICK gs \in SUBSET found :
        /\ RegisterWatches(t, gs \X {key}, key)
        /\ guard' = Put(guard, key, IF gs \X {key} = {} THEN "held" ELSE "none")
        /\ (\A target \in watch : target.payload # "Never") => gs = found
  BY <1>1 DEF Poisoned
<1> DEFINE request == gs \X {key}
<1>3. request \in SUBSET Item /\ RegisterWatches(t, request, key)
      /\ \A g \in gs : <<g, key>> \in request
  BY <1>d, <1>1, <1>2 DEF Item
<1> HIDE DEF request
<1>4. /\ caller'[t] = IF request = {} THEN Idle
                      ELSE [pc |-> "send", request |-> request, key |-> key]
      /\ \A u \in Thread \ {t} : caller'[u] = caller[u]
  BY <1>c, <1>1, <1>3, RegisterWatchesType
<1>5. \A i : OnItsWay(i) => OnItsWay(i)'
  BY <1>1, <1>4 DEF OnItsWay
<1>6. \A i \in request : OnItsWay(i)'
  <2>1. ASSUME NEW i \in request PROVE caller'[t].pc = "send" /\ i \in caller'[t].request
    BY <1>4
  <2> QED  BY <2>1 DEF OnItsWay
<1>7. key \notin DOMAIN guard /\ \A k \in DOMAIN watchers : k \in DOMAIN guard
  BY DEF WatchTypeOK
<1>8. ASSUME NEW g \in GetterId, NEW k \in WatchKey, Live(k)', Attached(k, g)', WatchesValues(k)'
      PROVE  OnItsWay(<<g, k>>)' \/ <<g, k>> \in refused' \/ g \in DOMAIN watchers'[k].guards
  <2>1. CASE k = key
    <3>1. g \in found
      <4>1. \A h \in DOMAIN getter_watchers : key \notin getter_watchers[h]
        BY DEF Known, WatchTypeOK
      <4> QED  BY <1>1, <1>8, <2>1, <4>1 DEF Attached, WatchTypeOK
    <3>2. watchers'[key].watch = watch  BY <1>1 DEF Put
    <3>3. g \in gs  BY <1>2, <1>8, <2>1, <3>1, <3>2 DEF WatchesValues
    <3> QED  BY <1>3, <1>6, <2>1, <3>3
  <2>2. CASE k # key
    <3>1. k \in DOMAIN watchers /\ watchers'[k] = watchers[k] /\ guard'[k] = guard[k]
      BY <1>1, <1>2, <1>7, <1>8, <2>2 DEF Live, Put
    <3>2. Live(k) /\ WatchesValues(k)
      BY <1>8, <3>1 DEF Live, IsDropped, WatchesValues
    <3>3. Attached(k, g)  BY <1>1, <1>8, <2>2 DEF Attached, WatchTypeOK
    <3>4. Safe(g, k)  BY <1>1 DEF NothingLost
    <3> QED  BY <1>1, <1>5, <3>1, <3>2, <3>3, <3>4 DEF Safe
  <2> QED  BY <2>1, <2>2
<1> QED  BY <1>8 DEF NothingLost, Safe

LEMMA UnregistrationLosesNothing ==
  ASSUME WatchTypeOK, NothingLost, NEW gs, NEW b \in BOOLEAN, Unregistering(gs, b)
  PROVE  NothingLost'
<1>1. /\ getter_watchers' \in [DOMAIN getter_by_id' -> SUBSET WatchKey]
      /\ DOMAIN watchers' = DOMAIN watchers
      /\ \A k \in DOMAIN watchers : watchers'[k].watch = watchers[k].watch
      /\ \A g \in DOMAIN getter_by_id' : \A k \in getter_watchers'[g] :
           /\ k \in getter_watchers[g]
           /\ k \in DOMAIN watchers =>
                (g \in DOMAIN watchers[k].guards => g \in DOMAIN watchers'[k].guards)
      /\ refused' = {i \in refused : Attached(i[2], i[1])'}
      /\ UNCHANGED <<guard, failed_asserts, caller, watch_queue, handler>>
  BY UnregistrationEffect DEF Unregistering, channelState
<1>2. ASSUME ~Poisoned, NEW g \in GetterId, NEW k \in WatchKey,
             Live(k)', Attached(k, g)', WatchesValues(k)'
      PROVE  OnItsWay(<<g, k>>)' \/ <<g, k>> \in refused' \/ g \in DOMAIN watchers'[k].guards
  <2>1. Live(k) /\ WatchesValues(k) /\ k \in DOMAIN watchers
    BY <1>1, <1>2 DEF Live, IsDropped, WatchesValues
  <2>2. g \in DOMAIN getter_by_id' /\ k \in getter_watchers'[g]  BY <1>1, <1>2 DEF Attached
  <2>3. Attached(k, g)  BY <1>1, <2>2 DEF Attached, WatchTypeOK, Unregistering
  <2>4. OnItsWay(<<g, k>>) \/ <<g, k>> \in refused \/ g \in DOMAIN watchers[k].guards
    BY <1>2, <2>1, <2>3 DEF NothingLost, Safe
  <2>5. OnItsWay(<<g, k>>) => OnItsWay(<<g, k>>)'  BY <1>1 DEF OnItsWay
  <2>6. <<g, k>> \in refused => <<g, k>> \in refused'
    <3>1. ASSUME <<g, k>> \in refused PROVE <<g, k>> \in refused'
      <4>1. <<g, k>>[1] = g /\ <<g, k>>[2] = k  OBVIOUS
      <4> QED  BY <1>1, <1>2, <3>1, <4>1
    <3> QED  BY <3>1
  <2> QED  BY <1>1, <2>1, <2>2, <2>4, <2>5, <2>6
<1> QED  BY <1>1, <1>2 DEF NothingLost, Safe, Poisoned

(* The channel: an item goes from its caller to the queue, from the queue   *)
(* to the background thread, from there to the adapter, and from the        *)
(* adapter back to its watcher.                                             *)
LEMMA ChannelLosesNothing ==
  ASSUME WatchTypeOK, ChannelInv, CallerKeys, NothingLost, ChannelStep
  PROVE  NothingLost'
<1>c. ChannelTypeOK  BY TypesOfChannel
<1>q. watch_queue \in Seq(MessageData)  BY <1>c DEF ChannelTypeOK
<1>g. DOMAIN guard = 0 .. watch_counter - 1 /\ DOMAIN watchers \subseteq DOMAIN guard
  BY DEF WatchTypeOK
(* A step that keeps the watchers, and loses no item of a live watcher.     *)
<1>k. ASSUME UNCHANGED <<getter_watchers, watchers, failed_asserts>>,
             \A k \in DOMAIN watchers : IsDropped(k) => IsDropped(k)',
             \A g \in GetterId, k \in WatchKey :
               /\ OnItsWay(<<g, k>>) /\ Live(k) /\ Attached(k, g) =>
                    OnItsWay(<<g, k>>)' \/ <<g, k>> \in refused'
               /\ <<g, k>> \in refused => <<g, k>> \in refused'
      PROVE  NothingLost'
  <2>1. ASSUME ~Poisoned, NEW g \in GetterId, NEW k \in WatchKey,
               Live(k)', Attached(k, g)', WatchesValues(k)'
        PROVE  OnItsWay(<<g, k>>)' \/ <<g, k>> \in refused' \/ g \in DOMAIN watchers'[k].guards
    <3>1. Live(k) /\ Attached(k, g) /\ WatchesValues(k)
      BY <1>k, <2>1 DEF Live, Attached, WatchesValues
    <3> QED  BY <1>k, <2>1, <3>1 DEF NothingLost, Safe
  <2> QED  BY <1>k, <2>1 DEF NothingLost, Safe, Poisoned
<1>1. ASSUME NEW t \in Thread, SendStart(t) PROVE NothingLost'
  <2>0. UNCHANGED <<getter_watchers, watchers, failed_asserts, refused, handler>>
    BY <1>1 DEF SendStart
  <2>1. CASE handler.pc = "dead"
    BY <2>0, <2>1 DEF ChannelInv, NothingLost, Poisoned
  <2>2. CASE handler.pc # "dead"
    <3> DEFINE m == [op |-> "Start", request |-> caller[t].request, reply |-> {t}, key |-> NoKey]
    <3>1. m \in MessageData /\ m.request = caller[t].request
      BY <1>c DEF MessageData, ChannelTypeOK, CallerData
    <3>2. watch_queue' = Append(watch_queue, m) /\ UNCHANGED guard
          /\ \A u \in Thread \ {t} : caller'[u] = caller[u]
      BY <1>1, <1>c, <2>2 DEF SendStart, ChannelTypeOK, CallerData
    <3> HIDE DEF m
    <3>3. /\ \A n \in DOMAIN watch_queue : n \in DOMAIN watch_queue' /\ watch_queue'[n] = watch_queue[n]
          /\ Len(watch_queue) + 1 \in DOMAIN watch_queue' /\ watch_queue'[Len(watch_queue) + 1] = m
      BY <1>q, <3>1, <3>2, AppendedMessage
    <3>4. \A i : OnItsWay(i) => OnItsWay(i)'
      BY <2>0, <3>1, <3>2, <3>3 DEF OnItsWay
    <3>5. \A k : IsDropped(k)' = IsDropped(k)  BY <3>2 DEF IsDropped
    <3> QED  BY <1>k, <2>0, <3>4, <3>5
  <2> QED  BY <2>1, <2>2
<1>2. ASSUME NEW j \in DOMAIN guard, DropGuard(j) PROVE NothingLost'
  <2>1. UNCHANGED <<getter_watchers, watchers, failed_asserts, refused, caller, watch_queue, handler>>
    BY <1>2 DEF DropGuard, channelState
  <2>2. \A i : OnItsWay(i) => OnItsWay(i)'  BY <2>1 DEF OnItsWay
  <2>3. \A k \in DOMAIN watchers : IsDropped(k) => IsDropped(k)'
    BY <1>2, <1>g DEF DropGuard, IsDropped
  <2> QED  BY <1>k, <2>1, <2>2, <2>3
<1>3. ASSUME NEW j \in DOMAIN guard, SendRelease(j) PROVE NothingLost'
  <2> DEFINE m == [op |-> "Release", request |-> {}, reply |-> {}, key |-> j]
  <2>1. UNCHANGED <<getter_watchers, watchers, failed_asserts, refused, caller, handler>>
        /\ (watch_queue' = watch_queue \/ watch_queue' = Append(watch_queue, m))
    BY <1>3 DEF SendRelease
  <2>m. m \in MessageData
    BY <1>g, WatchAssumption DEF MessageData, WatchTypeOK, WatchKey
  <2> HIDE DEF m
  <2>2. \A n \in DOMAIN watch_queue : n \in DOMAIN watch_queue' /\ watch_queue'[n] = watch_queue[n]
    BY <1>q, <2>1, <2>m, AppendedMessage
  <2>3. \A i : OnItsWay(i) => OnItsWay(i)'  BY <2>1, <2>2 DEF OnItsWay
  <2>4. \A k \in DOMAIN watchers : IsDropped(k) => IsDropped(k)'
    BY <1>3, <1>g DEF SendRelease, IsDropped
  <2> QED  BY <1>k, <2>1, <2>3, <2>4
<1>4. CASE ReceiveStart
  <2>1. /\ handler.pc = "idle" /\ watch_queue # <<>> /\ watch_queue' = Tail(watch_queue)
        /\ handler'.todo = Head(watch_queue).request
        /\ UNCHANGED <<getter_watchers, watchers, guard, failed_asserts, refused, caller>>
    BY <1>4 DEF ReceiveStart, watchState
  <2>2. /\ Head(watch_queue) = watch_queue[1]
        /\ \A n \in DOMAIN watch_queue :
             n = 1 \/ (n - 1 \in DOMAIN watch_queue' /\ watch_queue[n] = watch_queue'[n - 1])
    BY <1>q, <2>1, HeadOfQueue
  <2>3. handler.todo = {} /\ handler.to_add = {}  BY <2>1 DEF ChannelInv
  <2>4. \A i : OnItsWay(i) => OnItsWay(i)'  BY <2>1, <2>2, <2>3 DEF OnItsWay
  <2>5. \A k : IsDropped(k)' = IsDropped(k)  BY <2>1 DEF IsDropped
  <2> QED  BY <1>k, <2>1, <2>4, <2>5
<1>5. ASSUME NEW i \in Item, StartItem(i) PROVE NothingLost'
  <2>1. /\ UNCHANGED <<getter_watchers, watchers, guard, failed_asserts, caller, watch_queue>>
        /\ \/ /\ ~Live(i[2]) /\ handler' = [handler EXCEPT !.todo = @ \ {i}] /\ UNCHANGED refused
           \/ /\ handler' = [handler EXCEPT !.todo = @ \ {i}, !.to_add = @ \cup {i}]
              /\ UNCHANGED refused
           \/ /\ handler' = [handler EXCEPT !.todo = @ \ {i}]
              /\ refused' = IF Attached(i[2], i[1]) THEN refused \cup {i} ELSE refused
    BY <1>5 DEF StartItem, Live
  <2>2. handler \in HandlerData  BY <1>c DEF ChannelTypeOK
  <2>3. /\ \A j \in handler.todo : j # i => j \in handler'.todo
        /\ handler.to_add \subseteq handler'.to_add
        /\ refused \subseteq refused'
        /\ \/ ~Live(i[2])
           \/ i \in handler'.to_add
           \/ Attached(i[2], i[1]) => i \in refused'
    BY <2>1, <2>2 DEF HandlerData
  <2>4. ASSUME NEW g \in GetterId, NEW k \in WatchKey,
               OnItsWay(<<g, k>>), Live(k), Attached(k, g)
        PROVE  OnItsWay(<<g, k>>)' \/ <<g, k>> \in refused'
    <3>1. CASE <<g, k>> = i
      <4>1. i[1] = g /\ i[2] = k  BY <3>1
      <4> QED  BY <2>3, <2>4, <3>1, <4>1 DEF OnItsWay
    <3>2. CASE <<g, k>> # i  BY <2>1, <2>3, <2>4, <3>2 DEF OnItsWay
    <3> QED  BY <3>1, <3>2
  <2>5. \A k : IsDropped(k)' = IsDropped(k)  BY <2>1 DEF IsDropped
  <2> QED  BY <1>k, <2>1, <2>3, <2>4, <2>5
<1>6. CASE RegisterOngoingWatch
  <2> DEFINE answered(k) == {i[1] : i \in {j \in handler.to_add : j[2] = k}}
  <2>1. /\ handler.todo = {} /\ Return(handler.reply)
        /\ watchers' = [k \in DOMAIN watchers |->
             [watchers[k] EXCEPT !.guards = PushGuard(@, answered(k))]]
        /\ caller' = [t \in Thread |-> IF t \in handler.reply THEN Idle ELSE caller[t]]
        /\ UNCHANGED <<getter_watchers, failed_asserts, refused, watch_queue>>
    BY <1>6, Zenon DEF RegisterOngoingWatch
  <2>2. handler.reply \in SUBSET Thread  BY DEF WatchTypeOK
  <2>3. \A k \in DOMAIN guard : IsDropped(k)' <=> IsDropped(k)  BY <2>1, <2>2, ReturnKeys
  <2>4. \A g, k : <<g, k>> \in handler.to_add => g \in answered(k)  OBVIOUS
  <2> HIDE DEF answered
  <2>5. ASSUME NEW k \in DOMAIN watchers
        PROVE  /\ watchers'[k].watch = watchers[k].watch
               /\ DOMAIN watchers'[k].guards = DOMAIN watchers[k].guards \cup answered(k)
    <3>1. DOMAIN watchers[k] = {"watch", "guards"}  BY DEF WatchTypeOK
    <3>2. watchers'[k] = [watchers[k] EXCEPT !.guards = PushGuard(@, answered(k))]  BY <2>1
    <3>3. /\ watchers'[k].watch = watchers[k].watch
          /\ watchers'[k].guards = PushGuard(watchers[k].guards, answered(k))
      BY <3>1, <3>2
    <3> QED  BY <3>3 DEF PushGuard
  <2>6. ASSUME ~Poisoned, NEW g \in GetterId, NEW k \in WatchKey,
               Live(k)', Attached(k, g)', WatchesValues(k)'
        PROVE  OnItsWay(<<g, k>>)' \/ <<g, k>> \in refused' \/ g \in DOMAIN watchers'[k].guards
    <3>1. k \in DOMAIN watchers  BY <2>1, <2>6 DEF Live
    <3>2. Live(k) /\ Attached(k, g) /\ WatchesValues(k)
      BY <1>g, <2>1, <2>3, <2>5, <2>6, <3>1 DEF Live, Attached, WatchesValues
    <3>3. OnItsWay(<<g, k>>) \/ <<g, k>> \in refused \/ g \in DOMAIN watchers[k].guards
      BY <2>6, <3>2 DEF NothingLost, Safe
    <3>4. OnItsWay(<<g, k>>) => OnItsWay(<<g, k>>)' \/ <<g, k>> \in handler.to_add
      <4>1. \A t \in Thread : caller[t].pc = "send" => t \notin handler.reply
        BY DEF ChannelInv, Served
      <4> QED  BY <2>1, <4>1 DEF OnItsWay
    <3> QED  BY <2>1, <2>4, <2>5, <3>1, <3>3, <3>4
  <2> QED  BY <2>1, <2>6 DEF NothingLost, Safe, Poisoned
<1>7. CASE ReceiveRelease
  <2>1. /\ ~Poisoned /\ watch_queue # <<>> /\ watch_queue' = Tail(watch_queue)
        /\ Head(watch_queue).op = "Release"
        /\ UNCHANGED <<guard, refused, caller, handler>>
    BY <1>7 DEF ReceiveRelease
  <2>2. /\ Head(watch_queue) = watch_queue[1] /\ 1 \in DOMAIN watch_queue
        /\ \A n \in DOMAIN watch_queue :
             n = 1 \/ (n - 1 \in DOMAIN watch_queue' /\ watch_queue[n] = watch_queue'[n - 1])
    BY <1>q, <2>1, HeadOfQueue
  <2>3. watch_queue[1].request = {}  BY <2>1, <2>2 DEF ChannelInv
  <2>4. \A i : OnItsWay(i) => OnItsWay(i)'  BY <2>1, <2>2, <2>3 DEF OnItsWay
  <2>5. PICK j : StopWatch(j)  BY <1>7 DEF ReceiveRelease
  <2>6. /\ \A k \in DOMAIN watchers' : k \in DOMAIN watchers /\ watchers'[k] = watchers[k]
        /\ \A k, g : Attached(k, g)' => Attached(k, g)
    BY <2>5 DEF StopWatch, Drop, Restrict, Attached
  <2>7. ASSUME NEW g \in GetterId, NEW k \in WatchKey,
               Live(k)', Attached(k, g)', WatchesValues(k)'
        PROVE  OnItsWay(<<g, k>>)' \/ <<g, k>> \in refused' \/ g \in DOMAIN watchers'[k].guards
    <3>1. Live(k) /\ Attached(k, g) /\ WatchesValues(k) /\ watchers'[k] = watchers[k]
      BY <2>1, <2>6, <2>7 DEF Live, IsDropped, WatchesValues
    <3> QED  BY <2>1, <2>4, <3>1 DEF NothingLost, Safe
  <2> QED  BY <2>7 DEF NothingLost, Safe
<1>8. HandlerPanics => Poisoned'  BY DEF HandlerPanics, Die, Poisoned
<1>9. Poisoned' => NothingLost'  BY DEF NothingLost
<1> QED
  BY <1>1, <1>2, <1>3, <1>4, <1>5, <1>6, <1>7, <1>8, <1>9, Zenon DEF ChannelStep, Handler

LEMMA NothingLostNext ==
  ASSUME TypeOK, TypeOK', WatchTypeOK, Known, ChannelInv, CallerKeys, NothingLost,
         [WatchNext]_watchVars
  PROVE  NothingLost'
<1>1. ASSUME NEW t \in Thread, NEW gs, Registering(t, gs) PROVE NothingLost'
  BY <1>1, RegistrationLosesNothing
<1>2. ASSUME NEW t \in Thread, NEW watch \in TargetMaps, WatchValues(t, watch) PROVE NothingLost'
  BY <1>2, WatchValuesLosesNothing
<1>3. ASSUME NEW gs, NEW b \in BOOLEAN, Unregistering(gs, b) PROVE NothingLost'
  BY <1>3, UnregistrationLosesNothing
<1>4. CASE StopManager
  BY <1>4 DEF StopManager, EmptyMap, NothingLost, Safe, Live
<1>5. CASE ChannelStep  BY <1>5, ChannelLosesNothing
<1>6. CASE UNCHANGED watchVars
  BY <1>6 DEF watchVars, watchState, channelState, NothingLost, Safe, Live, IsDropped, Attached,
              WatchesValues, OnItsWay, Poisoned
<1> QED  BY <1>1, <1>2, <1>3, <1>4, <1>5, <1>6, WatchSteps, Zenon

LEMMA KnownCorrect == WatchSpec => []Known
<1>1. WatchInit => Known  BY DEF WatchInit, Known, EmptyMap
<1>2. TypeOK /\ TypeOK' /\ WatchTypeOK /\ Known /\ [WatchNext]_watchVars => Known'
  BY KnownNext
<1> QED
  BY <1>1, <1>2, WatchTypeCorrect, WatchedRegistryConsistent, PTL DEF WatchSpec

(* A getter that a watcher of values is attached to is never forgotten      *)
(* between the maps, the channel, the background thread and its adapter,    *)
(* whatever the other threads do between any two of its steps.              *)
THEOREM RegistrationsAreNotLost == WatchSpec => []NoLostRegistration
<1>1. WatchInit => NothingLost
  BY DEF WatchInit, NothingLost, Safe, Live, EmptyMap
<1>2. /\ TypeOK /\ TypeOK' /\ WatchTypeOK /\ Known /\ ChannelInv /\ CallerKeys /\ NothingLost
      /\ [WatchNext]_watchVars
      => NothingLost'
  BY NothingLostNext
<1>3. NothingLost => NoLostRegistration
  BY PendingIsOnItsWay DEF NothingLost, Safe, NoLostRegistration
<1> QED
  BY <1>1, <1>2, <1>3, WatchTypeCorrect, WatchedRegistryConsistent, KnownCorrect,
     ChannelInvCorrect, CallerKeysCorrect, PTL DEF WatchSpec
=============================================================================
