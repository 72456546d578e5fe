--------------------------- MODULE PhilipsHueProofs ---------------------------
(***************************************************************************)
(* Proofs about the Philips Hue adapter and the configuration that stores  *)
(* the tokens of its hubs, for any hubs, lights, tokens and command lines: *)
(* their types, that the file remembers what was set, and that the lights  *)
(* presented are those of hubs whose token is kept.                        *)
(***************************************************************************)
EXTENDS PhilipsHue, SequenceTheorems, TLAPS

-----------------------------------------------------------------------------
(* The configuration store.                                                *)

LEMMA PutSetting ==
  ASSUME NEW m, IsMap(m, Property, Setting), NEW p \in Property, NEW v \in Setting
  PROVE  IsMap(Put(m, p, v), Property, Setting)
  BY DEF IsMap, Put

LEMMA ValueType ==
  ASSUME NEW m, IsMap(m, Property, Setting), NEW p \in Property
  PROVE  ValueOf(m, p) \in SUBSET Setting
  BY DEF IsMap, ValueOf

(* ConfigTypeOK with its two files apart.                                   *)
FileOK(f) ==
  /\ f.state \in {"absent", "broken", "written"}
  /\ IsMap(f.tree, Property, Setting)

LEMMA FileType ==
  /\ FileOK(Absent) /\ FileOK(Broken)
  /\ \A m : IsMap(m, Property, Setting) => FileOK(Written(m))
  BY DEF FileOK, Absent, Broken, Written, EmptyMap, IsMap

LEMMA ConfigTypeByFile ==
  ConfigTypeOK <=>
    /\ IsMap(config, Property, Setting) /\ overrides \in Flags
    /\ FileOK(file) /\ FileOK(updated)
    /\ saving \in {"idle", "create", "write", "copy", "fill", "remove"}
    /\ asked \in [Property -> SUBSET SUBSET Setting] /\ failed \in BOOLEAN
  BY DEF ConfigTypeOK, FileOK

LEMMA ConfigTypeInit == ConfigInit => ConfigTypeOK
<1>1. IsMap(EmptyMap, Property, Setting)  BY DEF EmptyMap, IsMap
<1> QED  BY <1>1, FileType, ConfigTypeByFile DEF ConfigInit

LEMMA SetSettingType ==
  ASSUME ConfigTypeOK, NEW p \in Property, NEW v \in Setting, SetSetting(p, v)
  PROVE  ConfigTypeOK'
  BY PutSetting, ConfigTypeByFile DEF SetSetting, ConfigTypeOK, FileOK

LEMMA SaveStepType == ASSUME ConfigTypeOK, SaveStep PROVE ConfigTypeOK'
<1>1. FileOK(file) /\ FileOK(updated) /\ FileOK(Written(config))
  BY FileType, ConfigTypeByFile
<1>2. FileOK(file') /\ FileOK(updated')
  BY <1>1, FileType DEF SaveStep, CreateUpdated, WriteUpdated, StartCopy, EndCopy, RemoveUpdated, EndSave
<1>3. IsMap(config, Property, Setting) /\ \A p \in Property : ValueOf(config, p) \in SUBSET Setting
  BY ValueType DEF ConfigTypeOK
<1>4. /\ UNCHANGED <<config, overrides>>
      /\ asked' \in {asked, [p \in Property |-> {ValueOf(config, p)}]}
  BY DEF SaveStep, CreateUpdated, WriteUpdated, StartCopy, EndCopy, RemoveUpdated, EndSave
<1>5. /\ saving' \in {"idle", "create", "write", "copy", "fill", "remove"}
      /\ failed' \in BOOLEAN
  BY DEF SaveStep, CreateUpdated, WriteUpdated, StartCopy, EndCopy, RemoveUpdated, EndSave,
         ConfigTypeOK
<1>6. ConfigTypeOK' <=>
        /\ IsMap(config', Property, Setting) /\ overrides' \in Flags
        /\ FileOK(file') /\ FileOK(updated')
        /\ saving' \in {"idle", "create", "write", "copy", "fill", "remove"}
        /\ asked' \in [Property -> SUBSET SUBSET Setting] /\ failed' \in BOOLEAN
  BY DEF ConfigTypeOK, FileOK
<1> QED  BY <1>2, <1>3, <1>4, <1>5, <1>6 DEF ConfigTypeOK

LEMMA RestartConfigType == ASSUME ConfigTypeOK, RestartConfig PROVE ConfigTypeOK'
<1>1. asked' \in [Property -> SUBSET SUBSET Setting]
  BY DEF RestartConfig, ConfigTypeOK
<1> QED  BY <1>1 DEF RestartConfig, ConfigTypeOK, Load

(* What a save has done so far: the file is cut short only while it is      *)
(* being filled, or has been since; it is filled with the configuration, or *)
(* cut short again; and once it is filled it holds the configuration, even  *)
(* though `set` has not returned yet.                                       *)
ConfigFilesInv ==
  /\ saving = "fill" => file = Broken
  /\ file.state = "broken" => file = Broken
  /\ saving \in {"copy", "fill"} => updated \in {Broken, Written(config)}
  /\ ~failed /\ saving \in {"idle", "remove"} => file.tree = config

(* What is in memory was asked for too.                                     *)
SaveInv ==
  /\ ConfigFilesInv
  /\ Remembered
  /\ \A p \in Property : ValueOf(config, p) \in asked[p]

LEMMA SaveInvStays ==
  ASSUME SaveInv, UNCHANGED <<config, file, updated, saving, asked, failed>>
  PROVE  SaveInv'
  BY DEF SaveInv, ConfigFilesInv, Remembered, RememberedOverRestarts

LEMMA SaveInvInit == ConfigInit => SaveInv
  BY DEF ConfigInit, SaveInv, ConfigFilesInv, Remembered, RememberedOverRestarts, Absent, Load, ValueOf,
         EmptyMap

(* The values of a map after a Put.                                         *)
LEMMA PutValues ==
  ASSUME NEW m, NEW p, NEW v, NEW q
  PROVE  ValueOf(Put(m, p, v), q) = IF q = p THEN {v} ELSE ValueOf(m, q)
  BY DEF ValueOf, Put

LEMMA SetSettingSaves ==
  ASSUME ConfigTypeOK, SaveInv, NEW p \in Property, NEW v, SetSetting(p, v)
  PROVE  SaveInv'
<1>1. \A q \in Property : asked[q] \subseteq asked'[q] /\ (q = p => {v} \in asked'[q])
  BY DEF SetSetting, ConfigTypeOK
<1>2. ConfigFilesInv'  BY DEF SaveInv, ConfigFilesInv, SetSetting
<1>3. saving # "fill" /\ saving' # "fill" /\ UNCHANGED <<file, failed>>
  BY DEF SetSetting
<1>4. Remembered'  BY <1>1, <1>3 DEF SaveInv, Remembered, RememberedOverRestarts
<1>5. ASSUME NEW q \in Property PROVE ValueOf(config', q) \in asked'[q]
  <2>1. ValueOf(config', q) = IF q = p THEN {v} ELSE ValueOf(config, q)
    BY PutValues DEF SetSetting
  <2>2. ValueOf(config, q) \in asked[q]
    BY DEF SaveInv
  <2> QED  BY <1>1, <2>1, <2>2
<1> QED  BY <1>2, <1>4, <1>5 DEF SaveInv

(* A save that is over, and what it has done to the file before.            *)
LEMMA EndSaveSaves ==
  ASSUME SaveInv, NEW ok \in BOOLEAN, EndSave(ok), UNCHANGED <<config, file>>,
         ConfigFilesInv', ok => file.tree = config, saving = "fill" => ~ok
  PROVE  SaveInv'
<1>1. CASE ok
  <2>1. asked' = [p \in Property |-> {ValueOf(config, p)}]  BY <1>1 DEF EndSave
  <2> QED  BY <1>1, <2>1 DEF SaveInv, Remembered, RememberedOverRestarts, Load
<1>2. CASE ~ok
  <2>1. UNCHANGED asked /\ failed'  BY <1>2 DEF EndSave
  <2>2. Remembered'
    <3>1. CASE file.state = "broken"  BY <2>1, <3>1 DEF Remembered
    <3>2. CASE file.state # "broken"
      <4>1. saving # "fill"  BY <3>2 DEF SaveInv, ConfigFilesInv, Broken
      <4> QED  BY <2>1, <3>2, <4>1 DEF SaveInv, Remembered, RememberedOverRestarts
    <3> QED  BY <3>1, <3>2
  <2> QED  BY <2>1, <2>2 DEF SaveInv
<1> QED  BY <1>1, <1>2

LEMMA SaveStepSaves == ASSUME ConfigTypeOK, SaveInv, SaveStep PROVE SaveInv'
<1>s. Broken.state = "broken" /\ \A m : Written(m).state = "written" /\ Written(m).tree = m
  BY DEF Broken, Written
<1>1. CASE CreateUpdated
  <2>1. ConfigFilesInv' /\ UNCHANGED <<config, file>> /\ saving = "create"
    BY <1>1 DEF CreateUpdated, EndSave, SaveInv, ConfigFilesInv
  <2>2. CASE EndSave(FALSE)  BY <2>1, <2>2, EndSaveSaves
  <2>3. CASE saving' = "write" /\ UNCHANGED <<asked, failed>>
    BY <2>1, <2>3 DEF SaveInv, Remembered, RememberedOverRestarts
  <2> QED  BY <1>1, <2>2, <2>3 DEF CreateUpdated
<1>2. CASE WriteUpdated
  <2>1. ConfigFilesInv'  BY <1>2 DEF WriteUpdated, SaveInv, ConfigFilesInv
  <2> QED  BY <1>2, <2>1 DEF WriteUpdated, SaveInv, Remembered, RememberedOverRestarts
<1>3. CASE StartCopy
  <2>1. ConfigFilesInv' /\ UNCHANGED config /\ saving = "copy"
    BY <1>3, <1>s DEF StartCopy, EndSave, SaveInv, ConfigFilesInv
  <2>2. CASE EndSave(FALSE) /\ UNCHANGED file  BY <2>1, <2>2, EndSaveSaves
  <2>3. CASE saving' = "fill" /\ UNCHANGED <<asked, failed>>
    BY <2>1, <2>3 DEF SaveInv, Remembered
  <2> QED  BY <1>3, <2>2, <2>3 DEF StartCopy
<1>4. CASE EndCopy
  <2>1. UNCHANGED <<config, updated>> /\ saving = "fill"  BY <1>4 DEF EndCopy
  <2>2. CASE EndSave(FALSE) /\ UNCHANGED file
    <3>1. ConfigFilesInv'  BY <2>1, <2>2 DEF EndSave, SaveInv, ConfigFilesInv
    <3> QED  BY <2>1, <2>2, <3>1, EndSaveSaves
  <2>3. CASE /\ file' = updated /\ saving' = "remove"
             /\ failed' = (updated # Written(config)) /\ UNCHANGED asked
    <3>1. updated \in {Broken, Written(config)}  BY <2>1 DEF SaveInv, ConfigFilesInv
    <3>2. CASE updated = Written(config)
      <4>1. file'.tree = config /\ file'.state = "written" /\ ~failed'
        BY <1>s, <2>3, <3>2
      <4> QED
        BY <2>1, <2>3, <4>1 DEF SaveInv, ConfigFilesInv, Remembered, RememberedOverRestarts, Load
    <3>3. CASE updated # Written(config)
      <4>1. file' = Broken /\ failed'  BY <2>3, <3>1, <3>3
      <4> QED  BY <1>s, <2>1, <2>3, <4>1 DEF SaveInv, ConfigFilesInv, Remembered
    <3> QED  BY <3>2, <3>3
  <2> QED  BY <1>4, <2>2, <2>3 DEF EndCopy
<1>5. CASE RemoveUpdated
  <2>1. /\ EndSave(~failed) /\ UNCHANGED <<config, file>> /\ saving = "remove"
        /\ failed \in BOOLEAN
    BY <1>5 DEF RemoveUpdated, ConfigTypeOK
  <2>2. ConfigFilesInv'  BY <2>1 DEF EndSave, SaveInv, ConfigFilesInv
  <2>3. ~failed => file.tree = config  BY <2>1 DEF SaveInv, ConfigFilesInv
  <2> QED  BY <2>1, <2>2, <2>3, EndSaveSaves
<1> QED  BY <1>1, <1>2, <1>3, <1>4, <1>5 DEF SaveStep

LEMMA RestartSaves == ASSUME SaveInv, RestartConfig PROVE SaveInv'
<1>1. ConfigFilesInv'  BY DEF RestartConfig, SaveInv, ConfigFilesInv, Load
<1>2. \A p \in Property : ValueOf(config', p) \in asked'[p]
  <2>1. CASE file.state = "broken"
    <3>1. config' = EmptyMap
      BY <2>1 DEF RestartConfig, SaveInv, ConfigFilesInv, Load, Broken
    <3>2. \A p \in Property : ValueOf(config', p) = {}
      BY <3>1 DEF ValueOf, EmptyMap
    <3> QED  BY <2>1, <3>2 DEF RestartConfig
  <2>2. CASE file.state # "broken"
    <3>1. saving # "fill"  BY <2>2 DEF SaveInv, ConfigFilesInv, Broken
    <3>2. RememberedOverRestarts  BY <2>2, <3>1 DEF SaveInv, Remembered
    <3> QED  BY <2>2, <3>2 DEF RestartConfig, RememberedOverRestarts
  <2> QED  BY <2>1, <2>2
<1>3. Remembered'
  BY <1>2 DEF RestartConfig, Remembered, RememberedOverRestarts, Load
<1> QED  BY <1>1, <1>2, <1>3 DEF SaveInv

-----------------------------------------------------------------------------
(* Type correctness of the adapter.                                        *)

Message ==
  {TriggerDiscovery} \cup {AddHub(h, a) : h \in Hub, a \in Address}
    \cup {AddLight(h, l) : h \in Hub, l \in Light}

LEMMA MessageFacts ==
  /\ TriggerDiscovery \in Message
  /\ \A h \in Hub, a \in Address : AddHub(h, a) \in Message
  /\ \A h \in Hub, l \in Light : AddLight(h, l) \in Message
  /\ \A m \in Message :
       /\ m.kind = "AddHub" => m.hub \in Hub /\ m.ip \in Address
       /\ m.kind = "AddLight" => m.hub \in Hub /\ m.light \in Light
<1>1. \A h \in Hub, a \in Address : AddHub(h, a) \in Message
  BY DEF Message
<1>2. \A h \in Hub, l \in Light : AddLight(h, l) \in Message
  BY DEF Message
<1>3. ASSUME NEW m \in Message
      PROVE  /\ m.kind = "AddHub" => m.hub \in Hub /\ m.ip \in Address
             /\ m.kind = "AddLight" => m.hub \in Hub /\ m.light \in Light
  BY <1>3 DEF Message, TriggerDiscovery, AddHub, AddLight
<1> QED  BY <1>1, <1>2, <1>3 DEF Message

MainData ==
  {Receiving, [pc |-> "dead"]} \cup [pc : {"get", "set", "saving"}, hub : Hub, ip : Address]
HubData == [ip : Address, api_ip : Address, token : Setting]
ThreadData ==
  [pc : {"off", "available", "paired", "recheck", "settings", "lights", "monitoring", "dead"}]
    \cup [pc : {"pairing"}, tries : 0 .. MaxTries]
    \cup [pc : {"save", "saving"}, token : Token]
    \cup [pc : {"report"}, todo : SUBSET Light]

(* HueTypeOK without the configuration and the lights.                      *)
AdapterTypeOK ==
  /\ queue \in Seq(Message)
  /\ main \in MainData
  /\ nupnp \in {"off", "get", "set", "saving", "query"}
  /\ DOMAIN hubs \subseteq Hub /\ hubs \in [DOMAIN hubs -> HubData]
  /\ thread \in [Hub -> ThreadData]
  /\ poisoned \subseteq Hub
  /\ saver \in {"nobody", "main", "nupnp"} \cup Hub
  /\ address \in [Hub -> Address]
  /\ accepted \in [Hub -> SUBSET Token]

LightsTypeOK == services \subseteq lights /\ lights \subseteq Hub \X Light

LEMMA HueTypeParts ==
  /\ HueTypeOK <=> ConfigTypeOK /\ AdapterTypeOK /\ LightsTypeOK
  /\ HueTypeOK' <=> ConfigTypeOK' /\ AdapterTypeOK' /\ LightsTypeOK'
  BY DEF HueTypeOK, AdapterTypeOK, LightsTypeOK, MainData, HubData, ThreadData, Message, IsMap

LEMMA HeadType ==
  ASSUME AdapterTypeOK, NEW kind, Receive(kind)
  PROVE  Head(queue) \in Message /\ queue' \in Seq(Message) /\ Head(queue).kind = kind
  BY DEF AdapterTypeOK, Receive

(* Where a setting that is read comes from.                                 *)
LEMMA SettingRead ==
  ASSUME NEW p, NEW v \in GetSetting(p)
  PROVE  \/ p \in DOMAIN overrides /\ overrides[p] = v
         \/ p \in DOMAIN config /\ config[p] = v
  BY DEF GetSetting, ValueOf

LEMMA SettingType ==
  ASSUME ConfigTypeOK, NEW p, NEW v \in GetSetting(p)
  PROVE  v \in Setting
  BY SettingRead, ConfigAssumption DEF ConfigTypeOK, IsMap

LEMMA StartHubType ==
  ASSUME AdapterTypeOK, NEW token \in Setting, StartHub(token), UNCHANGED saver,
         main.pc \in {"get", "set", "saving"}
  PROVE  AdapterTypeOK'
<1>1. main.hub \in Hub /\ main.ip \in Address
  BY DEF AdapterTypeOK, MainData, Receiving
<1>2. [ip |-> main.ip, api_ip |-> main.ip, token |-> token] \in HubData
  BY <1>1 DEF HubData
<1>3. DOMAIN hubs' \subseteq Hub /\ hubs' \in [DOMAIN hubs' -> HubData]
  BY <1>1, <1>2 DEF StartHub, AdapterTypeOK, Put
<1>4. thread' \in [Hub -> ThreadData]
  BY DEF StartHub, AdapterTypeOK, ThreadData
<1> QED  BY <1>3, <1>4 DEF StartHub, AdapterTypeOK, MainData, bridges

LEMMA MainLoopType == ASSUME HueTypeOK, MainLoop PROVE HueTypeOK'
<1>t. ConfigTypeOK /\ AdapterTypeOK /\ LightsTypeOK  BY HueTypeParts
<1>c. UNCHANGED configVars => ConfigTypeOK'
  BY <1>t DEF configVars, ConfigTypeOK
<1>s. Unauthorized \in Setting /\ Hub \subseteq Property  BY HueAssumption
<1>1. CASE ReceiveTriggerDiscovery
  <2>1. queue' \in Seq(Message)
    BY <1>1, <1>t DEF ReceiveTriggerDiscovery, Receive, AdapterTypeOK
  <2>2. AdapterTypeOK' /\ LightsTypeOK'
    BY <1>1, <1>t, <2>1 DEF ReceiveTriggerDiscovery, AdapterTypeOK, LightsTypeOK, bridges, MainData
  <2> QED  BY <1>1, <1>c, <2>2, HueTypeParts DEF ReceiveTriggerDiscovery
<1>2. CASE ReceiveAddHub
  <2>1. Head(queue).hub \in Hub /\ Head(queue).ip \in Address /\ queue' \in Seq(Message)
    <3>1. Receive("AddHub")  BY <1>2 DEF ReceiveAddHub
    <3>2. Head(queue) \in Message /\ queue' \in Seq(Message) /\ Head(queue).kind = "AddHub"
      BY <1>t, <3>1, HeadType
    <3> DEFINE m == Head(queue)
    <3>3. m \in Message /\ m.kind = "AddHub" /\ queue' \in Seq(Message)  BY <3>2
    <3> HIDE DEF m
    <3>4. m.hub \in Hub /\ m.ip \in Address  BY <3>3, MessageFacts
    <3> QED  BY <3>3, <3>4 DEF m
  <2>2. hubs' \in [DOMAIN hubs' -> HubData] /\ DOMAIN hubs' = DOMAIN hubs
    <3> DEFINE h == Head(queue).hub
               ip == Head(queue).ip
    <3>1. UNCHANGED hubs \/ hubs' = [hubs EXCEPT ![h].ip = ip]
      BY <1>2 DEF ReceiveAddHub
    <3>2. ip \in Address  BY <2>1
    <3>3. hubs \in [DOMAIN hubs -> HubData]  BY <1>t DEF AdapterTypeOK
    <3> HIDE DEF h, ip
    <3> QED  BY <3>1, <3>2, <3>3 DEF HubData
  <2>3. main' \in MainData
    BY <1>2, <1>t, <2>1 DEF ReceiveAddHub, AdapterTypeOK, MainData
  <2>4. AdapterTypeOK'
    BY <1>2, <1>t, <2>1, <2>2, <2>3 DEF ReceiveAddHub, AdapterTypeOK, bridges
  <2> QED  BY <1>2, <1>t, <1>c, <2>4, HueTypeParts DEF ReceiveAddHub, LightsTypeOK
<1>3. CASE ReceiveAddLight
  <2>1. Head(queue).hub \in Hub /\ Head(queue).light \in Light /\ queue' \in Seq(Message)
    BY <1>3, <1>t, HeadType, MessageFacts DEF ReceiveAddLight
  <2>2. main' \in MainData
    BY <1>3, <1>t DEF ReceiveAddLight, AdapterTypeOK, MainData
  <2>3. poisoned' \subseteq Hub
    BY <1>3, <1>t, <2>1 DEF ReceiveAddLight, AdapterTypeOK
  <2>4. LightsTypeOK'
    BY <1>3, <1>t, <2>1 DEF ReceiveAddLight, LightsTypeOK
  <2>5. AdapterTypeOK'
    BY <1>3, <1>t, <2>1, <2>2, <2>3 DEF ReceiveAddLight, AdapterTypeOK, bridges
  <2> QED  BY <1>3, <1>c, <2>4, <2>5, HueTypeParts DEF ReceiveAddLight
<1>4. CASE GetToken
  <2>1. ConfigTypeOK' /\ UNCHANGED saver
    BY <1>4, <1>c DEF GetToken
  <2>2. LightsTypeOK'
    BY <1>4, <1>t DEF GetToken, StartHub, LightsTypeOK
  <2>3. ASSUME NEW token \in GetSetting(main.hub), StartHub(token) PROVE AdapterTypeOK'
    BY <1>4, <1>t, <2>1, <2>3, SettingType, StartHubType DEF GetToken
  <2>4. ASSUME main' = [main EXCEPT !.pc = "set"],
               UNCHANGED <<queue, nupnp, hubs, thread, poisoned, lights, services, bridges>>
        PROVE  AdapterTypeOK'
    BY <1>4, <1>t, <2>1, <2>4 DEF GetToken, AdapterTypeOK, MainData, Receiving, bridges
  <2> QED  BY <1>4, <2>1, <2>2, <2>3, <2>4, HueTypeParts DEF GetToken
<1>5. CASE SetDefaultToken
  <2>1. main.hub \in Hub /\ main' \in MainData
    BY <1>5, <1>t DEF SetDefaultToken, AdapterTypeOK, MainData, Receiving
  <2>2. ConfigTypeOK'
    BY <1>5, <1>t, <1>s, <2>1, SetSettingType DEF SetDefaultToken
  <2>3. AdapterTypeOK' /\ LightsTypeOK'
    BY <1>5, <1>t, <2>1 DEF SetDefaultToken, AdapterTypeOK, LightsTypeOK, bridges
  <2> QED  BY <2>2, <2>3, HueTypeParts
<1>6. CASE DefaultTokenSaved
  <2>1. AdapterTypeOK'
    BY <1>6, <1>t, <1>s, StartHubType DEF DefaultTokenSaved
  <2>2. LightsTypeOK'
    BY <1>6, <1>t DEF DefaultTokenSaved, StartHub, LightsTypeOK
  <2> QED  BY <1>6, <1>c, <2>1, <2>2, HueTypeParts DEF DefaultTokenSaved
<1> QED  BY <1>1, <1>2, <1>3, <1>4, <1>5, <1>6 DEF MainLoop

LEMMA DiscoveryType == ASSUME HueTypeOK, Discovery PROVE HueTypeOK'
<1>t. ConfigTypeOK /\ AdapterTypeOK /\ LightsTypeOK  BY HueTypeParts
<1>c. UNCHANGED configVars => ConfigTypeOK'
  BY <1>t DEF configVars, ConfigTypeOK
<1>a. ASSUME NEW h \in Hub, NEW a \in Address, Announce(h, a) PROVE queue' \in Seq(Message)
  <2>1. AddHub(h, a) \in Message  BY MessageFacts
  <2> QED  BY <1>a, <1>t, <2>1 DEF Announce, AdapterTypeOK
<1>1. ASSUME NEW h \in Hub, HubAdvertises(h) PROVE HueTypeOK'
  <2>1. queue' \in Seq(Message)
    BY <1>1, <1>t, <1>a DEF HubAdvertises, AdapterTypeOK
  <2>2. AdapterTypeOK' /\ LightsTypeOK'
    BY <1>1, <1>t, <2>1 DEF HubAdvertises, AdapterTypeOK, LightsTypeOK, bridges
  <2> QED  BY <1>1, <1>c, <2>2, HueTypeParts DEF HubAdvertises
<1>2. CASE GetNupnpEnabled
  BY <1>2, <1>t, <1>c, HueTypeParts DEF GetNupnpEnabled, AdapterTypeOK, LightsTypeOK, bridges
<1>3. CASE SetNupnpEnabled
  <2>1. ConfigTypeOK'
    BY <1>3, <1>t, HueAssumption, SetSettingType DEF SetNupnpEnabled
  <2>2. AdapterTypeOK' /\ LightsTypeOK'
    BY <1>3, <1>t DEF SetNupnpEnabled, AdapterTypeOK, LightsTypeOK, bridges
  <2> QED  BY <2>1, <2>2, HueTypeParts
<1>4. CASE NupnpEnabledSaved
  BY <1>4, <1>t, <1>c, HueTypeParts DEF NupnpEnabledSaved, AdapterTypeOK, LightsTypeOK, bridges
<1>5. CASE NupnpAnswers
  <2>1. queue' \in Seq(Message)
    BY <1>5, <1>t, <1>a DEF NupnpAnswers, AdapterTypeOK
  <2>2. AdapterTypeOK' /\ LightsTypeOK'
    BY <1>5, <1>t, <2>1 DEF NupnpAnswers, AdapterTypeOK, LightsTypeOK, bridges
  <2> QED  BY <1>5, <1>c, <2>2, HueTypeParts DEF NupnpAnswers
<1> QED  BY <1>1, <1>2, <1>3, <1>4, <1>5 DEF Discovery

LEMMA HubThreadType == ASSUME HueTypeOK, NEW h \in Hub, HubThread(h) PROVE HueTypeOK'
<1>t. ConfigTypeOK /\ AdapterTypeOK /\ LightsTypeOK  BY HueTypeParts
<1>c. UNCHANGED configVars => ConfigTypeOK'
  BY <1>t DEF configVars, ConfigTypeOK
<1>g. ASSUME NEW from, NEW to \in ThreadData, ThreadGoes(h, from, to)
      PROVE  /\ thread' \in [Hub -> ThreadData]
             /\ UNCHANGED <<main, nupnp, lights, services>> /\ LightsTypeOK'
  BY <1>g, <1>t DEF ThreadGoes, AdapterTypeOK, LightsTypeOK
<1>p. /\ \A pc \in {"paired", "available", "settings", "recheck", "lights", "dead", "monitoring"} :
           At(pc) \in ThreadData
      /\ \A n \in 0 .. MaxTries : [pc |-> "pairing", tries |-> n] \in ThreadData
      /\ 0 \in 0 .. MaxTries
      /\ \A token \in Token : [pc |-> "save", token |-> token] \in ThreadData
      /\ [pc |-> "report", todo |-> Light] \in ThreadData
  BY HueAssumption DEF At, ThreadData
<1>q. thread[h] \in ThreadData
  BY <1>t DEF AdapterTypeOK
<1> DEFINE Moves == thread' \in [Hub -> ThreadData] /\ UNCHANGED <<main, nupnp, lights, services>>
                      /\ LightsTypeOK'
<1>1. ASSUME IsAvailable(h) \/ IsPaired(h) \/ IsNotPaired(h) \/ PairingOver(h) \/ Recheck(h)
               \/ GetSettings(h)
      PROVE  HueTypeOK'
  <2>1. Moves
    BY <1>1, <1>g, <1>p DEF IsAvailable, IsPaired, IsNotPaired, PairingOver, Recheck, GetSettings
  <2>2. UNCHANGED <<configVars, queue, hubs, poisoned, saver, bridges>>
    BY <1>1 DEF IsAvailable, IsPaired, IsNotPaired, PairingOver, Recheck, GetSettings
  <2> QED  BY <1>t, <1>c, <2>1, <2>2, HueTypeParts DEF AdapterTypeOK, bridges
<1>2. CASE PairingSucceeds(h)
  <2>1. PICK token \in Token \ accepted[h] :
          /\ ThreadGoes(h, "pairing", [pc |-> "save", token |-> token])
          /\ accepted' = [accepted EXCEPT ![h] = @ \cup {token}]
    BY <1>2 DEF PairingSucceeds
  <2>2. Moves
    BY <1>g, <1>p, <2>1
  <2>3. accepted' \in [Hub -> SUBSET Token]
    BY <1>t, <2>1 DEF AdapterTypeOK
  <2>4. UNCHANGED <<configVars, queue, hubs, poisoned, saver, address>>
    BY <1>2 DEF PairingSucceeds
  <2> QED  BY <1>t, <1>c, <2>2, <2>3, <2>4, HueTypeParts DEF AdapterTypeOK
<1>3. CASE PairingFails(h)
  <2>1. thread[h].tries + 1 \in 0 .. MaxTries
    BY <1>3, <1>q, HueAssumption DEF PairingFails, ThreadData
  <2>2. Moves
    BY <1>3, <1>g, <1>p, <2>1 DEF PairingFails
  <2>3. accepted' \in [Hub -> SUBSET Token]
    BY <1>3, <1>t DEF PairingFails, AdapterTypeOK
  <2>4. UNCHANGED <<configVars, queue, hubs, poisoned, saver, address>>
    BY <1>3 DEF PairingFails
  <2> QED  BY <1>t, <1>c, <2>2, <2>3, <2>4, HueTypeParts DEF AdapterTypeOK
<1>4. CASE SaveToken(h)
  <2>1. thread[h].token \in Token /\ [thread[h] EXCEPT !.pc = "saving"] \in ThreadData
    BY <1>4, <1>q DEF SaveToken, ThreadData
  <2>2. Moves
    BY <1>4, <1>g, <2>1 DEF SaveToken
  <2>3. ConfigTypeOK'
    BY <1>4, <1>t, <2>1, HueAssumption, SetSettingType DEF SaveToken
  <2>4. UNCHANGED <<queue, hubs, poisoned, bridges>> /\ saver' \in Hub
    BY <1>4 DEF SaveToken
  <2> QED  BY <1>t, <2>2, <2>3, <2>4, HueTypeParts DEF AdapterTypeOK, bridges
<1>5. CASE UpdateToken(h)
  <2>1. thread[h].token \in Setting
    BY <1>5, <1>q, HueAssumption DEF UpdateToken, ThreadData
  <2>2. Moves
    BY <1>5, <1>g, <1>p DEF UpdateToken
  <2>3. DOMAIN hubs' \subseteq Hub /\ hubs' \in [DOMAIN hubs' -> HubData]
    BY <1>5, <1>t, <2>1 DEF UpdateToken, AdapterTypeOK, HubData
  <2>4. UNCHANGED <<configVars, queue, poisoned, saver, bridges>>
    BY <1>5 DEF UpdateToken
  <2> QED  BY <1>t, <1>c, <2>2, <2>3, <2>4, HueTypeParts DEF AdapterTypeOK, bridges
<1>6. CASE GetLights(h)
  <2>1. Moves
    BY <1>6, <1>g, <1>p DEF GetLights
  <2>2. /\ UNCHANGED <<configVars, queue, hubs, saver, bridges>>
        /\ poisoned' \in {poisoned, poisoned \cup {h}}
    BY <1>6 DEF GetLights
  <2> QED  BY <1>t, <1>c, <2>1, <2>2, HueTypeParts DEF AdapterTypeOK, bridges
<1>7. CASE ReportLight(h)
  <2>1. PICK l \in thread[h].todo :
          /\ queue' = Append(queue, AddLight(h, l))
          /\ ThreadGoes(h, "report", IF thread[h].todo = {l} THEN At("monitoring")
                                     ELSE [thread[h] EXCEPT !.todo = @ \ {l}])
    BY <1>7 DEF ReportLight
  <2>2. thread[h].todo \subseteq Light /\ [thread[h] EXCEPT !.todo = @ \ {l}] \in ThreadData
    BY <1>7, <1>q DEF ReportLight, ThreadData
  <2>3. Moves
    BY <1>g, <1>p, <2>1, <2>2
  <2>4. queue' \in Seq(Message)
    <3>1. AddLight(h, l) \in Message  BY <2>1, <2>2, MessageFacts
    <3> QED  BY <1>t, <2>1, <3>1 DEF AdapterTypeOK
  <2>5. UNCHANGED <<configVars, hubs, poisoned, saver, bridges>>
    BY <1>7 DEF ReportLight
  <2> QED  BY <1>t, <1>c, <2>3, <2>4, <2>5, HueTypeParts DEF AdapterTypeOK, bridges
<1> QED  BY <1>1, <1>2, <1>3, <1>4, <1>5, <1>6, <1>7 DEF HubThread

LEMMA HueTypeNext == HueTypeOK /\ [HueNext]_allHueVars => HueTypeOK'
<1> SUFFICES ASSUME HueTypeOK, [HueNext]_allHueVars PROVE HueTypeOK'  OBVIOUS
<1>t. ConfigTypeOK /\ AdapterTypeOK /\ LightsTypeOK  BY HueTypeParts
<1>c. UNCHANGED configVars => ConfigTypeOK'
  BY <1>t DEF configVars, ConfigTypeOK
<1>h. UNCHANGED hueVars => AdapterTypeOK' /\ LightsTypeOK'
  BY <1>t DEF hueVars, AdapterTypeOK, LightsTypeOK
<1>1. ASSUME NEW h \in Hub, FetchFails(h) PROVE HueTypeOK'
  BY <1>1, <1>t, <1>c, HueTypeParts DEF FetchFails, AdapterTypeOK, LightsTypeOK, bridges
<1>2. ASSUME NEW h \in Hub, HubMoves(h) PROVE HueTypeOK'
  BY <1>2, <1>t, <1>c, HueTypeParts DEF HubMoves, AdapterTypeOK, LightsTypeOK
<1>3. CASE SaveGoesOn
  BY <1>3, <1>t, <1>h, SaveStepType, HueTypeParts DEF SaveGoesOn
<1>4. CASE HueRestarts
  <2>1. ConfigTypeOK'
    BY <1>4, <1>t, RestartConfigType DEF HueRestarts
  <2>2. queue' \in Seq(Message)
    BY <1>4, MessageFacts DEF HueRestarts
  <2>3. /\ main' \in MainData /\ thread' \in [Hub -> ThreadData]
        /\ DOMAIN hubs' \subseteq Hub /\ hubs' \in [DOMAIN hubs' -> HubData]
    BY <1>4 DEF HueRestarts, MainData, ThreadData, Asleep, EmptyMap
  <2>4. AdapterTypeOK' /\ LightsTypeOK'
    BY <1>4, <1>t, <2>2, <2>3 DEF HueRestarts, AdapterTypeOK, LightsTypeOK, bridges
  <2> QED  BY <2>1, <2>4, HueTypeParts
<1>5. CASE UNCHANGED allHueVars
  BY <1>5, <1>c, <1>h, HueTypeParts DEF allHueVars
<1> QED
  BY <1>1, <1>2, <1>3, <1>4, <1>5, MainLoopType, DiscoveryType, HubThreadType DEF HueNext

LEMMA HueTypeInit == HueInit => HueTypeOK
<1> SUFFICES ASSUME HueInit PROVE HueTypeOK  OBVIOUS
<1>1. ConfigTypeOK  BY ConfigTypeInit DEF HueInit
<1>2. queue \in Seq(Message)  BY MessageFacts DEF HueInit
<1>3. /\ main \in MainData /\ thread \in [Hub -> ThreadData]
      /\ DOMAIN hubs \subseteq Hub /\ hubs \in [DOMAIN hubs -> HubData]
  BY DEF HueInit, MainData, ThreadData, Asleep, EmptyMap
<1> QED  BY <1>1, <1>2, <1>3, HueTypeParts DEF HueInit, AdapterTypeOK, LightsTypeOK

(* Every reachable state of the adapter and of the configuration is         *)
(* well-typed.                                                              *)
THEOREM HueTypeCorrect == HueSpec => []HueTypeOK
  BY HueTypeInit, HueTypeNext, PTL DEF HueSpec

-----------------------------------------------------------------------------
(* What links the threads, the tokens and the configuration.               *)

Held(h) ==
  \/ h \in DOMAIN overrides /\ overrides[h] = hubs[h].token
  \/ h \in DOMAIN config /\ config[h] = hubs[h].token

Reported(h) == thread[h].pc \in {"report", "monitoring"}

(* p is the property whose `set` is going on.                               *)
BeingSet(p) ==
  \/ saver = "main" /\ main.pc = "saving" /\ p = main.hub
  \/ saver = "nupnp" /\ p = Nupnp
  \/ p \in Hub /\ saver = p /\ thread[p].pc = "saving"

(* The hub that the main loop is adding is new; a thread runs for each      *)
(* known hub.                                                               *)
HubsInv ==
  /\ \A h \in Hub : thread[h].pc = "off" <=> h \notin DOMAIN hubs
  /\ main.pc \in {"get", "set", "saving"} => main.hub \notin DOMAIN hubs

(* The token of a hub is the one in the configuration, except while its     *)
(* thread is storing a new one; so is that of the hub being added.          *)
TokensInv ==
  /\ main.pc = "saving" => main.hub \in DOMAIN config /\ config[main.hub] = Unauthorized
  /\ \A h \in DOMAIN hubs :
       /\ thread[h].pc # "saving" => Held(h)
       /\ thread[h].pc = "saving" => h \in DOMAIN config /\ config[h] = thread[h].token

(* Lights come from hubs whose threads have stored their token for good.    *)
LightsInv ==
  /\ \A i \in DOMAIN queue : queue[i].kind = "AddLight" => Reported(queue[i].hub)
  /\ \A light \in services : Reported(light[1]) /\ Authorized(light[1])

(* At most one property differs from what is in the file.                   *)
OthersInFile(p) ==
  ~failed /\ saving \in {"create", "write", "copy"} =>
    \A q \in DOMAIN config \ {p} : q \in DOMAIN file.tree /\ file.tree[q] = config[q]

OneSetting ==
  saving # "idle" => \E p \in Property : BeingSet(p) /\ OthersInFile(p)

HueInv == SaveInv /\ HubsInv /\ TokensInv /\ LightsInv /\ OneSetting

LEMMA HueInvImplies == HueTypeOK /\ HueInv => Remembered /\ LightsOfPairedHubs
<1> SUFFICES ASSUME HueTypeOK, HueInv PROVE Remembered /\ LightsOfPairedHubs  OBVIOUS
<1>t. ConfigTypeOK /\ AdapterTypeOK /\ LightsTypeOK  BY HueTypeParts
<1>1. Remembered  BY DEF HueInv, SaveInv
<1>2. ASSUME NEW h \in Hub, Reported(h) PROVE h \in DOMAIN hubs /\ Held(h)
  BY <1>2 DEF HueInv, HubsInv, TokensInv, Reported
<1>3. LightsOfKnownHubs
  <2> SUFFICES ASSUME NEW i \in DOMAIN queue, queue[i].kind = "AddLight"
               PROVE  queue[i].hub \in DOMAIN hubs
    BY DEF LightsOfKnownHubs
  <2>1. queue[i] \in Message  BY <1>t DEF AdapterTypeOK
  <2>2. queue[i].hub \in Hub  BY <2>1, MessageFacts
  <2>3. Reported(queue[i].hub)  BY DEF HueInv, LightsInv
  <2> QED  BY <1>2, <2>2, <2>3
<1>4. ASSUME NEW light \in services, NEW h, h = light[1]
      PROVE  /\ h \in DOMAIN hubs
             /\ Authorized(h)
             /\ \/ h \in DOMAIN overrides /\ overrides[h] = hubs[h].token
                \/ /\ h \in DOMAIN config /\ config[h] = hubs[h].token
                   /\ ~failed /\ saving # "fill" => h \in DOMAIN file.tree /\ file.tree[h] = config[h]
  <2>1. h \in Hub /\ Reported(h) /\ Authorized(h)
    BY <1>4, <1>t DEF LightsTypeOK, HueInv, LightsInv
  <2>2. h \in DOMAIN hubs /\ Held(h)  BY <1>2, <2>1
  <2>3. ASSUME h \in DOMAIN config, ~failed, saving # "fill"
        PROVE  h \in DOMAIN file.tree /\ file.tree[h] = config[h]
    <3>1. CASE saving \in {"idle", "remove"}
      BY <2>3, <3>1 DEF HueInv, SaveInv, ConfigFilesInv
    <3>2. CASE saving \in {"create", "write", "copy"}
      <4>1. PICK p \in Property : BeingSet(p) /\ OthersInFile(p)
        BY <3>2 DEF HueInv, OneSetting
      <4>2. p # h
        BY <2>1, <2>2, <4>1, HueAssumption DEF BeingSet, Reported, HueInv, HubsInv
      <4> QED  BY <2>3, <3>2, <4>1, <4>2 DEF OthersInFile
    <3> QED  BY <1>t, <2>3, <3>1, <3>2 DEF ConfigTypeOK
  <2> QED  BY <2>1, <2>2, <2>3 DEF Held
<1> QED  BY <1>1, <1>3, <1>4 DEF LightsOfPairedHubs

LEMMA HueInvInit == HueInit => HueInv
  BY SaveInvInit DEF HueInit, ConfigInit, HueInv, HubsInv, TokensInv, LightsInv, OneSetting,
     EmptyMap, Asleep, Receiving, TriggerDiscovery

(* The main loop keeps HueInv.  What `queue` becomes there is its tail, so  *)
(* that no light is announced anew.                                         *)
Announced(q, h) == \E i \in DOMAIN q : q[i].kind = "AddLight" /\ q[i].hub = h

LEMMA TailAnnounces ==
  ASSUME AdapterTypeOK, queue # <<>>, NEW h, Announced(Tail(queue), h)
  PROVE  Announced(queue, h)
<1>1. PICK i \in DOMAIN Tail(queue) : Tail(queue)[i].kind = "AddLight" /\ Tail(queue)[i].hub = h
  BY DEF Announced
<1>2. i + 1 \in DOMAIN queue /\ Tail(queue)[i] = queue[i + 1]
  BY <1>1 DEF AdapterTypeOK
<1> QED  BY <1>1, <1>2 DEF Announced

LEMMA AppendAnnounces ==
  ASSUME AdapterTypeOK, NEW m, NEW h, Announced(Append(queue, m), h)
  PROVE  Announced(queue, h) \/ (m.kind = "AddLight" /\ m.hub = h)
<1>1. PICK i \in DOMAIN Append(queue, m) :
        Append(queue, m)[i].kind = "AddLight" /\ Append(queue, m)[i].hub = h
  BY DEF Announced
<1>2. CASE i \in DOMAIN queue
  <2>1. Append(queue, m)[i] = queue[i]
    BY <1>2 DEF AdapterTypeOK
  <2> QED  BY <1>1, <1>2, <2>1 DEF Announced
<1>3. CASE i \notin DOMAIN queue
  <2>1. i = Len(queue) + 1 /\ Append(queue, m)[i] = m
    BY <1>1, <1>3 DEF AdapterTypeOK
  <2> QED  BY <1>1, <2>1
<1> QED  BY <1>2, <1>3

LEMMA LightsByHub ==
  ASSUME \A h : Announced(queue', h) => Reported(h)',
         \A light \in services' : Reported(light[1])' /\ Authorized(light[1])'
  PROVE  LightsInv'
  BY DEF LightsInv, Announced, Reported

LEMMA AnnouncedReported ==
  ASSUME AdapterTypeOK, LightsInv, NEW h, Announced(queue, h)
  PROVE  Reported(h) /\ h \in Hub
<1>1. PICK i \in DOMAIN queue : queue[i].kind = "AddLight" /\ queue[i].hub = h
  BY DEF Announced
<1>2. queue[i] \in Message  BY <1>1 DEF AdapterTypeOK
<1> QED  BY <1>1, <1>2, MessageFacts DEF LightsInv

(* A setting of p leaves the others alone.                                  *)
LEMMA SetSettingEffect ==
  ASSUME NEW p, NEW v, SetSetting(p, v)
  PROVE  /\ DOMAIN config' = DOMAIN config \cup {p} /\ config'[p] = v
         /\ \A q \in DOMAIN config : q # p => config'[q] = config[q]
         /\ saving = "idle" /\ UNCHANGED <<overrides, file, failed>>
  BY DEF SetSetting, Put

LEMMA SetSettingAlone ==
  ASSUME SaveInv, NEW p \in Property, NEW v, SetSetting(p, v), BeingSet(p)'
  PROVE  OneSetting'
<1>1. ~failed => file.tree = config
  BY DEF SetSetting, SaveInv, ConfigFilesInv
<1>2. /\ DOMAIN config' = DOMAIN config \cup {p} /\ UNCHANGED <<file, failed>>
      /\ \A q \in DOMAIN config : q # p => config'[q] = config[q]
  BY SetSettingEffect
<1>3. OthersInFile(p)'
  <2> SUFFICES ASSUME ~failed, NEW q \in DOMAIN config' \ {p}
               PROVE  q \in DOMAIN file.tree /\ file.tree[q] = config'[q]
    BY <1>2 DEF OthersInFile
  <2> QED  BY <1>1, <1>2
<1> QED  BY <1>3 DEF OneSetting

(* Nothing is being set when nobody waits for a save any more.              *)
LEMMA StartHubInv ==
  ASSUME HueTypeOK, HueInv, NEW token, StartHub(token), UNCHANGED <<configVars, saver>>,
         main.pc \in {"get", "set", "saving"}, ~Saving("main"),
         \/ main.hub \in DOMAIN overrides /\ overrides[main.hub] = token
         \/ main.hub \in DOMAIN config /\ config[main.hub] = token
  PROVE  HueInv'
<1>t. AdapterTypeOK /\ main.hub \in Hub /\ main.hub \notin DOMAIN hubs
  BY HueTypeParts DEF AdapterTypeOK, MainData, Receiving, HueInv, HubsInv
<1>u. thread \in [Hub -> ThreadData] /\ thread[main.hub].pc = "off"
  BY <1>t DEF AdapterTypeOK, HueInv, HubsInv
<1> DEFINE n == main.hub
<1>1. /\ DOMAIN hubs' = DOMAIN hubs \cup {n} /\ hubs'[n].token = token
      /\ \A h \in DOMAIN hubs : hubs'[h] = hubs[h]
      /\ thread'[n] = [pc |-> "available"]
      /\ \A h \in Hub : h # n => thread'[h] = thread[h]
      /\ main' = Receiving
      /\ UNCHANGED <<queue, services, nupnp, accepted>>
  BY <1>t, <1>u DEF StartHub, Put, bridges
<1>2. UNCHANGED <<config, overrides, file, updated, saving, asked, failed, saver>>
  BY DEF configVars
<1>3. SaveInv'  BY <1>2, SaveInvStays DEF HueInv
<1>4. HubsInv'  BY <1>1, <1>t DEF HueInv, HubsInv, Receiving
<1>5. TokensInv'
  <2>1. ASSUME NEW h, h = n PROVE Held(h)'
    BY <1>1, <1>2, <2>1 DEF Held
  <2>2. ASSUME NEW h \in DOMAIN hubs, h # n
        PROVE  /\ thread'[h].pc # "saving" => Held(h)'
               /\ thread'[h].pc = "saving" => h \in DOMAIN config' /\ config'[h] = thread'[h].token
    <3>1. thread'[h] = thread[h] /\ hubs'[h] = hubs[h]
      BY <1>1, <2>2, <1>t DEF AdapterTypeOK
    <3> QED  BY <1>2, <3>1 DEF Held, HueInv, TokensInv
  <2>3. ASSUME NEW h, h = n PROVE thread'[h].pc # "saving"
    BY <1>1, <2>3
  <2>4. main'.pc # "saving"
    BY <1>1 DEF Receiving
  <2> HIDE DEF n
  <2> QED  BY <1>1, <2>1, <2>2, <2>3, <2>4 DEF TokensInv
<1>6. LightsInv'
  <2>1. ASSUME NEW h, Announced(queue', h) PROVE Reported(h)'
    <3>1. Reported(h) /\ h \in Hub  BY <1>1, <1>t, <2>1, AnnouncedReported DEF HueInv
    <3>2. h # n  BY <3>1, <1>u DEF Reported
    <3> QED  BY <1>1, <3>1, <3>2 DEF Reported
  <2>2. ASSUME NEW light \in services' PROVE Reported(light[1])' /\ Authorized(light[1])'
    <3>1. Reported(light[1]) /\ light[1] \in Hub /\ Authorized(light[1])
      BY <1>1, <2>2, HueTypeParts DEF LightsTypeOK, HueInv, LightsInv
    <3>2. light[1] # n  BY <3>1, <1>u DEF Reported
    <3>3. light[1] \in DOMAIN hubs  BY <3>1 DEF HueInv, HubsInv, Reported
    <3> QED  BY <1>1, <3>1, <3>2, <3>3 DEF Reported, Authorized
  <2> QED  BY <2>1, <2>2, LightsByHub
<1>7. OneSetting'
  <2> SUFFICES ASSUME saving # "idle" PROVE OneSetting'
    BY <1>2 DEF OneSetting
  <2>1. PICK p \in Property : BeingSet(p) /\ OthersInFile(p)
    BY DEF HueInv, OneSetting
  <2>2. BeingSet(p)'
    BY <1>1, <1>2, <1>u, <2>1 DEF BeingSet, Saving
  <2> QED  BY <1>2, <2>1, <2>2 DEF OneSetting, OthersInFile
<1> QED  BY <1>3, <1>4, <1>5, <1>6, <1>7 DEF HueInv

(* A step that moves neither the hubs, nor the threads, nor the             *)
(* configuration.                                                           *)
LEMMA QuietInv ==
  ASSUME HueTypeOK, HueInv,
         UNCHANGED <<configVars, hubs, thread, saver>>,
         \/ UNCHANGED main
         \/ main'.pc = "dead" /\ main.pc = "recv"
         \/ main'.pc = "get" /\ main.pc = "recv" /\ main'.hub \notin DOMAIN hubs
         \/ main'.pc = "set" /\ main.pc = "get" /\ main'.hub = main.hub,
         \A h : Announced(queue', h) => Reported(h),
         \A light \in services' : light[1] \in Hub /\ Reported(light[1]) /\ Authorized(light[1]),
         \A h \in Hub : accepted[h] \subseteq accepted'[h]
  PROVE  HueInv'
<1>i. SaveInv /\ HubsInv /\ TokensInv /\ LightsInv /\ OneSetting  BY DEF HueInv
<1>u. UNCHANGED <<config, overrides, file, updated, saving, asked, failed, hubs, thread, saver>>
  BY DEF configVars
<1>1. SaveInv'  BY <1>i, <1>u, SaveInvStays
<1>2. HubsInv'  BY <1>i, <1>u DEF HubsInv
<1>3. TokensInv'  BY <1>i, <1>u DEF TokensInv, Held
<1>4. LightsInv'
  <2>1. ASSUME NEW light \in services' PROVE Reported(light[1])' /\ Authorized(light[1])'
    BY <1>u, <2>1 DEF Reported, Authorized
  <2>2. ASSUME NEW h, Announced(queue', h) PROVE Reported(h)'
    BY <1>u, <2>2 DEF Reported
  <2> QED  BY <2>1, <2>2, LightsByHub
<1>5. OneSetting'  BY <1>i, <1>u DEF OneSetting, OthersInFile, BeingSet
<1> QED  BY <1>1, <1>2, <1>3, <1>4, <1>5 DEF HueInv

(* The lights that are presented, and those announced, as they are.         *)
LEMMA LightsStay ==
  ASSUME HueTypeOK, HueInv
  PROVE  /\ \A h : Announced(queue, h) => Reported(h) /\ h \in Hub
         /\ queue # <<>> => \A h : Announced(Tail(queue), h) => Reported(h)
         /\ \A light \in services : light[1] \in Hub /\ Reported(light[1]) /\ Authorized(light[1])
<1>t. AdapterTypeOK /\ LightsTypeOK /\ LightsInv  BY HueTypeParts DEF HueInv
<1> QED  BY <1>t, TailAnnounces, AnnouncedReported DEF LightsTypeOK, LightsInv

LEMMA MainLoopInv == ASSUME HueTypeOK, HueInv, MainLoop PROVE HueInv'
<1>t. AdapterTypeOK /\ LightsTypeOK /\ ConfigTypeOK  BY HueTypeParts
<1>i. SaveInv /\ HubsInv /\ TokensInv /\ LightsInv /\ OneSetting  BY DEF HueInv
<1>1. CASE ReceiveTriggerDiscovery
  BY <1>1, LightsStay, QuietInv DEF ReceiveTriggerDiscovery, Receive, bridges
<1>2. CASE ReceiveAddHub
  <2>1. /\ queue # <<>> /\ queue' = Tail(queue) /\ main.pc = "recv"
        /\ UNCHANGED <<configVars, thread, services, saver, accepted>>
    BY <1>2 DEF ReceiveAddHub, Receive, bridges
  <2>2. CASE Head(queue).hub \notin DOMAIN hubs
    <3>1. UNCHANGED hubs /\ main'.pc = "get" /\ main'.hub \notin DOMAIN hubs
      BY <1>2, <2>2 DEF ReceiveAddHub
    <3> QED  BY <2>1, <3>1, LightsStay, QuietInv
  <2>3. CASE Head(queue).hub \in DOMAIN hubs
    <3> DEFINE h == Head(queue).hub
    <3>1. UNCHANGED main /\ hubs' = [hubs EXCEPT ![h].ip = Head(queue).ip]
      BY <1>2, <2>3 DEF ReceiveAddHub
    <3>2. DOMAIN hubs' = DOMAIN hubs /\ \A x \in DOMAIN hubs : hubs'[x].token = hubs[x].token
      BY <1>t, <3>1 DEF AdapterTypeOK, HubData
    <3>3. UNCHANGED <<config, overrides, file, updated, saving, asked, failed, saver>>
      BY <2>1 DEF configVars
    <3>4. SaveInv' /\ HubsInv'
      BY <1>i, <2>1, <3>1, <3>2, <3>3, SaveInvStays DEF HubsInv
    <3>5. TokensInv'
      BY <1>i, <2>1, <3>1, <3>2, <3>3 DEF TokensInv, Held
    <3>6. LightsInv'
      <4>1. \A x : Announced(queue', x) => Reported(x)'
        BY <2>1, LightsStay DEF Reported
      <4>2. \A light \in services' : Reported(light[1])' /\ Authorized(light[1])'
        BY <1>i, <2>1, <3>2, LightsStay DEF Reported, Authorized, HubsInv
      <4> QED  BY <4>1, <4>2, LightsByHub
    <3>7. OneSetting'
      BY <1>i, <2>1, <3>1, <3>3 DEF OneSetting, OthersInFile, BeingSet
    <3> QED  BY <3>4, <3>5, <3>6, <3>7 DEF HueInv
  <2> QED  BY <2>2, <2>3
<1>3. CASE ReceiveAddLight
  <2>1. /\ queue # <<>> /\ queue' = Tail(queue) /\ main.pc = "recv"
        /\ UNCHANGED <<configVars, hubs, thread, saver, accepted>>
    BY <1>3 DEF ReceiveAddLight, Receive, bridges
  <2>2. UNCHANGED main \/ main'.pc = "dead"
    BY <1>3 DEF ReceiveAddLight
  <2>3. ASSUME NEW light \in services'
        PROVE  light[1] \in Hub /\ Reported(light[1]) /\ Authorized(light[1])
    <3>1. CASE light \in services  BY <3>1, LightsStay
    <3>2. CASE light \notin services
      <4> DEFINE h == Head(queue).hub
      <4>1. light = <<h, Head(queue).light>> /\ Authorized(h)
        BY <1>3, <2>3, <3>2 DEF ReceiveAddLight
      <4>2. Announced(queue, h)
        <5>1. 1 \in DOMAIN queue /\ queue[1] = Head(queue) /\ Head(queue).kind = "AddLight"
          BY <1>3, <1>t, <2>1 DEF ReceiveAddLight, Receive, AdapterTypeOK
        <5> QED  BY <5>1 DEF Announced
      <4> QED  BY <4>1, <4>2, LightsStay
    <3> QED  BY <3>1, <3>2
  <2> QED  BY <2>1, <2>2, <2>3, LightsStay, QuietInv
<1>4. CASE GetToken
  <2>1. /\ main.pc = "get" /\ saving = "idle" /\ UNCHANGED <<configVars, saver>>
    BY <1>4 DEF GetToken
  <2>2. ASSUME NEW token \in GetSetting(main.hub), StartHub(token) PROVE HueInv'
    BY <2>1, <2>2, SettingRead, StartHubInv DEF Saving
  <2>3. ASSUME main' = [main EXCEPT !.pc = "set"],
               UNCHANGED <<queue, nupnp, hubs, thread, poisoned, lights, services, bridges>>
        PROVE  HueInv'
    <3>1. main'.pc = "set" /\ main'.hub = main.hub
      BY <1>t, <2>1, <2>3 DEF AdapterTypeOK, MainData, Receiving
    <3> QED  BY <2>1, <2>3, <3>1, LightsStay, QuietInv DEF bridges
  <2> QED  BY <1>4, <2>2, <2>3 DEF GetToken
<1>5. CASE SetDefaultToken
  <2>1. /\ main.pc = "set" /\ main.hub \in Hub /\ main.hub \notin DOMAIN hubs
        /\ main'.pc = "saving" /\ main'.hub = main.hub
    BY <1>5, <1>t, <1>i DEF SetDefaultToken, AdapterTypeOK, MainData, Receiving, HubsInv
  <2>2. SetSetting(main.hub, Unauthorized) /\ saver' = "main"
    BY <1>5 DEF SetDefaultToken
  <2>3. UNCHANGED <<queue, hubs, thread, services, accepted>>
    BY <1>5 DEF SetDefaultToken, bridges
  <2>4. SaveInv'  BY <1>i, <1>t, <2>1, <2>2, SetSettingSaves, HueAssumption
  <2>5. HubsInv'  BY <1>i, <2>1, <2>3 DEF HubsInv
  <2>6. TokensInv'
    <3> DEFINE n == main.hub
    <3>1. /\ DOMAIN config' = DOMAIN config \cup {n} /\ config'[n] = Unauthorized
          /\ \A q \in DOMAIN config : q # n => config'[q] = config[q]
          /\ UNCHANGED overrides
      BY <2>2, SetSettingEffect
    <3>2. main'.pc = "saving" => main'.hub \in DOMAIN config' /\ config'[main'.hub] = Unauthorized
      BY <2>1, <3>1
    <3>3. ASSUME NEW h \in DOMAIN hubs
          PROVE  /\ thread[h].pc # "saving" => Held(h)'
                 /\ thread[h].pc = "saving" => h \in DOMAIN config' /\ config'[h] = thread[h].token
      <4>1. h # n  BY <2>1
      <4> HIDE DEF n
      <4> QED  BY <1>i, <2>3, <3>1, <4>1 DEF TokensInv, Held
    <3> QED  BY <2>3, <3>2, <3>3 DEF TokensInv
  <2>7. LightsInv'
    BY <1>i, <2>3 DEF LightsInv, Reported, Authorized
  <2>8. OneSetting'
    <3>1. ASSUME NEW p, p = main.hub PROVE BeingSet(p)'
      BY <2>1, <2>2, <3>1 DEF BeingSet
    <3>2. main.hub \in Property  BY <2>1, HueAssumption
    <3> QED  BY <1>i, <2>2, <3>1, <3>2, SetSettingAlone
  <2> QED  BY <2>4, <2>5, <2>6, <2>7, <2>8 DEF HueInv
<1>6. CASE DefaultTokenSaved
  <2>1. main.hub \in DOMAIN config /\ config[main.hub] = Unauthorized
    BY <1>6, <1>i DEF DefaultTokenSaved, TokensInv
  <2> QED  BY <1>6, <2>1, StartHubInv DEF DefaultTokenSaved
<1> QED  BY <1>1, <1>2, <1>3, <1>4, <1>5, <1>6 DEF MainLoop

LEMMA DiscoveryInv == ASSUME HueTypeOK, HueInv, Discovery PROVE HueInv'
<1>t. AdapterTypeOK /\ ConfigTypeOK  BY HueTypeParts
<1>i. SaveInv /\ HubsInv /\ TokensInv /\ LightsInv /\ OneSetting  BY DEF HueInv
<1>a. ASSUME NEW h, NEW a, Announce(h, a), NEW x, Announced(queue', x)
      PROVE  Reported(x)
  <2>1. queue' = Append(queue, AddHub(h, a)) /\ AddHub(h, a).kind # "AddLight"
    BY <1>a DEF Announce, AddHub
  <2> QED  BY <1>a, <1>t, <2>1, AppendAnnounces, LightsStay
<1>1. ASSUME NEW h \in Hub, HubAdvertises(h) PROVE HueInv'
  BY <1>1, <1>a, LightsStay, QuietInv DEF HubAdvertises, bridges
<1>2. CASE GetNupnpEnabled
  BY <1>2, LightsStay, QuietInv DEF GetNupnpEnabled, bridges
<1>3. CASE SetNupnpEnabled
  <2>1. SetSetting(Nupnp, On) /\ saver' = "nupnp" /\ UNCHANGED <<queue, main, hubs, thread, services, accepted>>
    BY <1>3 DEF SetNupnpEnabled, bridges
  <2>2. /\ DOMAIN config' = DOMAIN config \cup {Nupnp}
        /\ \A q \in DOMAIN config : q # Nupnp => config'[q] = config[q]
        /\ UNCHANGED overrides
    BY <2>1, SetSettingEffect
  <2>3. SaveInv'  BY <1>i, <2>1, <1>t, SetSettingSaves, HueAssumption
  <2>4. HubsInv'  BY <1>i, <2>1 DEF HubsInv
  <2>5. TokensInv'
    <3>1. main.pc = "saving" => main.hub \in Hub
      BY <1>t DEF AdapterTypeOK, MainData, Receiving
    <3>2. \A h \in DOMAIN hubs : h # Nupnp
      BY <1>t, HueAssumption DEF AdapterTypeOK
    <3> QED  BY <1>i, <2>1, <2>2, <3>1, <3>2, HueAssumption DEF TokensInv, Held
  <2>6. LightsInv'  BY <1>i, <2>1 DEF LightsInv, Reported, Authorized
  <2>7. OneSetting'
    BY <1>i, <2>1, SetSettingAlone, HueAssumption DEF BeingSet
  <2> QED  BY <2>3, <2>4, <2>5, <2>6, <2>7 DEF HueInv
<1>4. CASE NupnpEnabledSaved
  BY <1>4, LightsStay, QuietInv DEF NupnpEnabledSaved, bridges
<1>5. CASE NupnpAnswers
  BY <1>5, <1>a, LightsStay, QuietInv DEF NupnpAnswers, bridges
<1> QED  BY <1>1, <1>2, <1>3, <1>4, <1>5 DEF Discovery

(* A thread that neither begins nor ends a save.                            *)
LEMMA ThreadMoves ==
  ASSUME HueTypeOK, HueInv, NEW h \in Hub, NEW from, NEW to, ThreadGoes(h, from, to),
         from \notin {"off", "saving"}, to.pc \notin {"off", "saving"},
         Reported(h) => to.pc \in {"report", "monitoring"},
         UNCHANGED <<configVars, hubs, saver>>,
         \A x : Announced(queue', x) =>
                  Announced(queue, x) \/ (x = h /\ to.pc \in {"report", "monitoring"}),
         \A x \in Hub : accepted[x] \subseteq accepted'[x]
  PROVE  HueInv'
<1>t. AdapterTypeOK /\ LightsTypeOK  BY HueTypeParts
<1>i. SaveInv /\ HubsInv /\ TokensInv /\ LightsInv /\ OneSetting  BY DEF HueInv
<1>u. UNCHANGED <<config, overrides, file, updated, saving, asked, failed, hubs, main, services, saver>>
  BY DEF configVars, ThreadGoes
<1>v. /\ thread[h].pc = from /\ thread'[h] = to
      /\ \A x \in Hub : x # h => thread'[x] = thread[x]
  BY <1>t DEF ThreadGoes, AdapterTypeOK
<1>r. \A x \in Hub : Reported(x) => Reported(x)'
  BY <1>v DEF Reported
<1>1. SaveInv'  BY <1>i, <1>u, SaveInvStays
<1>2. HubsInv'  BY <1>i, <1>u, <1>v DEF HubsInv
<1>3. TokensInv'
  <2>1. \A x \in DOMAIN hubs : x \in Hub  BY <1>t DEF AdapterTypeOK
  <2> QED  BY <1>i, <1>u, <1>v, <2>1 DEF TokensInv, Held
<1>4. LightsInv'
  <2>1. ASSUME NEW x, Announced(queue', x) PROVE Reported(x)'
    BY <1>r, <1>v, <2>1, LightsStay DEF Reported
  <2>2. ASSUME NEW light \in services' PROVE Reported(light[1])' /\ Authorized(light[1])'
    BY <1>r, <1>u, <2>2, LightsStay DEF Authorized
  <2> QED  BY <2>1, <2>2, LightsByHub
<1>5. OneSetting'  BY <1>i, <1>u, <1>v DEF OneSetting, OthersInFile, BeingSet
<1> QED  BY <1>1, <1>2, <1>3, <1>4, <1>5 DEF HueInv

LEMMA SaveTokenInv ==
  ASSUME HueTypeOK, HueInv, NEW h \in Hub, SaveToken(h)
  PROVE  HueInv'
<1>t. ConfigTypeOK /\ AdapterTypeOK /\ LightsTypeOK  BY HueTypeParts
<1>i. SaveInv /\ HubsInv /\ TokensInv /\ LightsInv /\ OneSetting  BY DEF HueInv
<1> DEFINE token == thread[h].token
<1>1. /\ thread[h].pc = "save" /\ SetSetting(h, token) /\ saver' = h
      /\ UNCHANGED <<queue, hubs, main, services, accepted>>
      /\ thread' = [thread EXCEPT ![h] = [thread[h] EXCEPT !.pc = "saving"]]
  BY DEF SaveToken, ThreadGoes, bridges
<1>2. /\ thread'[h].pc = "saving" /\ thread'[h].token = token
      /\ \A x \in Hub : x # h => thread'[x] = thread[x]
  <2>1. thread \in [Hub -> ThreadData] /\ thread[h] \in ThreadData  BY <1>t DEF AdapterTypeOK
  <2> QED  BY <1>1, <2>1 DEF ThreadData
<1>3. /\ DOMAIN config' = DOMAIN config \cup {h} /\ config'[h] = token
      /\ \A q \in DOMAIN config : q # h => config'[q] = config[q]
      /\ UNCHANGED overrides
  BY <1>1, SetSettingEffect
<1>h. h \in DOMAIN hubs /\ (main.pc = "saving" => main.hub # h)
  BY <1>i, <1>1 DEF HubsInv
<1> HIDE DEF token
<1>4. SaveInv'  BY <1>i, <1>1, <1>t, SetSettingSaves, HueAssumption
<1>5. HubsInv'  BY <1>i, <1>1, <1>2 DEF HubsInv
<1>6. TokensInv'
  <2>1. \A x \in DOMAIN hubs : x \in Hub  BY <1>t DEF AdapterTypeOK
  <2>2. ASSUME NEW x \in DOMAIN hubs, x # h
        PROVE  /\ thread'[x].pc # "saving" => Held(x)'
               /\ thread'[x].pc = "saving" => x \in DOMAIN config' /\ config'[x] = thread'[x].token
    BY <1>i, <1>1, <1>2, <1>3, <2>1, <2>2 DEF TokensInv, Held
  <2>3. main'.pc = "saving" => main'.hub \in DOMAIN config' /\ config'[main'.hub] = Unauthorized
    BY <1>i, <1>1, <1>3, <1>h DEF TokensInv
  <2> QED  BY <1>1, <1>2, <1>3, <2>2, <2>3 DEF TokensInv
<1>7. LightsInv'
  <2>1. \A x \in Hub : Reported(x) => Reported(x)'  BY <1>1, <1>2 DEF Reported
  <2>2. \A x : Announced(queue', x) => Reported(x)'  BY <1>1, <2>1, LightsStay
  <2>3. \A light \in services' : Reported(light[1])' /\ Authorized(light[1])'
    BY <1>1, <2>1, LightsStay DEF Authorized
  <2> QED  BY <2>2, <2>3, LightsByHub
<1>8. OneSetting'
  <2>1. BeingSet(h)'  BY <1>1, <1>2 DEF BeingSet
  <2> QED  BY <1>i, <1>1, <2>1, SetSettingAlone, HueAssumption
<1> QED  BY <1>4, <1>5, <1>6, <1>7, <1>8 DEF HueInv

LEMMA UpdateTokenInv ==
  ASSUME HueTypeOK, HueInv, NEW h \in Hub, UpdateToken(h)
  PROVE  HueInv'
<1>t. AdapterTypeOK /\ LightsTypeOK  BY HueTypeParts
<1>i. SaveInv /\ HubsInv /\ TokensInv /\ LightsInv /\ OneSetting  BY DEF HueInv
<1> DEFINE token == thread[h].token
<1>1. /\ thread[h].pc = "saving" /\ ~Saving(h)
      /\ UNCHANGED <<queue, main, services, accepted, saver>>
      /\ UNCHANGED <<config, overrides, file, updated, saving, asked, failed>>
      /\ thread' = [thread EXCEPT ![h] = At("recheck")]
      /\ hubs' = [hubs EXCEPT ![h].token = token]
  BY DEF UpdateToken, ThreadGoes, bridges, configVars
<1>2. /\ thread'[h].pc = "recheck"
      /\ \A x \in Hub : x # h => thread'[x] = thread[x]
  BY <1>1, <1>t DEF AdapterTypeOK, At
<1>h. h \in DOMAIN hubs /\ h \in DOMAIN config /\ config[h] = token
  BY <1>i, <1>1 DEF HubsInv, TokensInv
<1> HIDE DEF token
<1>3. /\ DOMAIN hubs' = DOMAIN hubs /\ hubs'[h].token = token
      /\ \A x \in DOMAIN hubs : x # h => hubs'[x] = hubs[x]
  BY <1>1, <1>h, <1>t DEF AdapterTypeOK, HubData
<1>4. SaveInv'  BY <1>i, <1>1, SaveInvStays
<1>5. HubsInv'  BY <1>i, <1>1, <1>2, <1>3 DEF HubsInv
<1>6. TokensInv'
  <2>1. \A x \in DOMAIN hubs : x \in Hub  BY <1>t DEF AdapterTypeOK
  <2>2. ASSUME NEW x \in DOMAIN hubs, x # h
        PROVE  /\ thread'[x].pc # "saving" => Held(x)'
               /\ thread'[x].pc = "saving" => x \in DOMAIN config' /\ config'[x] = thread'[x].token
    BY <1>i, <1>1, <1>2, <1>3, <2>1, <2>2 DEF TokensInv, Held
  <2>3. Held(h)'
    BY <1>1, <1>3, <1>h DEF Held
  <2>4. main'.pc = "saving" => main'.hub \in DOMAIN config' /\ config'[main'.hub] = Unauthorized
    BY <1>i, <1>1 DEF TokensInv
  <2> QED  BY <1>2, <1>3, <2>2, <2>3, <2>4 DEF TokensInv
<1>7. LightsInv'
  <2>1. \A x \in Hub : Reported(x) => x # h /\ Reported(x)'  BY <1>1, <1>2 DEF Reported
  <2>2. \A x : Announced(queue', x) => Reported(x)'  BY <1>1, <2>1, LightsStay
  <2>3. \A x \in Hub : Reported(x) => x \in DOMAIN hubs
    BY <1>i DEF HubsInv, Reported
  <2>4. \A light \in services' : Reported(light[1])' /\ Authorized(light[1])'
    BY <1>1, <1>3, <2>1, <2>3, LightsStay DEF Authorized
  <2> QED  BY <2>2, <2>4, LightsByHub
<1>8. OneSetting'
  BY <1>i, <1>1, <1>2 DEF OneSetting, OthersInFile, BeingSet, Saving
<1> QED  BY <1>4, <1>5, <1>6, <1>7, <1>8 DEF HueInv

LEMMA HubThreadInv == ASSUME HueTypeOK, HueInv, NEW h \in Hub, HubThread(h) PROVE HueInv'
<1>t. AdapterTypeOK /\ LightsTypeOK  BY HueTypeParts
<1> USE DEF At, Reported
<1>1. CASE IsAvailable(h)
  BY <1>1, ThreadMoves, LightsStay DEF IsAvailable, ThreadGoes, bridges
<1>2. CASE IsPaired(h)
  BY <1>2, ThreadMoves, LightsStay DEF IsPaired, ThreadGoes, bridges
<1>3. CASE IsNotPaired(h)
  BY <1>3, ThreadMoves, LightsStay DEF IsNotPaired, ThreadGoes, bridges
<1>4. CASE PairingSucceeds(h)
  <2>1. PICK token \in Token :
          /\ ThreadGoes(h, "pairing", [pc |-> "save", token |-> token])
          /\ accepted' = [accepted EXCEPT ![h] = @ \cup {token}]
    BY <1>4 DEF PairingSucceeds
  <2>2. \A x \in Hub : accepted[x] \subseteq accepted'[x]
    BY <1>t, <2>1 DEF AdapterTypeOK
  <2>3. UNCHANGED <<configVars, queue, hubs, saver>> /\ thread[h].pc = "pairing"
    BY <1>4 DEF PairingSucceeds, ThreadGoes
  <2> DEFINE to == [pc |-> "save", token |-> token]
  <2>4. to.pc = "save" /\ ThreadGoes(h, "pairing", to)  BY <2>1
  <2> HIDE DEF to
  <2> QED  BY <2>2, <2>3, <2>4, ThreadMoves
<1>5. CASE PairingFails(h)
  <2>1. \A x \in Hub : accepted[x] \subseteq accepted'[x]
    BY <1>5, <1>t DEF PairingFails, AdapterTypeOK
  <2>2. UNCHANGED <<configVars, queue, hubs, saver>> /\ thread[h].pc = "pairing"
    BY <1>5 DEF PairingFails, ThreadGoes
  <2> DEFINE to == [pc |-> "pairing", tries |-> thread[h].tries + 1]
  <2>3. to.pc = "pairing" /\ ThreadGoes(h, "pairing", to)  BY <1>5 DEF PairingFails
  <2> HIDE DEF to
  <2> QED  BY <2>1, <2>2, <2>3, ThreadMoves
<1>6. CASE PairingOver(h)
  BY <1>6, ThreadMoves, LightsStay DEF PairingOver, ThreadGoes, bridges
<1>7. CASE Recheck(h)
  BY <1>7, ThreadMoves, LightsStay DEF Recheck, ThreadGoes, bridges
<1>8. CASE GetSettings(h)
  BY <1>8, ThreadMoves, LightsStay DEF GetSettings, ThreadGoes, bridges
<1>9. CASE GetLights(h)
  <2>1. PICK to \in {[pc |-> "report", todo |-> Light], At("dead")} :
          to.pc \in {"report", "dead"} /\ ThreadGoes(h, "lights", to)
    BY <1>9 DEF GetLights
  <2>2. UNCHANGED <<configVars, queue, hubs, saver, accepted>> /\ thread[h].pc = "lights"
    BY <1>9 DEF GetLights, ThreadGoes, bridges
  <2> QED  BY <2>1, <2>2, ThreadMoves
<1>10. CASE ReportLight(h)
  <2>1. PICK l \in thread[h].todo :
          /\ queue' = Append(queue, AddLight(h, l))
          /\ ThreadGoes(h, "report", IF thread[h].todo = {l} THEN At("monitoring")
                                     ELSE [thread[h] EXCEPT !.todo = @ \ {l}])
    BY <1>10 DEF ReportLight
  <2> DEFINE to == IF thread[h].todo = {l} THEN At("monitoring")
                   ELSE [thread[h] EXCEPT !.todo = @ \ {l}]
  <2>2. to.pc \in {"report", "monitoring"}
    <3>1. thread[h] \in ThreadData /\ thread[h].pc = "report"
      BY <1>10, <1>t DEF ReportLight, AdapterTypeOK
    <3> QED  BY <3>1 DEF ThreadData
  <2>3. ThreadGoes(h, "report", to)  BY <2>1
  <2>4. \A x : Announced(queue', x) => Announced(queue, x) \/ x = h
    <3>1. AddLight(h, l).hub = h  BY DEF AddLight
    <3> QED  BY <1>t, <2>1, <3>1, AppendAnnounces
  <2>5. UNCHANGED <<configVars, hubs, saver, accepted>>
    BY <1>10 DEF ReportLight, bridges
  <2> HIDE DEF to
  <2> QED  BY <2>2, <2>3, <2>4, <2>5, ThreadMoves
<1> QED
  BY <1>1, <1>2, <1>3, <1>4, <1>5, <1>6, <1>7, <1>8, <1>9, <1>10, SaveTokenInv, UpdateTokenInv
  DEF HubThread

LEMMA HueInvNext == HueTypeOK /\ HueInv /\ [HueNext]_allHueVars => HueInv'
<1> SUFFICES ASSUME HueTypeOK, HueInv, [HueNext]_allHueVars PROVE HueInv'  OBVIOUS
<1>t. ConfigTypeOK /\ AdapterTypeOK /\ LightsTypeOK  BY HueTypeParts
<1>i. SaveInv /\ HubsInv /\ TokensInv /\ LightsInv /\ OneSetting  BY DEF HueInv
<1>1. ASSUME NEW h \in Hub, FetchFails(h) PROVE HueInv'
  BY <1>1, LightsStay, QuietInv DEF FetchFails, bridges
<1>2. ASSUME NEW h \in Hub, HubMoves(h) PROVE HueInv'
  BY <1>2, LightsStay, QuietInv DEF HubMoves
<1>3. CASE SaveGoesOn
  <2>1. /\ UNCHANGED <<config, overrides>>
        /\ saving' \in {"create", "write", "copy"} =>
             saving \in {"create", "write", "copy"} /\ UNCHANGED <<file, failed>>
    BY <1>3 DEF SaveGoesOn, SaveStep, CreateUpdated, WriteUpdated, StartCopy, EndCopy,
                RemoveUpdated, EndSave
  <2>2. saving # "idle"
    BY <1>3 DEF SaveGoesOn, SaveStep, CreateUpdated, WriteUpdated, StartCopy, EndCopy, RemoveUpdated
  <2>3. UNCHANGED <<queue, main, hubs, thread, services, saver, accepted>>
    BY <1>3 DEF SaveGoesOn, hueVars
  <2>4. SaveInv'  BY <1>3, <1>i, <1>t, SaveStepSaves DEF SaveGoesOn
  <2>5. HubsInv' /\ TokensInv' /\ LightsInv'
    BY <1>i, <2>1, <2>3 DEF HubsInv, TokensInv, LightsInv, Held, Reported, Authorized
  <2>6. OneSetting'
    BY <1>i, <2>1, <2>2, <2>3 DEF OneSetting, OthersInFile, BeingSet
  <2> QED  BY <2>4, <2>5, <2>6 DEF HueInv
<1>4. CASE HueRestarts
  <2>1. SaveInv' /\ saving' = "idle"
    BY <1>4, <1>i, RestartSaves DEF HueRestarts, RestartConfig
  <2>2. HubsInv' /\ TokensInv' /\ LightsInv'
    BY <1>4 DEF HueRestarts, HubsInv, TokensInv, LightsInv, Receiving, Asleep, EmptyMap,
                TriggerDiscovery
  <2> QED  BY <2>1, <2>2 DEF HueInv, OneSetting
<1>5. CASE UNCHANGED allHueVars
  BY <1>5, LightsStay, QuietInv DEF allHueVars, hueVars
<1> QED
  BY <1>1, <1>2, <1>3, <1>4, <1>5, MainLoopInv, DiscoveryInv, HubThreadInv DEF HueNext

LEMMA HueInvCorrect == HueSpec => []HueInv
<1>1. HueTypeOK /\ HueInv /\ [HueNext]_allHueVars => HueInv'
  BY HueInvNext
<1> QED  BY <1>1, HueInvInit, HueTypeCorrect, PTL DEF HueSpec

(* Whatever failed and wherever the box stopped before, a start finds of    *)
(* each property a value asked for at or after the last save that succeeded,*)
(* except while the file is being copied over (config_store.rs:117) and     *)
(* after a save that failed leaving it cut short.                           *)
THEOREM ConfigRemembers == HueSpec => []Remembered
<1>1. HueTypeOK /\ HueInv => Remembered
  BY HueInvImplies
<1> QED  BY <1>1, HueTypeCorrect, HueInvCorrect, PTL

(* The lights presented are those of hubs whose token is accepted and kept, *)
(* for every interleaving of the threads of the hubs, of discovery, of the  *)
(* saves and of the restarts.                                               *)
THEOREM TokensAreKept == HueSpec => []LightsOfPairedHubs
<1>1. HueTypeOK /\ HueInv => LightsOfPairedHubs
  BY HueInvImplies
<1> QED  BY <1>1, HueTypeCorrect, HueInvCorrect, PTL
=============================================================================
