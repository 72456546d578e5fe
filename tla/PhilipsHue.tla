------------------------------ MODULE PhilipsHue ------------------------------
(***************************************************************************)
(* The Philips Hue adapter (src/adapters/philips_hue), with the            *)
(* configuration that stores the tokens of its hubs.                       *)
(*                                                                         *)
(* The main loop adds hubs and lights, which discovery and the threads of  *)
(* the hubs announce.  Each hub has a thread that waits until the hub is   *)
(* available, pairs with it if need be, reports its lights and then sleeps.*)
(* The HubApi of a hub is shared, under a lock, by its thread, its lights  *)
(* and the main loop; a panic under that lock poisons it.                  *)
(*                                                                         *)
(* The hubs themselves are the environment: their address changes, a call  *)
(* to them may fail at any time, and they remember the tokens they gave.   *)
(* RemoveHub, RemoveLight and StopAdapter are sent by nobody.              *)
(***************************************************************************)
EXTENDS ConfigStore, Naturals, Sequences

CONSTANTS
  Hub, Address, Token, Light,
  Unauthorized,  \* the token of a hub before it is paired
  Nupnp, On, Off, \* the property that enables nUPnP; On is its default
  MaxTries,      \* 120: how many times pairing is tried
  MaxQueue       \* bound on the messages sent to the main loop by discovery

(* The token of a hub is stored under a property of its own.                *)
ASSUME HueAssumption ==
  /\ Property = Hub \cup {Nupnp}
  /\ Nupnp \notin Hub
  /\ Setting = Token \cup {Unauthorized, On, Off}
  /\ Unauthorized \notin Token
  /\ MaxTries \in Nat /\ MaxQueue \in Nat

VARIABLES
  queue,     \* the channel of the main loop
  main,      \* the main loop
  nupnp,     \* the thread of nUPnP discovery
  hubs,      \* the known hubs: HubApi's address and token, and Hub's address
  thread,    \* hub -> its thread
  poisoned,  \* hubs whose HubApi is poisoned
  lights,    \* the lights known to the main loop
  services,  \* the lights presented as services
  saver,     \* whose save is going on, or was the last
  (* The hubs:                                                             *)
  address,   \* hub -> where it is
  accepted   \* hub -> the tokens it has given

hueVars == <<queue, main, nupnp, hubs, thread, poisoned, lights, services, saver,
             address, accepted>>
allHueVars == <<configVars, hueVars>>
bridges == <<address, accepted>>

TriggerDiscovery == [kind |-> "TriggerDiscovery"]
AddHub(h, a) == [kind |-> "AddHub", hub |-> h, ip |-> a]
AddLight(h, l) == [kind |-> "AddLight", hub |-> h, light |-> l]

Receiving == [pc |-> "recv"]
Asleep == [pc |-> "off"]

HueInit ==
  /\ ConfigInit
  /\ queue = <<TriggerDiscovery>>
  /\ main = Receiving
  /\ nupnp = "off"
  /\ hubs = EmptyMap
  /\ thread = [h \in Hub |-> Asleep]
  /\ poisoned = {}
  /\ lights = {} /\ services = {}
  /\ saver = "nobody"
  /\ address \in [Hub -> Address]
  /\ accepted = [h \in Hub |-> {}]

(* A caller of `set` goes on when its save is over.                         *)
Saving(caller) == saver = caller /\ saving # "idle"

(* A call to the hub h is answered only by the hub at the address known.  A *)
(* hub that has taken the address of another is left out.                   *)
MayAnswer(h) == hubs[h].api_ip = address[h]
Authorized(h) == hubs[h].token \in accepted[h]

-----------------------------------------------------------------------------
(* The main loop.                                                          *)

Receive(kind) ==
  /\ main.pc = "recv"
  /\ queue # <<>>
  /\ Head(queue).kind = kind
  /\ queue' = Tail(queue)

(* nUPnP gets its thread, then UPnP is searched: an error panics here.      *)
ReceiveTriggerDiscovery ==
  /\ Receive("TriggerDiscovery")
  /\ nupnp' = "get"
  /\ main' \in {main, [pc |-> "dead"]}
  /\ UNCHANGED <<configVars, hubs, thread, poisoned, lights, services, saver, bridges>>

(* `update_ip` of a known hub does not reach its HubApi.                    *)
ReceiveAddHub ==
  /\ Receive("AddHub")
  /\ LET h == Head(queue).hub
     IN IF h \in DOMAIN hubs
        THEN hubs' = [hubs EXCEPT ![h].ip = Head(queue).ip] /\ UNCHANGED main
        ELSE main' = [pc |-> "get", hub |-> h, ip |-> Head(queue).ip] /\ UNCHANGED hubs
  /\ UNCHANGED <<configVars, nupnp, thread, poisoned, lights, services, saver, bridges>>

(* Hub::new and `start`, once the token is known.                           *)
StartHub(token) ==
  /\ hubs' = Put(hubs, main.hub, [ip |-> main.ip, api_ip |-> main.ip, token |-> token])
  /\ thread' = [thread EXCEPT ![main.hub] = [pc |-> "available"]]
  /\ main' = Receiving
  /\ UNCHANGED <<queue, nupnp, poisoned, lights, services, bridges>>

(* `get_or_set_default` reads under one lock, then writes under another.    *)
GetToken ==
  /\ main.pc = "get"
  /\ saving = "idle"
  /\ IF GetSetting(main.hub) = {}
     THEN /\ main' = [main EXCEPT !.pc = "set"]
          /\ UNCHANGED <<queue, nupnp, hubs, thread, poisoned, lights, services, bridges>>
     ELSE \E token \in GetSetting(main.hub) : StartHub(token)
  /\ UNCHANGED <<configVars, saver>>

SetDefaultToken ==
  /\ main.pc = "set"
  /\ SetSetting(main.hub, Unauthorized)
  /\ saver' = "main"
  /\ main' = [main EXCEPT !.pc = "saving"]
  /\ UNCHANGED <<queue, nupnp, hubs, thread, poisoned, lights, services, bridges>>

DefaultTokenSaved ==
  /\ main.pc = "saving"
  /\ ~Saving("main")
  /\ StartHub(Unauthorized)
  /\ UNCHANGED <<configVars, saver>>

(* The light is looked up on its hub: `get_light_status` panics unless the  *)
(* hub answers, and leaves HubApi poisoned.  A light of another type, or    *)
(* that the manager refuses, is known and not presented.                    *)
ReceiveAddLight ==
  /\ Receive("AddLight")
  /\ LET h == Head(queue).hub
         light == <<h, Head(queue).light>>
         answered == h \in DOMAIN hubs /\ h \notin poisoned /\ MayAnswer(h) /\ Authorized(h)
     IN \/ light \in lights /\ UNCHANGED <<main, poisoned, lights, services>>
        \/ /\ light \notin lights
           /\ answered
           /\ lights' = lights \cup {light}
           /\ services' \in {services, services \cup {light}}
           /\ UNCHANGED <<main, poisoned>>
        \/ /\ light \notin lights
           /\ main' = [pc |-> "dead"]
           /\ poisoned' = poisoned \cup {h}
           /\ UNCHANGED <<lights, services>>
  /\ UNCHANGED <<configVars, nupnp, hubs, thread, saver, bridges>>

MainLoop ==
  \/ ReceiveTriggerDiscovery \/ ReceiveAddHub \/ ReceiveAddLight
  \/ GetToken \/ SetDefaultToken \/ DefaultTokenSaved

-----------------------------------------------------------------------------
(* Discovery.                                                              *)

Announce(h, a) ==
  /\ Len(queue) < MaxQueue
  /\ queue' = Append(queue, AddHub(h, a))

(* UPnP: a hub advertises itself.                                           *)
HubAdvertises(h) ==
  /\ Announce(h, address[h])
  /\ UNCHANGED <<configVars, main, nupnp, hubs, thread, poisoned, lights, services, saver, bridges>>

(* nUPnP asks whether it is enabled, and then a server, which names some    *)
(* hubs and may not have their latest address.  (The address of the server  *)
(* is a property with a default too.)                                       *)
GetNupnpEnabled ==
  /\ nupnp = "get"
  /\ saving = "idle"
  /\ nupnp' = IF GetSetting(Nupnp) = {} THEN "set"
              ELSE IF GetSetting(Nupnp) = {On} THEN "query" ELSE "off"
  /\ UNCHANGED <<configVars, queue, main, hubs, thread, poisoned, lights, services, saver, bridges>>

SetNupnpEnabled ==
  /\ nupnp = "set"
  /\ SetSetting(Nupnp, On)
  /\ saver' = "nupnp"
  /\ nupnp' = "saving"
  /\ UNCHANGED <<queue, main, hubs, thread, poisoned, lights, services, bridges>>

NupnpEnabledSaved ==
  /\ nupnp = "saving"
  /\ ~Saving("nupnp")
  /\ nupnp' = "query"
  /\ UNCHANGED <<configVars, queue, main, hubs, thread, poisoned, lights, services, saver, bridges>>

NupnpAnswers ==
  /\ nupnp = "query"
  /\ \/ nupnp' = "off" /\ UNCHANGED queue
     \/ (\E h \in Hub, a \in Address : Announce(h, a)) /\ UNCHANGED nupnp
  /\ UNCHANGED <<configVars, main, hubs, thread, poisoned, lights, services, saver, bridges>>

Discovery ==
  \/ \E h \in Hub : HubAdvertises(h)
  \/ GetNupnpEnabled \/ SetNupnpEnabled \/ NupnpEnabledSaved \/ NupnpAnswers

-----------------------------------------------------------------------------
(* The thread of a hub.                                                    *)

ThreadGoes(h, from, to) ==
  /\ thread[h].pc = from
  /\ thread' = [thread EXCEPT ![h] = to]
  /\ UNCHANGED <<main, nupnp, lights, services>>

At(pc) == [pc |-> pc]

IsAvailable(h) ==
  /\ ThreadGoes(h, "available", At("paired"))
  /\ MayAnswer(h)
  /\ UNCHANGED <<configVars, queue, hubs, poisoned, saver, bridges>>

(* `is_paired` is true of a hub that does not answer: its settings are then *)
(* an empty text, which does not contain "unauthorized user".               *)
IsPaired(h) ==
  /\ ThreadGoes(h, "paired", At("settings"))
  /\ UNCHANGED <<configVars, queue, hubs, poisoned, saver, bridges>>

IsNotPaired(h) ==
  /\ ThreadGoes(h, "paired", [pc |-> "pairing", tries |-> 0])
  /\ MayAnswer(h) /\ ~Authorized(h)
  /\ UNCHANGED <<configVars, queue, hubs, poisoned, saver, bridges>>

(* Somebody has pushed the button of the hub, which gives a new token.      *)
PairingSucceeds(h) ==
  \E token \in Token \ accepted[h] :
    /\ ThreadGoes(h, "pairing", [pc |-> "save", token |-> token])
    /\ thread[h].tries < MaxTries
    /\ MayAnswer(h)
    /\ accepted' = [accepted EXCEPT ![h] = @ \cup {token}]
    /\ UNCHANGED <<configVars, queue, hubs, poisoned, saver, address>>

(* Mutant: the tries are not bounded.                                       *)
PairingFailsAgain(h) ==
  /\ thread[h].pc = "pairing" /\ thread[h].tries <= MaxTries
  /\ ThreadGoes(h, "pairing", [pc |-> "pairing", tries |-> thread[h].tries + 1])
  /\ UNCHANGED <<configVars, queue, hubs, poisoned, saver, bridges>>

(* Nobody has, or the hub does not answer, or its answer is lost.           *)
PairingFails(h) ==
  /\ thread[h].pc = "pairing" /\ thread[h].tries < MaxTries
  /\ ThreadGoes(h, "pairing", [pc |-> "pairing", tries |-> thread[h].tries + 1])
  /\ \/ UNCHANGED accepted
     \/ MayAnswer(h) /\ \E token \in Token : accepted' = [accepted EXCEPT ![h] = @ \cup {token}]
  /\ UNCHANGED <<configVars, queue, hubs, poisoned, saver, address>>

PairingOver(h) ==
  /\ thread[h].pc = "pairing" /\ thread[h].tries = MaxTries
  /\ ThreadGoes(h, "pairing", At("recheck"))
  /\ UNCHANGED <<configVars, queue, hubs, poisoned, saver, bridges>>

(* Mutant: the token is given to HubApi and not saved.                      *)
UseTokenUnsaved(h) ==
  /\ thread[h].pc = "save"
  /\ ThreadGoes(h, "save", At("recheck"))
  /\ hubs' = [hubs EXCEPT ![h].token = thread[h].token]
  /\ UNCHANGED <<configVars, queue, poisoned, saver, bridges>>

SaveToken(h) ==
  /\ thread[h].pc = "save"
  /\ ThreadGoes(h, "save", [thread[h] EXCEPT !.pc = "saving"])
  /\ SetSetting(h, thread[h].token)
  /\ saver' = h
  /\ UNCHANGED <<queue, hubs, poisoned, bridges>>

UpdateToken(h) ==
  /\ thread[h].pc = "saving"
  /\ ~Saving(h)
  /\ ThreadGoes(h, "saving", At("recheck"))
  /\ hubs' = [hubs EXCEPT ![h].token = thread[h].token]
  /\ UNCHANGED <<configVars, queue, poisoned, saver, bridges>>

(* Not paired after all: pairing is tried again in an hour.                 *)
Recheck(h) ==
  /\ \/ ThreadGoes(h, "recheck", At("settings"))
     \/ ThreadGoes(h, "recheck", At("available")) /\ MayAnswer(h) /\ ~Authorized(h)
  /\ UNCHANGED <<configVars, queue, hubs, poisoned, saver, bridges>>

(* The settings of a hub that does not answer cannot be parsed: a panic.    *)
GetSettings(h) ==
  /\ \/ ThreadGoes(h, "settings", At("lights")) /\ MayAnswer(h) /\ Authorized(h)
     \/ ThreadGoes(h, "settings", At("dead"))
  /\ UNCHANGED <<configVars, queue, hubs, poisoned, saver, bridges>>

(* Here the panic comes while HubApi is locked.                             *)
GetLights(h) ==
  /\ \/ /\ ThreadGoes(h, "lights", [pc |-> "report", todo |-> Light])
        /\ MayAnswer(h) /\ Authorized(h)
        /\ UNCHANGED poisoned
     \/ /\ ThreadGoes(h, "lights", At("dead"))
        /\ poisoned' = poisoned \cup {h}
  /\ UNCHANGED <<configVars, queue, hubs, saver, bridges>>

(* Then the thread sleeps for ever.                                         *)
ReportLight(h) ==
  /\ thread[h].pc = "report"
  /\ \E l \in thread[h].todo :
       /\ queue' = Append(queue, AddLight(h, l))
       /\ ThreadGoes(h, "report", IF thread[h].todo = {l} THEN At("monitoring")
                                  ELSE [thread[h] EXCEPT !.todo = @ \ {l}])
  /\ UNCHANGED <<configVars, hubs, poisoned, saver, bridges>>

HubThread(h) ==
  \/ IsAvailable(h) \/ IsPaired(h) \/ IsNotPaired(h)
  \/ PairingSucceeds(h) \/ PairingFails(h) \/ PairingOver(h)
  \/ SaveToken(h) \/ UpdateToken(h) \/ Recheck(h)
  \/ GetSettings(h) \/ GetLights(h) \/ ReportLight(h)

-----------------------------------------------------------------------------
(* The rest of the box, and the hubs.                                      *)

(* The value of a light is asked for while its hub does not answer: the     *)
(* thread that asks panics, with HubApi locked.                             *)
FetchFails(h) ==
  /\ \E l \in Light : <<h, l>> \in services
  /\ poisoned' = poisoned \cup {h}
  /\ UNCHANGED <<configVars, queue, main, nupnp, hubs, thread, lights, services, saver, bridges>>

HubMoves(h) ==
  /\ \E a \in Address : address' = [address EXCEPT ![h] = a]
  /\ UNCHANGED <<configVars, queue, main, nupnp, hubs, thread, poisoned, lights, services, saver,
                 accepted>>

SaveGoesOn == SaveStep /\ UNCHANGED hueVars

HueRestarts ==
  /\ RestartConfig
  /\ queue' = <<TriggerDiscovery>>
  /\ main' = Receiving
  /\ nupnp' = "off"
  /\ hubs' = EmptyMap
  /\ thread' = [h \in Hub |-> Asleep]
  /\ poisoned' = {} /\ lights' = {} /\ services' = {}
  /\ saver' = "nobody"
  /\ UNCHANGED bridges

HueNext ==
  \/ MainLoop
  \/ Discovery
  \/ \E h \in Hub : HubThread(h) \/ FetchFails(h) \/ HubMoves(h)
  \/ SaveGoesOn
  \/ HueRestarts

HueSpec == HueInit /\ [][HueNext]_allHueVars

-----------------------------------------------------------------------------
(* Properties.  The type invariant:                                         *)
HueTypeOK ==
  /\ ConfigTypeOK
  /\ queue \in Seq({TriggerDiscovery}
       \cup {AddHub(h, a) : h \in Hub, a \in Address}
       \cup {AddLight(h, l) : h \in Hub, l \in Light})
  /\ main \in {Receiving, [pc |-> "dead"]}
       \cup [pc : {"get", "set", "saving"}, hub : Hub, ip : Address]
  /\ nupnp \in {"off", "get", "set", "saving", "query"}
  /\ IsMap(hubs, Hub, [ip : Address, api_ip : Address, token : Setting])
  /\ thread \in [Hub ->
       [pc : {"off", "available", "paired", "recheck", "settings", "lights", "monitoring", "dead"}]
       \cup [pc : {"pairing"}, tries : 0 .. MaxTries]
       \cup [pc : {"save", "saving"}, token : Token]
       \cup [pc : {"report"}, todo : SUBSET Light]]
  /\ poisoned \subseteq Hub
  /\ services \subseteq lights /\ lights \subseteq Hub \X Light
  /\ saver \in {"nobody", "main", "nupnp"} \cup Hub
  /\ address \in [Hub -> Address]
  /\ accepted \in [Hub -> SUBSET Token]

(* hubs.get(&hub_id).unwrap(), "TODO: check if hub is known": the hub of a  *)
(* light that is announced is known, though its thread and discovery send   *)
(* to the same channel in any order.                                        *)
LightsOfKnownHubs ==
  \A i \in DOMAIN queue : queue[i].kind = "AddLight" => queue[i].hub \in DOMAIN hubs

(* The light of a hub is presented only with a token that the hub accepts   *)
(* and that the command line gave, or that the configuration holds, in      *)
(* memory and, unless a save failed or is just being done, in the file:     *)
(* after a restart nobody has to push the button again, whatever was saved  *)
(* at the same time.                                                        *)
LightsOfPairedHubs ==
  /\ LightsOfKnownHubs
  /\ \A light \in services :
       LET h == light[1]
       IN /\ h \in DOMAIN hubs
          /\ Authorized(h)
          /\ \/ h \in DOMAIN overrides /\ overrides[h] = hubs[h].token
             \/ /\ h \in DOMAIN config /\ config[h] = hubs[h].token
                /\ ~failed /\ saving # "fill" => h \in DOMAIN file.tree /\ file.tree[h] = config[h]
=============================================================================
