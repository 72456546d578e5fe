--------------------------------- MODULE MCBox --------------------------------
(***************************************************************************)
(* The parts of the box that share no state with one another, nor with the *)
(* adapter manager as far as they are modelled: the tunnel's process, the  *)
(* Philips Hue adapter with the configuration, the certificates, the       *)
(* scripts and their database, the IP cameras, and the WebPush database.   *)
(* Each behaviour runs one of them, `part`; the others stay where they     *)
(* start.                                                                  *)
(***************************************************************************)
EXTENDS ManagedProcess, PhilipsHue, Certificates, ScriptManager, IpCamera, WebPush

CONSTANTS
  s1, s2, old, new, broken,  \* scripts, and sources that compile or not
  u1, u2                     \* users of WebPush

VARIABLE part

boxVars ==
  <<part, processVars, allHueVars, certificateVars, managerVars, ipCameraVars, webPushVars>>

Properties == Hub \cup {Nupnp}
Settings == Token \cup {Unauthorized, On, Off}
CommandLines ==
  {EmptyMap} \cup {Put(Put(EmptyMap, Nupnp, Off), h, t) : h \in Hub, t \in Token}

Door == [word |-> "door", quotes |-> 0]
Quoted == [word |-> "door", quotes |-> 1]
Resources == {Door, Quoted}
ListsOfResources == [u \in WebUser |-> IF u = u1 THEN {<<Door, Quoted>>} ELSE {<<Quoted>>}]

BoxInit ==
  /\ part \in {"process", "hue", "certificates", "scripts", "cameras", "webpush"}
  /\ ProcessInit
  /\ HueInit
  /\ CertificatesInit
  /\ ManagerInit
  /\ IpCameraInit
  /\ WebPushInit
  (* A part that is not run has one initial state.                         *)
  /\ part = "certificates" \/ tls
  /\ \/ part = "hue"
     \/ overrides = EmptyMap /\ address = [h \in Hub |-> CHOOSE a \in Address : TRUE]

InProcess ==
  /\ part = "process"
  /\ UNCHANGED <<part, allHueVars, certificateVars, managerVars, ipCameraVars, webPushVars>>
InHue ==
  /\ part = "hue"
  /\ UNCHANGED <<part, processVars, certificateVars, managerVars, ipCameraVars, webPushVars>>
InCertificates ==
  /\ part = "certificates"
  /\ UNCHANGED <<part, processVars, allHueVars, managerVars, ipCameraVars, webPushVars>>
InScripts ==
  /\ part = "scripts"
  /\ UNCHANGED <<part, processVars, allHueVars, certificateVars, ipCameraVars, webPushVars>>
InCameras ==
  /\ part = "cameras"
  /\ UNCHANGED <<part, processVars, allHueVars, certificateVars, managerVars, webPushVars>>
InWebPush ==
  /\ part = "webpush"
  /\ UNCHANGED <<part, processVars, allHueVars, certificateVars, managerVars, ipCameraVars>>

MonitorRuns == InProcess /\ MonitorStep
ShutdownStarts == InProcess /\ RaiseKillSignal
ShutdownRuns == InProcess /\ ShutdownStep
ProcessesRun == InProcess /\ \E p \in Pid : ChildExits(p) \/ OtherStarts(p) \/ OtherEnds(p)

MainLoopRuns == InHue /\ MainLoop
DiscoveryRuns == InHue /\ Discovery
HubThreadRuns == InHue /\ \E h \in Hub : HubThread(h)
FetchPanics == InHue /\ \E h \in Hub : FetchFails(h)
HubChanges == InHue /\ \E h \in Hub : HubMoves(h)
ConfigSaves == InHue /\ SaveGoesOn
HueBoxRestarts == InHue /\ HueRestarts

RegistrarRuns == InCertificates /\ RegistrarStep
RegistrarRestarts == InCertificates /\ RestartBox

ScriptsRun == InScripts /\ ManagerNext

CamerasRun == InCameras /\ IpCameraNext
WebPushRuns == InWebPush /\ WebPushNext

BoxNext ==
  \/ MonitorRuns \/ ShutdownStarts \/ ShutdownRuns \/ ProcessesRun
  \/ MainLoopRuns \/ DiscoveryRuns \/ HubThreadRuns \/ FetchPanics \/ HubChanges
  \/ ConfigSaves \/ HueBoxRestarts
  \/ RegistrarRuns \/ RegistrarRestarts
  \/ ScriptsRun
  \/ CamerasRun
  \/ WebPushRuns

(* The fairness of FairProcessSpec; the other parts are checked for safety. *)
FairBoxSpec ==
  /\ BoxInit /\ [][BoxNext]_boxVars
  /\ WF_boxVars(MonitorRuns) /\ WF_boxVars(ShutdownRuns)

BoxTypeOK ==
  /\ ProcessTypeOK /\ HueTypeOK /\ CertificatesTypeOK
  /\ ManagerTypeOK /\ IpCameraTypeOK /\ WebPushTypeOK
=============================================================================
