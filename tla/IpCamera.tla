------------------------------- MODULE IpCamera ------------------------------
(***************************************************************************)
(* The adapter of IP cameras (src/adapters/ip_camera) and the UPnP manager *)
(* that tells it of them (src/upnp.rs).                                    *)
(*                                                                         *)
(* Each advertisement has a thread of its own, which fetches the           *)
(* description of the device and calls the listeners while it holds their  *)
(* mutex.  A listener that panics leaves the mutex poisoned: threads that  *)
(* lock it later panic in turn.  The listener of the cameras panics when   *)
(* any step of the registration fails.                                     *)
(*                                                                         *)
(* Clients take snapshots at any time.  Their files survive restarts.      *)
(*                                                                         *)
(* Left out: the goodbyes of devices, which the listener ignores, and user *)
(* names and passwords, which only pass through the configuration store.   *)
(***************************************************************************)
EXTENDS HashMap, Naturals, FiniteSets

CONSTANTS
  Camera,     \* their unique device names
  Visit,      \* the threads of advertisements
  Client,     \* the threads that take snapshots
  MaxShots,   \* bound on the images that cameras hand out
  MaxSecond   \* bound on the clock

ASSUME IpCameraAssumption ==
  /\ MaxShots \in Nat /\ MaxSecond \in Nat
  /\ {"free", "poisoned"} \cap Visit = {}

(* The channels, in the order in which init_service adds them.              *)
ChannelOrder == [image_list |-> 1, image_newest |-> 2, snapshot |-> 3, get_username |-> 4,
                 set_username |-> 5, get_password |-> 6, set_password |-> 7]
AllChannels == DOMAIN ChannelOrder
Before(ch) == {x \in AllChannels : ChannelOrder[x] < ChannelOrder[ch]}

VARIABLES
  announced,   \* the cameras whose service is registered
  channels,    \* camera -> its channels that are registered
  cameras,     \* the cameras in the maps of the adapter
  manager,     \* the lock of the adapter manager: "free" or "poisoned"
  listeners,   \* the mutex of the listeners: "free", "poisoned", or who holds it
  visit,       \* what the thread of an advertisement does, and for which camera
  shot,        \* what a client's call of take_snapshot does
  disk,        \* camera -> name of a file -> the images written to it, and its ctime
  second,      \* the clock
  shots,       \* the number of images handed out
  (* History, read by no action:                                           *)
  reported,    \* the snapshots that were reported as taken
  rivals,      \* images taken of a camera in the same second at the same time
  unflushed    \* images of which the last bytes could not be written

memory == <<announced, channels, cameras, manager, listeners, visit>>
snapshots == <<shot, disk, second, shots, reported, rivals, unflushed>>
ipCameraVars == <<memory, snapshots>>

NoVisit == [pc |-> "none"]
Visiting(pc, c) == [pc |-> pc, camera |-> c]

IpCameraInit ==
  /\ announced = {} /\ channels = [c \in Camera |-> {}] /\ cameras = {}
  /\ manager = "free" /\ listeners = "free"
  /\ visit = [t \in Visit |-> NoVisit]
  /\ shot = [s \in Client |-> NoVisit]
  /\ disk = [c \in Camera |-> EmptyMap]
  /\ second = 0 /\ shots = 0
  /\ reported = {} /\ rivals = {} /\ unflushed = {}

-----------------------------------------------------------------------------
(* Advertisements.                                                         *)

EndVisit(t) == visit' = [visit EXCEPT ![t] = NoVisit]

PanicListening(t) ==
  /\ EndVisit(t)
  /\ listeners' = "poisoned"
  /\ UNCHANGED <<announced, channels, cameras>>

(* The description was fetched; without one the thread ends at once.        *)
Advertise(t, c) ==
  /\ visit[t] = NoVisit
  /\ visit' = [visit EXCEPT ![t] = Visiting("waiting", c)]
  /\ UNCHANGED <<announced, channels, cameras, manager, listeners>>

(* `notify_service`, up to `add_service`: the only error that is ignored is *)
(* that the service is already there.  Before it looks, it reads the tags   *)
(* of the service, which may fail, or panic under the lock of the manager.  *)
Listen(t) ==
  /\ visit[t].pc = "waiting"
  /\ LET c == visit[t].camera
     IN \/ /\ listeners = "poisoned"
           /\ EndVisit(t)
           /\ UNCHANGED <<announced, channels, cameras, manager, listeners>>
        \/ /\ listeners = "free" /\ c \in announced
           /\ EndVisit(t)
           /\ UNCHANGED <<announced, channels, cameras, manager, listeners>>
        \/ /\ listeners = "free" /\ c \notin announced
           /\ listeners' = t
           /\ announced' = announced \cup {c}
           /\ visit' = [visit EXCEPT ![t].pc = "adding"]
           /\ UNCHANGED <<channels, cameras, manager>>
        \/ /\ listeners = "free"
           /\ PanicListening(t)
           /\ manager' \in {manager, "poisoned"}

(* `add_getter` or `add_setter`: it fails only by a panic, when the tags    *)
(* cannot be opened, under the lock of the manager.                         *)
AddChannel(t, ch) ==
  /\ visit[t].pc = "adding"
  /\ LET c == visit[t].camera
     IN /\ channels[c] = Before(ch)
        /\ \/ /\ channels' = [channels EXCEPT ![c] = @ \cup {ch}]
              /\ UNCHANGED <<announced, cameras, manager, listeners, visit>>
           \/ manager' = "poisoned" /\ PanicListening(t)

(* Mutant: the listener logs the error and returns.                         *)
MakeCameraQuietly(t) ==
  /\ visit[t].pc = "adding" /\ channels[visit[t].camera] = AllChannels
  /\ EndVisit(t)
  /\ cameras' \in {cameras, cameras \cup {visit[t].camera}}
  /\ listeners' = "free"
  /\ UNCHANGED <<announced, channels, manager>>

(* `IpCamera::new` fails if it cannot make the directory of the snapshots.  *)
MakeCamera(t) ==
  /\ visit[t].pc = "adding" /\ channels[visit[t].camera] = AllChannels
  /\ \/ /\ EndVisit(t)
        /\ cameras' = cameras \cup {visit[t].camera}
        /\ listeners' = "free"
        /\ UNCHANGED <<announced, channels>>
     \/ PanicListening(t)
  /\ UNCHANGED manager

-----------------------------------------------------------------------------
(* `take_snapshot`.                                                        *)

EndShot(s) == shot' = [shot EXCEPT ![s] = NoVisit]
FileOf(s) == <<shot[s].second, shot[s].count>>
Write(c, name, images) ==
  disk' = [disk EXCEPT ![c] = Put(@, name, [images |-> images, ctime |-> second])]

(* `send_values` finds no camera for a channel that is not in the maps.     *)
AskSnapshot(s, c) ==
  /\ shot[s] = NoVisit
  /\ manager = "free"
  /\ "snapshot" \in channels[c]
  /\ c \in cameras
  /\ shot' = [shot EXCEPT ![s] = Visiting("get", c)]
  /\ UNCHANGED <<disk, second, shots, reported, rivals, unflushed>>

Rivals(s) ==
  {r \in Client \ {s} : shot[r].pc \in {"look", "open", "write"}
                        /\ shot[r].camera = shot[s].camera /\ shot[r].second = second}

GetBytes(s) ==
  /\ shot[s].pc = "get"
  /\ \/ /\ shots < MaxShots
        /\ shots' = shots + 1
        /\ shot' = [shot EXCEPT ![s] = [pc |-> "look", camera |-> shot[s].camera,
                                        second |-> second, count |-> 0, image |-> shots']]
        /\ rivals' = rivals \cup {shot[r].image : r \in Rivals(s)}
                            \cup {i \in {shots'} : Rivals(s) # {}}
     \/ EndShot(s) /\ UNCHANGED <<shots, rivals>>
  /\ UNCHANGED <<disk, second, reported, unflushed>>

(* Mutant: the first name is taken.                                         *)
LookNowhere(s) ==
  /\ shot[s].pc = "look"
  /\ shot' = [shot EXCEPT ![s].pc = "open"]
  /\ UNCHANGED <<disk, second, shots, reported, rivals, unflushed>>

Look(s) ==
  /\ shot[s].pc = "look"
  /\ shot' = IF FileOf(s) \in DOMAIN disk[shot[s].camera]
             THEN [shot EXCEPT ![s].count = @ + 1]
             ELSE [shot EXCEPT ![s].pc = "open"]
  /\ UNCHANGED <<disk, second, shots, reported, rivals, unflushed>>

(* The file is created, or truncated.                                       *)
Open(s) ==
  /\ shot[s].pc = "open"
  /\ \/ /\ Write(shot[s].camera, FileOf(s), {})
        /\ shot' = [shot EXCEPT ![s].pc = "write"]
     \/ EndShot(s) /\ UNCHANGED disk
  /\ UNCHANGED <<second, shots, reported, rivals, unflushed>>

(* `write_all` fails or not; what the writer holds back is written when it  *)
(* is dropped, and a failure then is ignored.                               *)
WriteAll(s) ==
  /\ shot[s].pc = "write"
  /\ EndShot(s)
  /\ LET c == shot[s].camera
         done == [camera |-> c, name |-> FileOf(s), image |-> shot[s].image]
     IN \/ /\ Write(c, FileOf(s), disk[c][FileOf(s)].images \cup {shot[s].image})
           /\ reported' = reported \cup {done}
           /\ UNCHANGED unflushed
        \/ /\ reported' = reported \cup {done}
           /\ unflushed' = unflushed \cup {shot[s].image}
           /\ UNCHANGED disk
        \/ UNCHANGED <<disk, reported, unflushed>>
  /\ UNCHANGED <<second, shots, rivals>>

(* What `get_newest_image` may read: files of the same second are told      *)
(* apart by the order in which the directory lists them.                    *)
NewestImages(c) ==
  {n \in DOMAIN disk[c] : \A m \in DOMAIN disk[c] : disk[c][m].ctime <= disk[c][n].ctime}

-----------------------------------------------------------------------------
SecondPasses ==
  /\ second < MaxSecond
  /\ second' = second + 1
  /\ UNCHANGED <<shot, disk, shots, reported, rivals, unflushed>>

RestartCameras ==
  /\ announced' = {} /\ channels' = [c \in Camera |-> {}] /\ cameras' = {}
  /\ manager' = "free" /\ listeners' = "free"
  /\ visit' = [t \in Visit |-> NoVisit]
  /\ shot' = [s \in Client |-> NoVisit]
  /\ UNCHANGED <<disk, second, shots, reported, rivals, unflushed>>

VisitNext ==
  \E t \in Visit :
    \/ \E c \in Camera : Advertise(t, c)
    \/ Listen(t)
    \/ \E ch \in AllChannels : AddChannel(t, ch)
    \/ MakeCamera(t)

ShotNext ==
  \/ \E s \in Client :
       (\E c \in Camera : AskSnapshot(s, c)) \/ GetBytes(s) \/ Look(s) \/ Open(s) \/ WriteAll(s)
  \/ SecondPasses

IpCameraNext ==
  \/ VisitNext /\ UNCHANGED snapshots
  \/ ShotNext /\ UNCHANGED memory
  \/ RestartCameras

IpCameraSpec == IpCameraInit /\ [][IpCameraNext]_ipCameraVars

-----------------------------------------------------------------------------
(* Properties.                                                             *)

IpCameraTypeOK ==
  /\ announced \subseteq Camera /\ cameras \subseteq announced
  /\ channels \in [Camera -> SUBSET AllChannels]
  /\ manager \in {"free", "poisoned"} /\ listeners \in {"free", "poisoned"} \cup Visit
  /\ \A t \in Visit : visit[t].pc \in {"none", "waiting", "adding"}
  /\ \A s \in Client : shot[s].pc \in {"none", "get", "look", "open", "write"}
  /\ \A c \in Camera : DOMAIN disk[c] \subseteq (0 .. second) \X (0 .. MaxShots)
  /\ shots \in 0 .. MaxShots /\ second \in 0 .. MaxSecond

(* A camera whose service is registered answers on all its channels, for it *)
(* is in the maps of the adapter, unless its registration is under way or   *)
(* has failed; and once it has failed no listener is ever called again, so  *)
(* that no later advertisement takes the camera for one that works.         *)
CamerasAnswer ==
  /\ \A c \in cameras : channels[c] = AllChannels
  /\ \A c \in announced \ cameras :
       \/ listeners = "poisoned"
       \/ listeners \in Visit /\ visit[listeners] = Visiting("adding", c)

(* A snapshot that is reported as taken is on the disk, alone in its file,  *)
(* whatever is taken later and however often the box restarts, unless two   *)
(* were taken of a camera in the same second at the same time, or the disk  *)
(* failed last of all.  The newest image is not from an earlier second.     *)
SnapshotsKept ==
  \A r \in reported :
    /\ r.name \in DOMAIN disk[r.camera]
    /\ r.image \notin rivals \cup unflushed => disk[r.camera][r.name].images = {r.image}
    /\ \A n \in NewestImages(r.camera) : disk[r.camera][n].ctime >= r.name[1]
=============================================================================
