---------------------------- MODULE ManagedProcess ----------------------------
(***************************************************************************)
(* A child process that is kept running (src/managed_process.rs): the      *)
(* tunnel of the box (src/tunnel_controller.rs).                           *)
(*                                                                         *)
(* A monitoring thread spawns the child, waits for it, pauses and spawns   *)
(* it again.  The main thread shuts it down: it raises the kill signal,    *)
(* polls the child by its number and kills it, then joins the thread.  Both*)
(* wait for the same child with waitpid, which succeeds only once; and the *)
(* number of a child that has been waited for is free for another process. *)
(***************************************************************************)
EXTENDS Naturals

CONSTANTS
  Pid,       \* the process numbers
  Threshold  \* RESTART_TIME_THRESHOLD, in seconds

ASSUME ProcessAssumption == Threshold \in Nat \ {0}

VARIABLES
  process,      \* number -> what runs under it; "other" is not our child
  monitor,      \* the monitoring thread, and the child it waits for
  kill_signal,
  pid,          \* the number of the child last spawned, if any
  backoff,      \* Backoff: `seconds` have passed since `start_time`, if it is set
  shutdown      \* the call of `shutdown`, and the number it has read

processVars == <<process, monitor, kill_signal, pid, backoff, shutdown>>

(* An optional number is a set of at most one.                              *)
None == {}

(* Seconds are counted up to the threshold, which is all that matters.      *)
Seconds == 0 .. Threshold

(* `Tunnel::start`, then `ManagedProcess::start`.                           *)
ProcessInit ==
  /\ process = [p \in Pid |-> "none"]
  /\ monitor = [pc |-> "spawn", child |-> None]
  /\ kill_signal = FALSE
  /\ pid = None
  /\ backoff = [start_time |-> FALSE, seconds |-> 0, backoff |-> 1, pause |-> 0]
  /\ shutdown = [pc |-> "no", pid |-> None]

-----------------------------------------------------------------------------
(* The monitoring thread.  Both locks are held while it decides and spawns. *)

Spawn(p) ==
  /\ monitor.pc = "spawn"
  /\ ~kill_signal
  /\ process[p] = "none"
  /\ process' = [process EXCEPT ![p] = "child"]
  /\ monitor' = [pc |-> "wait", child |-> {p}]
  /\ pid' = {p}
  /\ UNCHANGED <<kill_signal, backoff, shutdown>>

(* `spawn().unwrap()` panics and poisons the locks.                         *)
SpawnFails ==
  /\ monitor.pc = "spawn"
  /\ ~kill_signal
  /\ monitor' = [monitor EXCEPT !.pc = "poisoned"]
  /\ UNCHANGED <<process, kill_signal, pid, backoff, shutdown>>

MonitorStops ==
  /\ monitor.pc = "spawn"
  /\ kill_signal
  /\ monitor' = [monitor EXCEPT !.pc = "over"]
  /\ pid' = None
  /\ UNCHANGED <<process, kill_signal, backoff, shutdown>>

Pause(b) == (b * b) \div 2

(* Mutant: only a process that stays up resets the time.                    *)
NextBackoffSinceFirst ==
  [start_time |-> TRUE,
   seconds |-> 0,
   backoff |-> IF backoff.start_time THEN backoff.backoff + 1 ELSE 1,
   pause |-> IF backoff.start_time THEN Pause(backoff.backoff + 1) ELSE 0]

(* `Backoff::next_backoff`: the time is that since its last call, the pause *)
(* then decided included.                                                   *)
NextBackoff ==
  LET soon == backoff.start_time /\ backoff.seconds < Threshold
      late == backoff.start_time /\ ~soon
      b == IF soon THEN backoff.backoff + 1 ELSE IF late THEN 1 ELSE backoff.backoff
  IN [start_time |-> TRUE, seconds |-> 0, backoff |-> b,
      pause |-> IF soon THEN Pause(b) ELSE 0]

WaitReturns ==
  /\ monitor.pc = "wait"
  /\ \E p \in monitor.child :
       /\ process[p] = "zombie"
       /\ process' = [process EXCEPT ![p] = "none"]
  /\ monitor' = [pc |-> "sleep", child |-> None]
  /\ backoff' = NextBackoff
  /\ UNCHANGED <<kill_signal, pid, shutdown>>

(* The child has been waited for by `shutdown`: `wait().unwrap()` panics.   *)
WaitFails ==
  /\ monitor.pc = "wait"
  /\ \A p \in monitor.child : process[p] \in {"none", "other"}
  /\ monitor' = [monitor EXCEPT !.pc = "panicked"]
  /\ UNCHANGED <<process, kill_signal, pid, backoff, shutdown>>

(* The pause is over, or a little longer.                                   *)
WakeUp ==
  /\ monitor.pc = "sleep"
  /\ monitor' = [monitor EXCEPT !.pc = "spawn"]
  /\ \E s \in Seconds :
       /\ s >= IF backoff.pause < Threshold THEN backoff.pause ELSE Threshold
       /\ backoff' = [backoff EXCEPT !.seconds = s]
  /\ UNCHANGED <<process, kill_signal, pid, shutdown>>

MonitorStep ==
  \/ \E p \in Pid : Spawn(p)
  \/ SpawnFails \/ MonitorStops \/ WaitReturns \/ WaitFails \/ WakeUp

-----------------------------------------------------------------------------
(* `shutdown`, in the main thread.                                          *)

(* Mutant: the thread is not told to stop.                                  *)
RaiseNothing ==
  /\ shutdown.pc = "no"
  /\ shutdown' = [shutdown EXCEPT !.pc = IF monitor.pc = "poisoned" THEN "panicked" ELSE "get_pid"]
  /\ UNCHANGED <<process, monitor, kill_signal, pid, backoff>>

(* A lock that the monitoring thread has poisoned makes it panic at once.   *)
RaiseKillSignal ==
  /\ shutdown.pc = "no"
  /\ IF monitor.pc = "poisoned"
     THEN shutdown' = [shutdown EXCEPT !.pc = "panicked"] /\ UNCHANGED kill_signal
     ELSE shutdown' = [shutdown EXCEPT !.pc = "get_pid"] /\ kill_signal' = TRUE
  /\ UNCHANGED <<process, monitor, pid, backoff>>

(* Mutant: without a child, the thread is not joined.                       *)
GetPidUnjoined ==
  /\ shutdown.pc = "get_pid"
  /\ shutdown' = [pc |-> IF pid = None THEN "returned" ELSE "try_wait", pid |-> pid]
  /\ UNCHANGED <<process, monitor, kill_signal, pid, backoff>>

GetPid ==
  /\ shutdown.pc = "get_pid"
  /\ shutdown' = [pc |-> IF pid = None THEN "join" ELSE "try_wait", pid |-> pid]
  /\ UNCHANGED <<process, monitor, kill_signal, pid, backoff>>

(* `waitpid` without blocking takes the child if it has exited, fails on a  *)
(* number that is free, and on another process unless it happens to be a    *)
(* child of the box too.                                                    *)
TryWait ==
  /\ shutdown.pc = "try_wait"
  /\ \E p \in shutdown.pid, next \in {"kill", "join"} :
       /\ process[p] = "child" => next = "kill"
       /\ process[p] \in {"none", "zombie"} => next = "join"
       /\ process' = [process EXCEPT ![p] = IF @ = "zombie" THEN "none" ELSE @]
       /\ shutdown' = [shutdown EXCEPT !.pc = next]
  /\ UNCHANGED <<monitor, kill_signal, pid, backoff>>

(* SIGKILL, to whatever runs under the number by now.                       *)
Kill ==
  /\ shutdown.pc = "kill"
  /\ \E p \in shutdown.pid :
       process' = [process EXCEPT ![p] =
         CASE @ = "child" -> "zombie" [] @ = "other" -> "none" [] OTHER -> @]
  /\ shutdown' = [shutdown EXCEPT !.pc = "join"]
  /\ UNCHANGED <<monitor, kill_signal, pid, backoff>>

(* Joining a thread that has panicked panics.                               *)
JoinThread ==
  /\ shutdown.pc = "join"
  /\ monitor.pc \in {"over", "panicked"}
  /\ shutdown' = [shutdown EXCEPT !.pc = IF monitor.pc = "over" THEN "returned" ELSE "panicked"]
  /\ UNCHANGED <<process, monitor, kill_signal, pid, backoff>>

ShutdownStep == GetPid \/ TryWait \/ Kill \/ JoinThread

-----------------------------------------------------------------------------
(* The system.  The child runs for a while.                                 *)

ChildExits(p) ==
  /\ process[p] = "child"
  /\ process' = [process EXCEPT ![p] = "zombie"]
  /\ \E s \in Seconds : s >= backoff.seconds /\ backoff' = [backoff EXCEPT !.seconds = s]
  /\ UNCHANGED <<monitor, kill_signal, pid, shutdown>>

OtherStarts(p) ==
  /\ process[p] = "none"
  /\ process' = [process EXCEPT ![p] = "other"]
  /\ UNCHANGED <<monitor, kill_signal, pid, backoff, shutdown>>

OtherEnds(p) ==
  /\ process[p] = "other"
  /\ process' = [process EXCEPT ![p] = "none"]
  /\ UNCHANGED <<monitor, kill_signal, pid, backoff, shutdown>>

ProcessNext ==
  \/ MonitorStep
  \/ RaiseKillSignal \/ ShutdownStep
  \/ \E p \in Pid : ChildExits(p) \/ OtherStarts(p) \/ OtherEnds(p)

ProcessSpec == ProcessInit /\ [][ProcessNext]_processVars

(* Both threads run on.  Nobody has to call `shutdown`, and the child may   *)
(* run for ever.                                                            *)
FairProcessSpec ==
  ProcessSpec /\ WF_processVars(MonitorStep) /\ WF_processVars(ShutdownStep)

-----------------------------------------------------------------------------
(* Properties.  The type invariant:                                         *)
ProcessTypeOK ==
  /\ process \in [Pid -> {"none", "child", "zombie", "other"}]
  /\ monitor \in [pc : {"spawn", "wait", "sleep", "over", "panicked", "poisoned"},
                  child : {None} \cup {{p} : p \in Pid}]
  /\ kill_signal \in BOOLEAN
  /\ pid \in {None} \cup {{p} : p \in Pid}
  /\ backoff \in [start_time : BOOLEAN, seconds : Seconds, backoff : Nat, pause : Nat]
  /\ shutdown \in [pc : {"no", "get_pid", "try_wait", "kill", "join", "returned", "panicked"},
                   pid : {None} \cup {{p} : p \in Pid}]

(* Once `shutdown` is over, even by a panic, no child runs and none will:   *)
(* whoever of the two threads waited for it, and although the number that   *)
(* was polled may be out of date.                                           *)
NothingLeftRunning ==
  shutdown.pc \in {"returned", "panicked"} =>
    /\ \A p \in Pid : process[p] # "child"
    /\ monitor.pc \in {"over", "panicked", "poisoned"}

(* `shutdown` comes to an end, whatever the monitoring thread was doing.    *)
ShutdownReturns == (shutdown.pc # "no") ~> (shutdown.pc \in {"returned", "panicked"})

(* The pauses between two runs are bounded, however quickly the child fails *)
(* each time: since they count as running time, one that reaches the        *)
(* threshold is the last before they start from zero.  With a threshold of  *)
(* 5 seconds no pause is longer than 8.                                     *)
PausesBounded ==
  backoff.pause > 0 => Pause(backoff.backoff - 1) < Threshold
=============================================================================
