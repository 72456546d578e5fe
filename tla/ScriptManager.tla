---------------------------- MODULE ScriptManager ----------------------------
(***************************************************************************)
(* The scripts of Thinkerbell (components/thinkerbell/src/manager.rs,      *)
(* `ScriptManager`): a table of rows in SQLite, which survives a crash of  *)
(* the box, and a map of executions, which does not.                       *)
(*                                                                         *)
(* One thread owns the manager and calls it, one method at a time.  A      *)
(* method is several steps: each SQL statement may fail on its own, a stop *)
(* waits for the thread of the execution, which may have panicked, and the *)
(* box may crash between any two steps.  pc tells which step is next.      *)
(***************************************************************************)
EXTENDS HashMap

CONSTANTS
  ScriptId,      \* the names of the scripts
  Source,        \* the sources a user may submit
  Valid,         \* the sources that parse and compile
  SqlMayFail,    \* whether opening the database or a statement may fail
  MayPanic       \* whether the thread of an execution may panic

ASSUME ScriptManagerAssumption ==
  /\ Valid \subseteq Source
  /\ SqlMayFail \in BOOLEAN
  /\ MayPanic \in BOOLEAN

VARIABLES
  scripts,        \* the rows: script -> its source and is_enabled
  runners,        \* script -> source of its execution
  execution,      \* script -> its thread: "none", "live" or "panicked"
  call,           \* the method in progress
  removed,        \* history: scripts whose last remove returned Ok
  unsaved         \* history: scripts of which a statement failed since their
                  \*          row was last written

durable == <<scripts>>
executions == <<runners, execution>>
history == <<removed, unsaved>>
managerVars == <<durable, executions, call, history>>

Row(source, is_enabled) == [source |-> source, is_enabled |-> is_enabled]

Nobody == "nobody"
Call(op, id, source, pc, todo) ==
  [op |-> op, id |-> id, source |-> source, pc |-> pc, todo |-> todo]
Idle == Call("none", Nobody, Nobody, "idle", {})

Busy == {"lookup", "stopping", "launch", "insert", "update", "delete", "next", "wipe"}
Over == {"ok", "error"}

(* The manager has just been created on an empty database.                  *)
ManagerInit ==
  /\ scripts = EmptyMap
  /\ runners = EmptyMap
  /\ execution = [id \in ScriptId |-> "none"]
  /\ call = Idle
  /\ removed = {} /\ unsaved = {}

-----------------------------------------------------------------------------
(* Parts of a method.                                                      *)

Goto(pc) == call' = [call EXCEPT !.pc = pc]

(* The method returns Ok.  The history remembers what it promised.          *)
ReturnOk ==
  /\ Goto("ok")
  /\ removed' = IF call.op = "remove" THEN removed \cup {call.id} ELSE removed

(* A step fails: `try!` returns the error, but the loops over all scripts  *)
(* record it and go on.                                                    *)
Fail ==
  /\ Goto(IF call.op \in {"remove_all", "load"} THEN "next" ELSE "error")
  /\ UNCHANGED removed

SqlFails ==
  /\ SqlMayFail
  /\ unsaved' = unsaved \cup {call.id}
  /\ Fail

(* The row of the script, or all rows, are now those of new.                *)
RowsWritten(new) ==
  /\ scripts' = new
  /\ unsaved' = unsaved \ {call.id}

(* Mutant: the old execution is forgotten, not stopped.                     *)
StopOldForgotten(c) ==
  /\ runners' = Drop(runners, {c.id})
  /\ call' = [c EXCEPT !.pc = "launch"]

(* The first half of `start_script`: when an execution of the script is    *)
(* under way, take it out of the map and send it Stop.                     *)
StopOld(c) ==
  /\ runners' = Drop(runners, {c.id})
  /\ call' = [c EXCEPT !.pc = IF c.id \in DOMAIN runners THEN "stopping" ELSE "launch"]

-----------------------------------------------------------------------------
(* Calls.  A new promise about a script ends the promises made before.      *)

Renewed(id) == removed' = removed \ {id} /\ UNCHANGED unsaved

PutScript(id, source) ==
  /\ call = Idle
  /\ StopOld(Call("put", id, source, "launch", {}))
  /\ Renewed(id)
  /\ UNCHANGED <<durable, execution>>

SetEnabled(id, enabled) ==
  /\ call = Idle
  /\ call' = Call(IF enabled THEN "enable" ELSE "disable", id, Nobody, "lookup", {})
  /\ IF enabled THEN Renewed(id) ELSE UNCHANGED history
  /\ UNCHANGED <<durable, executions>>

RemoveScript(id) ==
  /\ call = Idle
  /\ call' = Call("remove", id, Nobody, "lookup", {})
  /\ UNCHANGED <<durable, executions, history>>

RemoveAll ==
  /\ call = Idle
  /\ call' = Call("remove_all", Nobody, Nobody, "next", DOMAIN runners)
  /\ UNCHANGED <<durable, executions, history>>

(* The owner of the manager has the result of the method.                   *)
TakeResult ==
  /\ call.pc \in Over
  /\ call.op # "load" \/ call.pc = "ok"
  /\ call' = Idle
  /\ UNCHANGED <<durable, executions, history>>

-----------------------------------------------------------------------------
(* Steps of the methods.                                                   *)

(* `get_source_and_owner`, then what `set_enabled` finds to do: stop,      *)
(* launch the stored source, or nothing at all.                            *)
Lookup ==
  /\ call.pc = "lookup"
  /\ \/ /\ SqlFails
        /\ UNCHANGED runners
     \/ /\ call.id \notin DOMAIN scripts       \* NoSuchScriptError
        /\ Fail
        /\ UNCHANGED <<runners, unsaved>>
     \/ /\ call.id \in DOMAIN scripts
        /\ UNCHANGED unsaved
        /\ \/ /\ (call.op = "enable") # (call.id \in DOMAIN runners)
              /\ StopOld([call EXCEPT !.source = scripts[call.id].source])
              /\ UNCHANGED removed
           \/ /\ (call.op = "enable") = (call.id \in DOMAIN runners)
              /\ UNCHANGED runners
              /\ IF call.op \in {"remove", "remove_all"}
                   THEN Goto("delete") /\ UNCHANGED removed
                   ELSE ReturnOk
  /\ UNCHANGED <<durable, execution>>

(* The wait for the acknowledgment of Stop.  A thread that has panicked    *)
(* never sends it: `start_script` does not mind, `set_enabled` returns     *)
(* ThreadError before it has written the row.                              *)
StopAcknowledged ==
  /\ call.pc = "stopping"
  /\ execution' = [execution EXCEPT ![call.id] = "none"]
  /\ \/ call.op = "put" /\ Goto("launch") /\ UNCHANGED removed
     \/ call.op # "put" /\ execution[call.id] = "live"
          /\ Goto("update") /\ UNCHANGED removed
     \/ call.op # "put" /\ execution[call.id] = "panicked" /\ Fail
  /\ UNCHANGED <<durable, runners, unsaved>>

(* Mutant: enabling a script launches it and leaves its row as it was.      *)
LaunchWithoutUpdate ==
  /\ call.pc = "launch"
  /\ call.source \in Valid
  /\ runners' = Put(runners, call.id, call.source)
  /\ execution' = [execution EXCEPT ![call.id] = "live"]
  /\ Goto(CASE call.op = "put" -> "insert"
            [] call.op = "enable" -> "ok"
            [] call.op = "load" -> "next")
  /\ UNCHANGED <<durable, removed, unsaved>>

(* The second half of `start_script`: parse, compile, run.                  *)
LaunchValid ==
  /\ call.pc = "launch"
  /\ call.source \in Valid
  /\ runners' = Put(runners, call.id, call.source)
  /\ execution' = [execution EXCEPT ![call.id] = "live"]
  /\ Goto(CASE call.op = "put" -> "insert"
            [] call.op = "enable" -> "update"
            [] call.op = "load" -> "next")
  /\ UNCHANGED <<durable, removed, unsaved>>

LaunchBroken ==
  /\ call.pc = "launch"
  /\ call.source \notin Valid
  /\ Fail
  /\ UNCHANGED <<durable, executions, unsaved>>

(* INSERT OR REPLACE of `put`.                                              *)
Insert ==
  /\ call.pc = "insert"
  /\ \/ RowsWritten(Put(scripts, call.id, Row(call.source, TRUE))) /\ ReturnOk
     \/ SqlFails /\ UNCHANGED scripts
  /\ UNCHANGED executions

(* UPDATE of is_enabled.                                                    *)
Update ==
  /\ call.pc = "update"
  /\ \/ /\ RowsWritten([scripts EXCEPT ![call.id].is_enabled = (call.op = "enable")])
        /\ IF call.op \in {"remove", "remove_all"}
             THEN Goto("delete") /\ UNCHANGED removed
             ELSE ReturnOk
     \/ SqlFails /\ UNCHANGED scripts
  /\ UNCHANGED executions

(* Mutant: the error of the statement is ignored.                           *)
DeleteUnchecked ==
  /\ call.pc = "delete"
  /\ \/ RowsWritten(Drop(scripts, {call.id}))
     \/ SqlMayFail /\ UNCHANGED <<scripts, unsaved>>
  /\ IF call.op = "remove" THEN ReturnOk ELSE Goto("next") /\ UNCHANGED removed
  /\ UNCHANGED executions

(* DELETE of `remove`, which may be called by `remove_all`.                 *)
Delete ==
  /\ call.pc = "delete"
  /\ \/ /\ RowsWritten(Drop(scripts, {call.id}))
        /\ IF call.op = "remove"
             THEN ReturnOk
             ELSE Goto("next") /\ UNCHANGED removed
     \/ SqlFails /\ UNCHANGED scripts
  /\ UNCHANGED executions

(* `remove_all` takes the next of the scripts that were running, then      *)
(* deletes every row.                                                      *)
RemoveNext ==
  /\ call.op = "remove_all" /\ call.pc = "next"
  /\ \/ \E id \in call.todo :
          call' = [call EXCEPT !.id = id, !.pc = "lookup", !.todo = @ \ {id}]
     \/ call.todo = {} /\ Goto("wipe")
  /\ UNCHANGED <<durable, executions, history>>

Wipe ==
  /\ call.pc = "wipe"
  /\ \/ scripts' = EmptyMap /\ ReturnOk
     \/ SqlMayFail /\ Goto("error") /\ UNCHANGED <<scripts, removed>>
  /\ UNCHANGED <<executions, unsaved>>

(* `load` reads the next row and launches it when it is enabled.            *)
LoadNext ==
  /\ call.op = "load" /\ call.pc = "next"
  /\ \/ \E id \in call.todo :
          call' = [call EXCEPT !.id = id, !.source = scripts[id].source,
                               !.pc = IF scripts[id].is_enabled THEN "launch" ELSE "next",
                               !.todo = @ \ {id}]
     \/ call.todo = {} /\ Goto("ok")
     \/ SqlMayFail /\ Goto("error")
  /\ UNCHANGED <<durable, executions, history>>

(* When `load` fails, so does the launch of the adapter, and the manager   *)
(* is dropped: every execution is sent Stop, and nobody waits.             *)
DropManager ==
  /\ call.op = "load" /\ call.pc = "error"
  /\ Goto("dropped")
  /\ runners' = EmptyMap
  /\ execution' = [id \in ScriptId |-> "none"]
  /\ UNCHANGED <<durable, history>>

ManagerStep ==
  \/ Lookup \/ StopAcknowledged \/ LaunchValid \/ LaunchBroken
  \/ Insert \/ Update \/ Delete \/ RemoveNext \/ Wipe \/ LoadNext
  \/ TakeResult \/ DropManager

-----------------------------------------------------------------------------
(* The environment of the manager.                                         *)

ExecutionPanics(id) ==
  /\ MayPanic
  /\ execution[id] = "live"
  /\ execution' = [execution EXCEPT ![id] = "panicked"]
  /\ UNCHANGED <<durable, runners, call, history>>

(* The box stops without notice, starts again and calls `load`.             *)
Crash ==
  /\ runners' = EmptyMap
  /\ execution' = [id \in ScriptId |-> "none"]
  /\ call' = Call("load", Nobody, Nobody, "next", DOMAIN scripts)
  /\ unsaved' = {}
  /\ UNCHANGED <<durable, removed>>

ManagerNext ==
  \/ \E id \in ScriptId, source \in Source : PutScript(id, source)
  \/ \E id \in ScriptId, enabled \in BOOLEAN : SetEnabled(id, enabled)
  \/ \E id \in ScriptId : RemoveScript(id) \/ ExecutionPanics(id)
  \/ RemoveAll
  \/ ManagerStep
  \/ Crash

ManagerSpec == ManagerInit /\ [][ManagerNext]_managerVars

-----------------------------------------------------------------------------
(* Properties.                                                             *)

(* Type invariant.                                                          *)
ManagerTypeOK ==
  /\ IsMap(scripts, ScriptId, [source : Source, is_enabled : BOOLEAN])
  /\ IsMap(runners, ScriptId, Source)
  /\ execution \in [ScriptId -> {"none", "live", "panicked"}]
  /\ call \in [op : {"none", "put", "enable", "disable", "remove", "remove_all", "load"},
              id : ScriptId \cup {Nobody}, source : Source \cup {Nobody},
              pc : {"idle", "dropped"} \cup Busy \cup Over, todo : SUBSET ScriptId]
  /\ removed \subseteq ScriptId
  /\ unsaved \subseteq ScriptId

(* No execution runs away: a thread belongs to the runner of its script or *)
(* has been sent Stop by the method in progress, so a script never has two *)
(* executions.                                                             *)
ExecutionsTracked ==
  \A id \in ScriptId :
    execution[id] # "none" <=>
      id \in DOMAIN runners \/ (call.pc = "stopping" /\ call.id = id)

(* "The database stores the raw script source, but only after the source   *)
(* has been parsed to ensure validity": put launches before it inserts.     *)
StoredSourcesValid ==
  \A id \in DOMAIN scripts : scripts[id].source \in Valid

(* Memory agrees with the database: unless one of its statements failed,   *)
(* a script that runs, other than the one a method is busy with, has a row *)
(* that is enabled and holds the source that runs.                          *)
RunningAsStored ==
  \A id \in DOMAIN runners :
    \/ id \in unsaved
    \/ call.id = id /\ call.pc \in Busy
    \/ id \in DOMAIN scripts /\ scripts[id] = Row(runners[id], TRUE)

(* A removal that returned Ok is final: the script has no row and no       *)
(* execution, whatever fails or restarts, until it is put again.            *)
RemovedIsGone ==
  \A id \in removed : id \notin DOMAIN scripts /\ execution[id] = "none"

(* "Load and launch all existing scripts": wherever the crash came, the    *)
(* scripts that run after a successful load are the rows that are enabled.  *)
LoadRunsEnabled ==
  call.op = "load" /\ call.pc = "ok" =>
    DOMAIN runners = {id \in DOMAIN scripts : scripts[id].is_enabled}

(* Whatever fails and wherever the box crashes, what runs, what is stored   *)
(* and what was valid agree in these three ways.                            *)
ManagerAsStored == StoredSourcesValid /\ RunningAsStored /\ LoadRunsEnabled
=============================================================================
