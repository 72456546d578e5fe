------------------------- MODULE ThinkerbellAdapter -------------------------
(***************************************************************************)
(* The adapter that gives the scripts to the rest of the box               *)
(* (src/adapters/thinkerbell/mod.rs), composed with ScriptManager.         *)
(*                                                                         *)
(* Its main loop is one thread with one channel.  It owns the manager, so  *)
(* it waits for every method it calls.  Those who set a value, users and   *)
(* executions of scripts alike, post a RespondToSetter and block until the *)
(* main loop answers.  Each stored script is presented as a service; the   *)
(* loop adds and removes services by messages it posts to itself, after    *)
(* the method of the manager has returned.  To add a service is five calls *)
(* of the taxonomy (Registry.tla), any of which may return an error.       *)
(***************************************************************************)
EXTENDS ScriptManager, Sequences, FiniteSets

CONSTANTS
  User,          \* users, each with at most one request under way
  Statement      \* script -> the requests its rules may make to this adapter

Request(op, id, source) == [op |-> op, id |-> id, source |-> source]
SetterRequest ==
  [op : {"put"}, id : ScriptId, source : Source]
    \cup [op : {"enable", "disable", "remove"}, id : ScriptId, source : {Nobody}]

ASSUME ThinkerbellAdapterAssumption == Statement \in [ScriptId -> SUBSET SetterRequest]

VARIABLES
  phase,     \* "loading" (in `init`), "up" (the main loop runs) or "down" (`init` failed)
  queue,     \* the channel of the main loop
  rules,     \* scripts that have a ThinkerbellRule, hence a service
  half,      \* scripts without a rule for which a call that failed left part of a service
  serving,   \* the setter request in progress, then the message the loop is
             \* about to post to itself, or Nothing
  waiting,   \* user or script -> whether it is blocked on an answer
  (* History, read by no action:                                           *)
  unserved,  \* scripts whose service could not be added when it was last asked for
  orphaned   \* scripts whose removal failed since they were last put

services == <<rules, half, unserved>>
adapterVars == <<phase, queue, services, serving, waiting, orphaned>>
allVars == <<managerVars, adapterVars>>

Sender == User \cup ScriptId
Nothing == [kind |-> "nothing"]
RespondToSetter(from, r) == [kind |-> "set", from |-> from, request |-> r]
AddRuleService(id) == [kind |-> "add", id |-> id]
RemoveRuleService(id) == [kind |-> "remove", id |-> id]

ThinkAction ==
  [kind : {"set"}, from : Sender, request : SetterRequest]
    \cup [kind : {"add", "remove"}, id : ScriptId]

AdapterInit ==
  /\ ManagerInit
  /\ phase = "up"
  /\ queue = <<>>
  /\ rules = {}
  /\ half = {}
  /\ unserved = {}
  /\ serving = Nothing
  /\ waiting = [s \in Sender |-> FALSE]
  /\ orphaned = {}

-----------------------------------------------------------------------------
(* `send_values`.  The setter must exist: "Add Rule" always does, the      *)
(* others belong to the service of their script, and the one that removes  *)
(* the script, which is added last, is in no half of a service.            *)
HasSetter(r) ==
  r.op = "put" \/ r.id \in rules \/ (r.id \in half /\ r.op # "remove")

Post(from, r) ==
  /\ phase = "up"
  /\ ~waiting[from]
  /\ HasSetter(r)
  /\ queue' = Append(queue, RespondToSetter(from, r))
  /\ waiting' = [waiting EXCEPT ![from] = TRUE]
  /\ UNCHANGED <<managerVars, phase, services, serving, orphaned>>

UserRequests(u) == \E r \in SetterRequest : Post(u, r)

(* A statement of a rule is sent by the thread of the execution.            *)
StatementRequests(id) ==
  /\ execution[id] = "live"
  /\ \E r \in Statement[id] : Post(id, r)

-----------------------------------------------------------------------------
(* The main loop.                                                          *)

Receive(msg) ==
  /\ phase = "up"
  /\ serving = Nothing
  /\ queue # <<>>
  /\ Head(queue) = msg
  /\ queue' = Tail(queue)
  /\ UNCHANGED <<phase, orphaned>>

(* `add_rule_service`: it fails at the first call when the tags cannot be   *)
(* read, or when part of the service is there already (DuplicateService),  *)
(* and at any later one.  What was added stays; no rule is recorded.       *)
AddService(id) ==
  \/ /\ id \notin half
     /\ rules' = rules \cup {id}
     /\ unserved' = unserved \ {id}
     /\ UNCHANGED half
  \/ /\ half' \in {half, half \cup {id}}
     /\ unserved' = unserved \cup {id}
     /\ UNCHANGED rules

(* A script that is put again keeps its service.  An error is only logged.  *)
HandleAddRuleService(id) ==
  /\ Receive(AddRuleService(id))
  /\ IF id \in rules THEN UNCHANGED services ELSE AddService(id)
  /\ UNCHANGED <<managerVars, serving, waiting>>

HandleRemoveRuleService(id) ==
  /\ Receive(RemoveRuleService(id))
  /\ rules' = rules \ {id}
  /\ unserved' = unserved \ {id}
  /\ UNCHANGED half
  /\ UNCHANGED <<managerVars, serving, waiting>>

(* The request becomes a call of the manager.                               *)
HandleSetter(from, r) ==
  /\ Receive(RespondToSetter(from, r))
  /\ \/ r.op = "put" /\ PutScript(r.id, r.source)
     \/ r.op = "enable" /\ SetEnabled(r.id, TRUE)
     \/ r.op = "disable" /\ SetEnabled(r.id, FALSE)
     \/ r.op = "remove" /\ RemoveScript(r.id)
  /\ r.op = "put" \/ r.id \in rules
  /\ serving' = RespondToSetter(from, r)
  /\ UNCHANGED <<services, waiting>>

(* Mutant: a request for a setter that is gone is not answered.             *)
HandleStaleSetterSilently(from, r) ==
  /\ Receive(RespondToSetter(from, r))
  /\ r.op # "put" /\ r.id \notin rules
  /\ UNCHANGED <<managerVars, services, serving, waiting>>

(* The service went away since the request was posted: NoSuchSetter.        *)
HandleStaleSetter(from, r) ==
  /\ Receive(RespondToSetter(from, r))
  /\ r.op # "put" /\ r.id \notin rules
  /\ waiting' = [waiting EXCEPT ![from] = FALSE]
  /\ UNCHANGED <<managerVars, services, serving>>

(* Mutant: the service is not removed.                                      *)
FollowUpOfPut ==
  IF call.op = "put" /\ call.pc = "ok" THEN AddRuleService(call.id) ELSE Nothing

(* The messages the loop posts to itself once the manager has answered:    *)
(* after a put that succeeded, and after every remove.                     *)
FollowUp ==
  CASE call.op = "put" /\ call.pc = "ok" -> AddRuleService(call.id)
    [] call.op = "remove" -> RemoveRuleService(call.id)
    [] OTHER -> Nothing

(* The answer goes first: its receiver may post before the loop does.       *)
AnswerSetter ==
  /\ serving.kind = "set"
  /\ TakeResult
  /\ waiting' = [waiting EXCEPT ![serving.from] = FALSE]
  /\ serving' = FollowUp
  /\ orphaned' = CASE call.op = "put" /\ call.pc = "ok" -> orphaned \ {call.id}
                   [] call.op = "remove" /\ call.pc = "error" -> orphaned \cup {call.id}
                   [] OTHER -> orphaned
  /\ UNCHANGED <<phase, queue, services>>

PostFollowUp ==
  /\ serving.kind \in {"add", "remove"}
  /\ queue' = Append(queue, serving)
  /\ serving' = Nothing
  /\ UNCHANGED <<managerVars, phase, services, waiting, orphaned>>

(* The manager goes on with its method.  The thread of an execution takes  *)
(* Stop from its channel only when it is not blocked on an answer itself.  *)
ManagerGoesOn ==
  /\ \/ Lookup \/ LaunchValid \/ LaunchBroken \/ Insert \/ Update \/ Delete \/ LoadNext
     \/ StopAcknowledged /\ ~waiting[call.id]
  /\ UNCHANGED adapterVars

(* `init` posts an AddRuleService per row, in an arbitrary order.           *)
InitSucceeds ==
  /\ phase = "loading"
  /\ TakeResult
  /\ phase' = "up"
  /\ LET n == Cardinality(DOMAIN scripts) IN
       \E order \in [1..n -> DOMAIN scripts] :
         /\ \A i, j \in 1..n : i # j => order[i] # order[j]
         /\ queue' = [i \in 1..n |-> AddRuleService(order[i])]
  /\ UNCHANGED <<services, serving, waiting, orphaned>>

InitFails ==
  /\ phase = "loading"
  /\ DropManager
  /\ phase' = "down"
  /\ UNCHANGED <<queue, services, serving, waiting, orphaned>>

MainStep ==
  \/ \E id \in ScriptId : HandleAddRuleService(id) \/ HandleRemoveRuleService(id)
  \/ \E from \in Sender, r \in SetterRequest :
       HandleSetter(from, r) \/ HandleStaleSetter(from, r)
  \/ AnswerSetter \/ PostFollowUp \/ ManagerGoesOn \/ InitSucceeds \/ InitFails

-----------------------------------------------------------------------------

AdapterExecutionPanics(id) ==
  /\ ~waiting[id]
  /\ ExecutionPanics(id)
  /\ UNCHANGED adapterVars

AdapterCrash ==
  /\ Crash
  /\ phase' = "loading"
  /\ queue' = <<>>
  /\ rules' = {}
  /\ half' = {}
  /\ unserved' = {}
  /\ serving' = Nothing
  /\ waiting' = [s \in Sender |-> FALSE]
  /\ orphaned' = {}

AdapterNext ==
  \/ \E u \in User : UserRequests(u)
  \/ \E id \in ScriptId : StatementRequests(id) \/ AdapterExecutionPanics(id)
  \/ MainStep
  \/ AdapterCrash

AdapterSpec == AdapterInit /\ [][AdapterNext]_allVars

(* The main loop and the threads that acknowledge Stop keep running.        *)
FairAdapterSpec == AdapterSpec /\ WF_allVars(MainStep)

-----------------------------------------------------------------------------
(* Properties.                                                             *)

(* Type invariant.                                                          *)
AdapterTypeOK ==
  /\ ManagerTypeOK
  /\ phase \in {"loading", "up", "down"}
  /\ queue \in Seq(ThinkAction)
  /\ rules \subseteq ScriptId
  /\ half \subseteq ScriptId
  /\ unserved \subseteq ScriptId
  /\ serving \in ThinkAction \cup {Nothing}
  /\ waiting \in [Sender -> BOOLEAN]
  /\ orphaned \subseteq ScriptId

(* Each caller that is blocked has exactly one request, in the channel or  *)
(* being served: its answer can be neither lost nor given twice.  All that  *)
(* the adapter holds is of its type.                                        *)
OneRequestPerCaller ==
  /\ AdapterTypeOK
  /\ \A s \in Sender :
       Cardinality({i \in DOMAIN queue : queue[i].kind = "set" /\ queue[i].from = s})
         + (IF serving.kind = "set" /\ serving.from = s THEN 1 ELSE 0)
       = IF waiting[s] THEN 1 ELSE 0

(* What the messages of the channel about the service of a script will     *)
(* leave, but for additions that fail: the last of them decides.           *)
Updates(id) == {i \in DOMAIN queue : queue[i].kind # "set" /\ queue[i].id = id}
WillBeAsked(id) ==
  IF Updates(id) = {}
    THEN id \in rules \cup unserved
    ELSE \E i \in Updates(id) :
           (\A j \in Updates(id) : j <= i) /\ queue[i].kind = "add"

(* mod.rs:177 and 199 "The script has already been started with            *)
(* ScriptManager", "removed from ScriptManager at this point": once the    *)
(* messages under way are handled the services are those of the scripts    *)
(* stored, in whatever order users and scripts put, disable and remove     *)
(* them and whatever fails.  Two exceptions are named: a script whose       *)
(* removal failed is stored and has no service (`orphaned`), and a script   *)
(* whose service could not be added when it was last asked for is stored    *)
(* and has none, or half of one (`unserved`), never a whole one.            *)
ServicesMatchStored ==
  phase = "up" /\ serving = Nothing =>
    /\ \A id \in ScriptId : WillBeAsked(id) <=> id \in DOMAIN scripts \ orphaned
    /\ rules \cap (unserved \cup half) = {}

(* Every setter request is answered, or cut short by a crash, unless the   *)
(* main loop waits for an execution that waits for the main loop.           *)
Stuck == call.pc = "stopping" /\ waiting[call.id]
AnsweredUnlessStuck == \A s \in Sender : waiting[s] ~> (~waiting[s] \/ Stuck)

-----------------------------------------------------------------------------
(* What the code says, and does not do: see the README.                     *)

(* mod.rs:234 "Respond to a pending Setter request": every one is answered, *)
(* or cut short by a crash.                                                 *)
SettersAnswered == \A s \in Sender : waiting[s] ~> ~waiting[s]
=============================================================================
