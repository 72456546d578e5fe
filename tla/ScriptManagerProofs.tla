------------------------- MODULE ScriptManagerProofs --------------------------
(***************************************************************************)
(* Proofs about the manager of the scripts of Thinkerbell, for any scripts *)
(* and sources, whatever statement fails, execution panics or method is    *)
(* cut short by a crash.                                                   *)
(***************************************************************************)
EXTENDS ScriptManager, FunctionTheorems, TLAPS

-----------------------------------------------------------------------------
(* The inductive invariant of the manager.  What ExecutionsTracked,        *)
(* ManagerAsStored and RemovedIsGone say between the methods has to be said *)
(* of each of their steps.                                                  *)

(* How far each method has got, and of which script.                        *)
CallInv ==
  /\ call.pc = "idle" => call = Idle
  /\ call.op = "none" => call.pc = "idle"
  /\ call.op = "put" =>
       call.pc \in {"stopping", "launch", "insert", "ok", "error"} /\ call.source \in Source
  /\ call.op = "enable" => call.pc \in {"lookup", "launch", "update", "ok", "error"}
  /\ call.op = "disable" => call.pc \in {"lookup", "stopping", "update", "ok", "error"}
  /\ call.op = "remove" => call.pc \in {"lookup", "stopping", "update", "delete", "ok", "error"}
  /\ call.op = "remove_all" =>
       call.pc \in {"next", "lookup", "stopping", "update", "delete", "wipe", "ok", "error"}
  /\ call.op = "load" =>
       call.pc \in {"next", "launch", "ok", "error", "dropped"} /\ call.todo \subseteq DOMAIN scripts
  /\ call.op \in {"put", "enable", "disable", "remove"} => call.id \in ScriptId
  /\ call.pc \in {"lookup", "stopping", "launch", "insert", "update", "delete"} =>
       call.id \in ScriptId

(* Where the script of the method has an execution.                         *)
RunnerInv ==
  /\ call.pc \in {"stopping", "launch", "delete"} => call.id \notin DOMAIN runners
  /\ call.pc = "insert" =>
       call.id \in DOMAIN runners /\ runners[call.id] = call.source /\ call.source \in Valid
  /\ call.pc = "update" =>
       IF call.op = "enable"
       THEN /\ call.id \in DOMAIN runners /\ call.id \in DOMAIN scripts
            /\ runners[call.id] = scripts[call.id].source
       ELSE call.id \notin DOMAIN runners
  /\ call.pc = "launch" /\ call.op # "put" =>
       /\ call.id \in DOMAIN scripts /\ call.source = scripts[call.id].source
       /\ call.op = "load" => scripts[call.id] = Row(call.source, TRUE)
  /\ call.pc \in {"stopping", "launch", "insert", "update"} /\ call.op \in {"put", "enable"} =>
       call.id \notin removed

(* What runs is what is stored, but while a method is about to write it.    *)
StoredInv ==
  \A id \in DOMAIN runners :
    \/ id \in unsaved
    \/ call.id = id /\ call.pc \in {"insert", "update"}
    \/ id \in DOMAIN scripts /\ scripts[id] = Row(runners[id], TRUE)

(* Remove_all has stopped all but those it is still to stop and those it    *)
(* could not look up.                                                       *)
WipeInv ==
  call.op = "remove_all" =>
    /\ call.pc = "wipe" => call.todo = {}
    /\ call.pc # "ok" =>
         \A id \in DOMAIN runners :
           id \in call.todo \/ id \in unsaved \/ (call.id = id /\ call.pc = "lookup")

(* Load has launched all but those it is still to launch.                   *)
IsEnabled(id) == scripts[id].is_enabled

LoadInv ==
  call.op = "load" =>
    /\ unsaved = {}
    /\ call.pc = "ok" => call.todo = {}
    /\ \A id \in call.todo : id \notin DOMAIN runners
    /\ call.pc = "launch" => call.id \notin call.todo
    /\ call.pc \in {"next", "launch", "ok"} =>
         \A id \in DOMAIN scripts :
           IsEnabled(id) =>
             \/ id \in DOMAIN runners \/ id \in call.todo
             \/ call.id = id /\ call.pc = "launch"

ManagerInv ==
  /\ ManagerTypeOK /\ CallInv /\ RunnerInv /\ StoredInv /\ WipeInv /\ LoadInv
  /\ ExecutionsTracked /\ StoredSourcesValid /\ RemovedIsGone

-----------------------------------------------------------------------------
(* Facts of the types.                                                     *)

RowData == [source : Source, is_enabled : BOOLEAN]
Op == {"none", "put", "enable", "disable", "remove", "remove_all", "load"}
Pc == {"idle", "dropped", "lookup", "stopping", "launch", "insert", "update", "delete", "next",
       "wipe", "ok", "error"}
CallData ==
  [op : Op, id : ScriptId \cup {Nobody}, source : Source \cup {Nobody}, pc : Pc,
   todo : SUBSET ScriptId]

LEMMA ManagerTypeParts ==
  ManagerTypeOK <=>
    /\ DOMAIN scripts \subseteq ScriptId /\ scripts \in [DOMAIN scripts -> RowData]
    /\ DOMAIN runners \subseteq ScriptId /\ runners \in [DOMAIN runners -> Source]
    /\ execution \in [ScriptId -> {"none", "live", "panicked"}]
    /\ call \in CallData
    /\ removed \subseteq ScriptId /\ unsaved \subseteq ScriptId
<1>1. {"idle", "dropped"} \cup Busy \cup Over = Pc
  BY DEF Busy, Over, Pc
<1> QED  BY <1>1 DEF ManagerTypeOK, IsMap, RowData, CallData, Op

LEMMA ManagerTypePartsNext ==
  ManagerTypeOK' <=>
    /\ DOMAIN scripts' \subseteq ScriptId /\ scripts' \in [DOMAIN scripts' -> RowData]
    /\ DOMAIN runners' \subseteq ScriptId /\ runners' \in [DOMAIN runners' -> Source]
    /\ execution' \in [ScriptId -> {"none", "live", "panicked"}]
    /\ call' \in CallData
    /\ removed' \subseteq ScriptId /\ unsaved' \subseteq ScriptId
<1>1. {"idle", "dropped"} \cup Busy \cup Over = Pc
  BY DEF Busy, Over, Pc
<1> QED  BY <1>1 DEF ManagerTypeOK, IsMap, RowData, CallData, Op

LEMMA RowFacts ==
  /\ \A source \in Source, b \in BOOLEAN :
       /\ Row(source, b) \in RowData
       /\ Row(source, b).source = source
  /\ \A source : Row(source, TRUE).is_enabled
  /\ \A row \in RowData : row.source \in Source
  /\ \A row \in RowData : row.is_enabled => row = Row(row.source, TRUE)
<1>1. \A source \in Source, b \in BOOLEAN :
        Row(source, b) \in RowData /\ Row(source, b).source = source
  BY DEF Row, RowData
<1>2. \A source : Row(source, TRUE).is_enabled
  BY Zenon DEF Row
<1>3. ASSUME NEW row \in RowData, row.is_enabled PROVE row = Row(row.source, TRUE)
  <2>1. row.is_enabled = TRUE  BY <1>3, Zenon DEF RowData
  <2>2. row = [source |-> row.source, is_enabled |-> row.is_enabled]
    BY DEF RowData
  <2> QED  BY <2>1, <2>2, Zenon DEF Row
<1>4. \A row \in RowData : row.source \in Source  BY DEF RowData
<1> QED  BY <1>1, <1>2, <1>3, <1>4

LEMMA GotoFacts ==
  ASSUME ManagerTypeOK, NEW pc \in Pc, Goto(pc)
  PROVE  /\ call' \in CallData /\ call'.pc = pc
         /\ call'.op = call.op /\ call'.id = call.id /\ call'.source = call.source
         /\ call'.todo = call.todo
<1>1. call \in CallData  BY ManagerTypeParts
<1> QED  BY <1>1 DEF Goto, CallData

LEMMA CallFacts ==
  ASSUME NEW op \in Op, NEW id \in ScriptId \cup {Nobody}, NEW source \in Source \cup {Nobody},
         NEW pc \in Pc, NEW todo \in SUBSET ScriptId
  PROVE  LET c == Call(op, id, source, pc, todo)
         IN /\ c \in CallData /\ c.op = op /\ c.id = id /\ c.source = source
            /\ c.pc = pc /\ c.todo = todo
  BY DEF Call, CallData

LEMMA IdleFacts ==
  /\ Idle \in CallData /\ Idle.op = "none" /\ Idle.pc = "idle" /\ Idle.id = Nobody
  /\ Idle.todo = {} /\ Idle.source = Nobody
  BY DEF Idle, Call, CallData, Op, Pc

LEMMA DropFacts ==
  ASSUME NEW m, NEW S
  PROVE  /\ DOMAIN Drop(m, S) = DOMAIN m \ S
         /\ \A x \in DOMAIN m \ S : Drop(m, S)[x] = m[x]
         /\ \A T : m \in [DOMAIN m -> T] => Drop(m, S) \in [DOMAIN m \ S -> T]
  BY DEF Drop, Restrict

-----------------------------------------------------------------------------
(* The invariant of the manager, step by step: the calls, ...              *)

LEMMA IdleCall ==
  ASSUME ManagerInv, call = Idle
  PROVE  /\ call.op = "none" /\ call.pc = "idle"
         /\ \A id \in DOMAIN runners :
              id \in unsaved \/ (id \in DOMAIN scripts /\ scripts[id] = Row(runners[id], TRUE))
         /\ \A id \in ScriptId : execution[id] # "none" <=> id \in DOMAIN runners
<1>1. call.op = "none" /\ call.pc = "idle"  BY IdleFacts
<1> QED  BY <1>1 DEF ManagerInv, StoredInv, ExecutionsTracked

LEMMA PutScriptKeeps ==
  ASSUME ManagerInv, NEW id \in ScriptId, NEW source \in Source, PutScript(id, source)
  PROVE  ManagerInv'
<1> DEFINE pc == IF id \in DOMAIN runners THEN "stopping" ELSE "launch"
           c == Call("put", id, source, "launch", {})
<1>1. /\ UNCHANGED <<scripts, execution, unsaved>> /\ removed' = removed \ {id}
      /\ runners' = Drop(runners, {id})
      /\ call' = [c EXCEPT !.pc = pc]
      /\ call = Idle
  <2>1. c.id = id  BY DEF Call
  <2> QED  BY <2>1 DEF PutScript, StopOld, Renewed, durable
<1>2. call' \in CallData /\ call'.op = "put" /\ call'.id = id /\ call'.source = source
      /\ call'.pc = pc /\ call'.todo = {}
  BY <1>1 DEF Call, CallData, Op, Pc
<1>3. DOMAIN runners' = DOMAIN runners \ {id} /\ \A x \in DOMAIN runners' : runners'[x] = runners[x]
  <2>1. /\ DOMAIN Drop(runners, {id}) = DOMAIN runners \ {id}
        /\ \A x \in DOMAIN runners \ {id} : Drop(runners, {id})[x] = runners[x]
    BY DropFacts
  <2> QED  BY <1>1, <2>1, Zenon
<1>p. \/ pc = "stopping" /\ id \in DOMAIN runners
      \/ pc = "launch" /\ id \notin DOMAIN runners
  OBVIOUS
<1> HIDE DEF pc, c
<1>4. /\ \A x \in DOMAIN runners :
           x \in unsaved \/ (x \in DOMAIN scripts /\ scripts[x] = Row(runners[x], TRUE))
      /\ \A x \in ScriptId : execution[x] # "none" <=> x \in DOMAIN runners
  BY <1>1, IdleCall
<1>5. ManagerTypeOK'
  <2>1. runners' \in [DOMAIN runners' -> Source]
    <3>1. Drop(runners, {id}) \in [DOMAIN runners \ {id} -> Source]
      BY DropFacts, ManagerTypeParts DEF ManagerInv
    <3> QED  BY <1>1, <1>3, <3>1
  <2> QED  BY <1>1, <1>2, <1>3, <2>1, ManagerTypeParts, ManagerTypePartsNext DEF ManagerInv
<1>6. CallInv' /\ RunnerInv' /\ WipeInv' /\ LoadInv'
  <2>1. CallInv'  BY <1>2, <1>p, IdleFacts DEF CallInv
  <2>2. removed' = removed \ {id}  BY <1>1
  <2>3. RunnerInv'  BY <1>2, <1>3, <1>p, <2>2 DEF RunnerInv
  <2>4. WipeInv' /\ LoadInv'  BY <1>2 DEF WipeInv, LoadInv
  <2> QED  BY <2>1, <2>3, <2>4
<1>7. StoredInv'
  BY <1>1, <1>3, <1>4 DEF StoredInv
<1>8. ExecutionsTracked'
  BY <1>1, <1>2, <1>3, <1>4, <1>p DEF ExecutionsTracked
<1>9. StoredSourcesValid' /\ RemovedIsGone'
  BY <1>1 DEF ManagerInv, StoredSourcesValid, RemovedIsGone
<1> QED  BY <1>5, <1>6, <1>7, <1>8, <1>9 DEF ManagerInv

LEMMA OtherCallsKeep ==
  ASSUME ManagerInv,
         \/ \E id \in ScriptId, enabled \in BOOLEAN : SetEnabled(id, enabled)
         \/ \E id \in ScriptId : RemoveScript(id)
         \/ RemoveAll
  PROVE  ManagerInv'
<1>1. /\ UNCHANGED <<scripts, runners, execution, unsaved>> /\ removed' \subseteq removed
      /\ call = Idle
      /\ \/ \E id \in ScriptId, op \in {"enable", "disable", "remove"} :
              call' = Call(op, id, Nobody, "lookup", {}) 
         \/ call' = Call("remove_all", Nobody, Nobody, "next", DOMAIN runners)
  <2>1. ASSUME NEW id \in ScriptId, NEW enabled \in BOOLEAN, SetEnabled(id, enabled)
        PROVE  /\ UNCHANGED <<scripts, runners, execution, unsaved>> /\ removed' \subseteq removed
               /\ call = Idle
               /\ \E op \in {"enable", "disable"} : call' = Call(op, id, Nobody, "lookup", {})
    <3>1. UNCHANGED <<scripts, runners, execution>> /\ call = Idle
      BY <2>1 DEF SetEnabled, durable, executions
    <3>2. UNCHANGED unsaved /\ removed' \subseteq removed
      BY <2>1 DEF SetEnabled, Renewed, history
    <3>3. call' = Call(IF enabled THEN "enable" ELSE "disable", id, Nobody, "lookup", {})
      BY <2>1 DEF SetEnabled
    <3> QED  BY <3>1, <3>2, <3>3
  <2>2. ASSUME NEW id \in ScriptId, RemoveScript(id)
        PROVE  /\ UNCHANGED <<scripts, runners, execution, unsaved, removed>> /\ call = Idle
               /\ call' = Call("remove", id, Nobody, "lookup", {})
    BY <2>2 DEF RemoveScript, history, durable, executions
  <2>3. ASSUME RemoveAll
        PROVE  /\ UNCHANGED <<scripts, runners, execution, unsaved, removed>> /\ call = Idle
               /\ call' = Call("remove_all", Nobody, Nobody, "next", DOMAIN runners)
    BY <2>3 DEF RemoveAll, history, durable, executions
  <2>4. CASE \E id \in ScriptId, enabled \in BOOLEAN : SetEnabled(id, enabled)
    <3>1. {"enable", "disable"} \subseteq {"enable", "disable", "remove"}  OBVIOUS
    <3> QED  BY <2>1, <2>4, <3>1
  <2>5. CASE \E id \in ScriptId : RemoveScript(id)  BY <2>2, <2>5
  <2>6. CASE RemoveAll  BY <2>3, <2>6
  <2> QED  BY <2>4, <2>5, <2>6
<1>2. DOMAIN runners \subseteq ScriptId
  BY ManagerTypeParts DEF ManagerInv
<1>3. /\ call' \in CallData
      /\ \/ call'.op \in {"enable", "disable", "remove"} /\ call'.pc = "lookup" /\ call'.id \in ScriptId
         \/ call'.op = "remove_all" /\ call'.pc = "next" /\ call'.todo = DOMAIN runners
  <2>0. /\ {"enable", "disable", "remove"} \subseteq Op /\ "remove_all" \in Op
        /\ "lookup" \in Pc /\ "next" \in Pc
    BY DEF Op, Pc
  <2>1. CASE call' = Call("remove_all", Nobody, Nobody, "next", DOMAIN runners)
    BY <1>2, <2>0, <2>1, CallFacts
  <2>2. ASSUME NEW id \in ScriptId, NEW op \in {"enable", "disable", "remove"},
               call' = Call(op, id, Nobody, "lookup", {})
        PROVE  call' \in CallData /\ call'.op = op /\ call'.pc = "lookup" /\ call'.id = id
    BY <2>0, <2>2, CallFacts
  <2> QED  BY <1>1, <2>1, <2>2
<1>4. /\ \A x \in DOMAIN runners :
           x \in unsaved \/ (x \in DOMAIN scripts /\ scripts[x] = Row(runners[x], TRUE))
      /\ \A x \in ScriptId : execution[x] # "none" <=> x \in DOMAIN runners
  BY <1>1, IdleCall
<1>5. ManagerTypeOK'
  BY <1>1, <1>3, ManagerTypeParts, ManagerTypePartsNext DEF ManagerInv
<1>6. CallInv' /\ RunnerInv' /\ WipeInv' /\ LoadInv'
  BY <1>1, <1>3, IdleFacts DEF CallInv, RunnerInv, WipeInv, LoadInv
<1>7. StoredInv'
  BY <1>1, <1>4 DEF StoredInv
<1>8. ExecutionsTracked'
  BY <1>1, <1>3, <1>4 DEF ExecutionsTracked
<1>9. StoredSourcesValid' /\ RemovedIsGone'
  BY <1>1 DEF ManagerInv, StoredSourcesValid, RemovedIsGone
<1> QED  BY <1>5, <1>6, <1>7, <1>8, <1>9 DEF ManagerInv

LEMMA TakeResultKeeps ==
  ASSUME ManagerInv, TakeResult
  PROVE  ManagerInv'
<1>1. /\ UNCHANGED <<scripts, runners, execution, unsaved, removed>> /\ call' = Idle
      /\ call.pc \in {"ok", "error"}
  BY DEF TakeResult, durable, executions, history, Over
<1>2. ManagerTypeOK'
  BY <1>1, IdleFacts, ManagerTypeParts, ManagerTypePartsNext DEF ManagerInv
<1>3. CallInv' /\ RunnerInv' /\ WipeInv' /\ LoadInv'
  BY <1>1, IdleFacts DEF CallInv, RunnerInv, WipeInv, LoadInv
<1>4. StoredInv' /\ ExecutionsTracked'
  BY <1>1, IdleFacts DEF ManagerInv, StoredInv, ExecutionsTracked
<1>5. StoredSourcesValid' /\ RemovedIsGone'
  BY <1>1 DEF ManagerInv, StoredSourcesValid, RemovedIsGone
<1> QED  BY <1>2, <1>3, <1>4, <1>5 DEF ManagerInv

(* ... the environment, ...                                                 *)
LEMMA EnvironmentKeeps ==
  ASSUME ManagerInv, DropManager \/ Crash \/ \E id \in ScriptId : ExecutionPanics(id)
  PROVE  ManagerInv'
<1>t. /\ DOMAIN scripts \subseteq ScriptId /\ scripts \in [DOMAIN scripts -> RowData]
      /\ execution \in [ScriptId -> {"none", "live", "panicked"}]
      /\ removed \subseteq ScriptId /\ unsaved \subseteq ScriptId
  BY ManagerTypeParts DEF ManagerInv
<1>1. CASE DropManager \/ Crash
  <2>1. /\ UNCHANGED <<scripts, removed>>
        /\ unsaved' \subseteq unsaved /\ (Crash => unsaved' = {}) /\ (DropManager => unsaved' = unsaved)
        /\ runners' = EmptyMap /\ execution' = [id \in ScriptId |-> "none"]
    BY <1>1 DEF DropManager, Crash, durable, history
  <2>2. /\ call' \in CallData /\ call'.op = "load"
        /\ \/ call'.pc = "dropped" /\ call'.todo = call.todo /\ DropManager
           \/ call'.pc = "next" /\ call'.todo = DOMAIN scripts /\ Crash
    <3>1. CASE DropManager
      BY <3>1, GotoFacts DEF DropManager, Pc, ManagerInv
    <3>2. CASE Crash
      <4>1. call' = Call("load", Nobody, Nobody, "next", DOMAIN scripts)
        BY <3>2 DEF Crash
      <4>2. DOMAIN scripts \in SUBSET ScriptId  BY <1>t
      <4>3. /\ call' \in CallData /\ call'.op = "load" /\ call'.pc = "next"
            /\ call'.todo = DOMAIN scripts
        BY <4>1, <4>2 DEF Call, CallData, Op, Pc
      <4> QED  BY <3>2, <4>3
    <3> QED  BY <1>1, <3>1, <3>2
  <2>3. DOMAIN runners' = {}  BY <2>1 DEF EmptyMap
  <2>4. ManagerTypeOK'
    <3>1. runners' \in [{} -> Source]  BY <2>1 DEF EmptyMap
    <3> QED  BY <1>t, <2>1, <2>2, <2>3, <3>1, ManagerTypePartsNext
  <2>5. CallInv' /\ RunnerInv' /\ WipeInv' /\ StoredInv'
    BY <2>1, <2>2, <2>3, IdleFacts DEF ManagerInv, CallInv, RunnerInv, WipeInv, StoredInv, DropManager
  <2>6. LoadInv'
    BY <2>1, <2>2, <2>3 DEF ManagerInv, LoadInv, DropManager
  <2>7. ExecutionsTracked' /\ StoredSourcesValid' /\ RemovedIsGone'
    BY <1>t, <2>1, <2>2, <2>3 DEF ManagerInv, ExecutionsTracked, StoredSourcesValid, RemovedIsGone
  <2> QED  BY <2>4, <2>5, <2>6, <2>7 DEF ManagerInv
<1>2. ASSUME NEW id \in ScriptId, ExecutionPanics(id) PROVE ManagerInv'
  <2>1. /\ UNCHANGED <<scripts, runners, call, removed, unsaved>>
        /\ execution[id] = "live" /\ execution' = [execution EXCEPT ![id] = "panicked"]
    BY <1>2 DEF ExecutionPanics, durable, history
  <2>2. ManagerTypeOK'
    BY <1>t, <2>1, ManagerTypeParts, ManagerTypePartsNext DEF ManagerInv
  <2>3. CallInv' /\ RunnerInv' /\ WipeInv' /\ StoredInv' /\ LoadInv'
    BY <2>1 DEF ManagerInv, CallInv, RunnerInv, WipeInv, StoredInv, LoadInv, IsEnabled
  <2>4. ExecutionsTracked' /\ StoredSourcesValid' /\ RemovedIsGone'
    BY <1>t, <2>1 DEF ManagerInv, ExecutionsTracked, StoredSourcesValid, RemovedIsGone
  <2> QED  BY <2>2, <2>3, <2>4 DEF ManagerInv
<1> QED  BY <1>1, <1>2

(* ... and the steps of the methods.                                        *)
LEMMA OutcomeFacts ==
  ASSUME ManagerTypeOK
  PROVE  /\ Fail => /\ call' \in CallData /\ call'.op = call.op /\ call'.id = call.id
                    /\ call'.source = call.source /\ call'.todo = call.todo
                    /\ call'.pc = IF call.op \in {"remove_all", "load"} THEN "next" ELSE "error"
                    /\ removed' = removed
         /\ SqlFails => Fail /\ unsaved' = unsaved \cup {call.id}
         /\ ReturnOk => /\ call' \in CallData /\ call'.op = call.op /\ call'.id = call.id
                        /\ call'.source = call.source /\ call'.todo = call.todo
                        /\ call'.pc = "ok"
                        /\ removed' = IF call.op = "remove" THEN removed \cup {call.id} ELSE removed
<1>1. ASSUME Fail
      PROVE  /\ call' \in CallData /\ call'.op = call.op /\ call'.id = call.id
             /\ call'.source = call.source /\ call'.todo = call.todo
             /\ call'.pc = IF call.op \in {"remove_all", "load"} THEN "next" ELSE "error"
             /\ removed' = removed
  <2> DEFINE pc == IF call.op \in {"remove_all", "load"} THEN "next" ELSE "error"
  <2>1. pc \in Pc /\ Goto(pc) /\ removed' = removed  BY <1>1 DEF Pc, Fail
  <2> HIDE DEF pc
  <2>2. /\ call' \in CallData /\ call'.op = call.op /\ call'.id = call.id
        /\ call'.source = call.source /\ call'.todo = call.todo /\ call'.pc = pc
    BY <2>1, GotoFacts
  <2> QED  BY <2>1, <2>2 DEF pc
<1>2. ASSUME ReturnOk
      PROVE  /\ call' \in CallData /\ call'.op = call.op /\ call'.id = call.id
             /\ call'.source = call.source /\ call'.todo = call.todo
             /\ call'.pc = "ok"
             /\ removed' = IF call.op = "remove" THEN removed \cup {call.id} ELSE removed
  BY <1>2, GotoFacts DEF ReturnOk, Pc
<1> QED  BY <1>1, <1>2 DEF SqlFails

(* A step that only moves the method on, and perhaps gives up on a script.  *)
LEMMA MovesOn ==
  ASSUME ManagerInv, UNCHANGED <<scripts, runners, execution, removed>>,
         unsaved \subseteq unsaved', unsaved' \subseteq ScriptId, call.op # "load" \/ unsaved' = unsaved,
         call' \in CallData, call'.op = call.op, call'.id = call.id,
         call'.source = call.source, call'.todo = call.todo,
         call.pc # "stopping", call'.pc # "stopping"
  PROVE  /\ ManagerTypeOK' /\ ExecutionsTracked' /\ StoredSourcesValid' /\ RemovedIsGone'
         /\ CallInv' /\ RunnerInv' /\ WipeInv' /\ LoadInv' /\ StoredInv' => ManagerInv'
<1>1. ManagerTypeOK'
  BY ManagerTypeParts, ManagerTypePartsNext DEF ManagerInv
<1>2. ExecutionsTracked'
  BY DEF ManagerInv, ExecutionsTracked
<1>3. StoredSourcesValid' /\ RemovedIsGone'
  BY DEF ManagerInv, StoredSourcesValid, RemovedIsGone
<1> QED  BY <1>1, <1>2, <1>3 DEF ManagerInv

LEMMA LookupKeeps ==
  ASSUME ManagerInv, Lookup
  PROVE  ManagerInv'
<1>1. /\ call.pc = "lookup" /\ call.op \in {"enable", "disable", "remove", "remove_all"}
      /\ call.id \in ScriptId /\ call \in CallData
      /\ UNCHANGED <<scripts, execution>>
  <2>1. call.pc = "lookup" /\ UNCHANGED <<scripts, execution>>  BY DEF Lookup, durable
  <2>2. call \in CallData  BY ManagerTypeParts DEF ManagerInv
  <2>3. call.op \in Op  BY <2>2 DEF CallData
  <2> QED  BY <2>1, <2>2, <2>3 DEF ManagerInv, CallInv, Op
<1>2. ManagerTypeOK /\ unsaved \subseteq ScriptId  BY ManagerTypeParts DEF ManagerInv
<1>3. ASSUME UNCHANGED <<runners, removed>>, unsaved \subseteq unsaved', unsaved' \subseteq ScriptId,
             call' \in CallData, call'.op = call.op, call'.id = call.id,
             call'.source = call.source, call'.todo = call.todo,
             \/ call'.pc = "error" /\ call.op # "remove_all"
             \/ /\ call'.pc = "next" /\ call.op = "remove_all"
                /\ call.id \in DOMAIN runners => call.id \in unsaved'
             \/ call'.pc = "ok" /\ call.op \in {"enable", "disable"}
             \/ /\ call'.pc = "delete" /\ call.op \in {"remove", "remove_all"}
                /\ call.id \notin DOMAIN runners
      PROVE  ManagerInv'
  <2>1. CallInv'  BY <1>1, <1>3 DEF CallInv
  <2>2. RunnerInv'  BY <1>1, <1>3 DEF RunnerInv
  <2>3. WipeInv'  BY <1>1, <1>3 DEF ManagerInv, WipeInv
  <2>4. LoadInv'  BY <1>1, <1>3 DEF LoadInv
  <2>5. StoredInv'  BY <1>1, <1>3 DEF ManagerInv, StoredInv
  <2> QED  BY <1>1, <1>3, <2>1, <2>2, <2>3, <2>4, <2>5, MovesOn
<1>4. CASE SqlFails /\ UNCHANGED runners
  <2>1. /\ Fail /\ unsaved' = unsaved \cup {call.id}  BY <1>2, <1>4, OutcomeFacts
  <2> QED  BY <1>1, <1>2, <1>3, <1>4, <2>1, OutcomeFacts
<1>5. CASE call.id \notin DOMAIN scripts /\ Fail /\ UNCHANGED <<runners, unsaved>>
  <2>1. call.id \in DOMAIN runners => call.id \in unsaved
    BY <1>1, <1>5 DEF ManagerInv, StoredInv
  <2> QED  BY <1>1, <1>2, <1>3, <1>5, <2>1, OutcomeFacts
<1>6. CASE /\ call.id \in DOMAIN scripts /\ UNCHANGED <<unsaved, runners>>
           /\ (call.op = "enable") = (call.id \in DOMAIN runners)
           /\ IF call.op \in {"remove", "remove_all"}
              THEN Goto("delete") /\ UNCHANGED removed
              ELSE ReturnOk
  <2>1. CASE call.op \in {"remove", "remove_all"}
    <3>1. call.id \notin DOMAIN runners  BY <1>6, <2>1
    <3> QED  BY <1>1, <1>2, <1>3, <1>6, <2>1, <3>1, GotoFacts DEF Pc
  <2>2. CASE call.op \notin {"remove", "remove_all"}
    BY <1>1, <1>2, <1>3, <1>6, <2>2, OutcomeFacts
  <2> QED  BY <2>1, <2>2
<1>7. CASE /\ call.id \in DOMAIN scripts /\ UNCHANGED <<unsaved, removed>>
           /\ (call.op = "enable") # (call.id \in DOMAIN runners)
           /\ StopOld([call EXCEPT !.source = scripts[call.id].source])
  <2> DEFINE pc == IF call.id \in DOMAIN runners THEN "stopping" ELSE "launch"
             source == scripts[call.id].source
  <2>1. source \in Source /\ source \in Valid
    BY <1>7, <1>2, ManagerTypeParts, RowFacts DEF ManagerInv, StoredSourcesValid
  <2>2. /\ runners' = Drop(runners, {call.id})
        /\ call' \in CallData /\ call'.op = call.op /\ call'.id = call.id /\ call'.source = source
        /\ call'.todo = call.todo /\ call'.pc = pc
    <3> HIDE DEF source
    <3>1. [call EXCEPT !.source = source].id = call.id  BY <1>1 DEF CallData
    <3>2. runners' = Drop(runners, {call.id}) /\ call' = [[call EXCEPT !.source = source] EXCEPT !.pc = pc]
      BY <1>7, <3>1 DEF StopOld, source
    <3>3. pc \in Pc  BY DEF Pc
    <3> HIDE DEF pc
    <3> QED  BY <1>1, <2>1, <3>2, <3>3 DEF CallData
  <2>3. \/ pc = "stopping" /\ call.id \in DOMAIN runners /\ call.op # "enable"
        \/ pc = "launch" /\ call.id \notin DOMAIN runners /\ call.op = "enable"
    <3>1. CASE call.id \in DOMAIN runners  BY <1>7, <3>1
    <3>2. CASE call.id \notin DOMAIN runners  BY <1>7, <3>2
    <3> QED  BY <3>1, <3>2
  <2> HIDE DEF pc
  <2>4. /\ DOMAIN runners' = DOMAIN runners \ {call.id}
        /\ \A x \in DOMAIN runners' : runners'[x] = runners[x]
        /\ runners' \in [DOMAIN runners' -> Source]
    <3>1. /\ DOMAIN Drop(runners, {call.id}) = DOMAIN runners \ {call.id}
          /\ \A x \in DOMAIN runners \ {call.id} : Drop(runners, {call.id})[x] = runners[x]
          /\ Drop(runners, {call.id}) \in [DOMAIN runners \ {call.id} -> Source]
      BY <1>2, DropFacts, ManagerTypeParts
    <3> QED  BY <2>2, <3>1
  <2>5. ManagerTypeOK'
    BY <1>1, <1>2, <1>7, <2>2, <2>4, ManagerTypeParts, ManagerTypePartsNext
  <2>6. CallInv'  BY <1>1, <2>2, <2>3 DEF CallInv
  <2>7. RunnerInv'
    BY <1>1, <1>7, <2>2, <2>3, <2>4 DEF RunnerInv, ManagerInv, RemovedIsGone
  <2>8. WipeInv' /\ LoadInv'
    BY <1>1, <1>7, <2>2, <2>3, <2>4 DEF ManagerInv, WipeInv, LoadInv
  <2>9. StoredInv'
    BY <1>1, <1>7, <2>2, <2>4 DEF ManagerInv, StoredInv
  <2>10. ExecutionsTracked'
    BY <1>1, <2>2, <2>3, <2>4 DEF ManagerInv, ExecutionsTracked
  <2>11. StoredSourcesValid' /\ RemovedIsGone'
    BY <1>1, <1>7 DEF ManagerInv, StoredSourcesValid, RemovedIsGone
  <2> QED  BY <2>5, <2>6, <2>7, <2>8, <2>9, <2>10, <2>11 DEF ManagerInv
<1> QED  BY <1>4, <1>5, <1>6, <1>7 DEF Lookup

LEMMA StopAcknowledgedKeeps ==
  ASSUME ManagerInv, StopAcknowledged
  PROVE  ManagerInv'
<1>1. /\ call.pc = "stopping" /\ call.op \in {"put", "disable", "remove", "remove_all"}
      /\ call.id \in ScriptId /\ call.id \notin DOMAIN runners
      /\ UNCHANGED <<scripts, runners, unsaved>>
      /\ execution' = [execution EXCEPT ![call.id] = "none"]
  <2>1. /\ call.pc = "stopping" /\ UNCHANGED <<scripts, runners, unsaved>>
        /\ execution' = [execution EXCEPT ![call.id] = "none"]
    BY DEF StopAcknowledged, durable
  <2>2. call.op \in Op  BY ManagerTypeParts DEF ManagerInv, CallData
  <2> QED  BY <2>1, <2>2 DEF ManagerInv, CallInv, RunnerInv, Op
<1>2. ManagerTypeOK /\ execution \in [ScriptId -> {"none", "live", "panicked"}]
  BY ManagerTypeParts DEF ManagerInv
<1>3. /\ call' \in CallData /\ call'.op = call.op /\ call'.id = call.id
      /\ call'.source = call.source /\ call'.todo = call.todo /\ removed' = removed
      /\ \/ call.op = "put" /\ call'.pc = "launch"
         \/ call.op # "put" /\ call'.pc = "update"
         \/ call.op = "remove_all" /\ call'.pc = "next"
         \/ call.op \in {"disable", "remove"} /\ call'.pc = "error"
  <2>1. CASE call.op = "put" /\ Goto("launch") /\ UNCHANGED removed
    BY <1>2, <2>1, GotoFacts DEF Pc
  <2>2. CASE call.op # "put" /\ Goto("update") /\ UNCHANGED removed
    BY <1>2, <2>2, GotoFacts DEF Pc
  <2>3. CASE call.op # "put" /\ Fail
    BY <1>1, <1>2, <2>3, OutcomeFacts
  <2> QED  BY <2>1, <2>2, <2>3 DEF StopAcknowledged
<1>4. /\ execution'[call.id] = "none" /\ execution' \in [ScriptId -> {"none", "live", "panicked"}]
      /\ \A x \in ScriptId : x # call.id => execution'[x] = execution[x]
  BY <1>1, <1>2
<1>5. ManagerTypeOK'
  BY <1>1, <1>2, <1>3, <1>4, ManagerTypeParts, ManagerTypePartsNext
<1>6. CallInv'  BY <1>1, <1>3 DEF ManagerInv, CallInv
<1>7. call.op = "put" => call.id \notin removed
  BY <1>1 DEF ManagerInv, RunnerInv
<1>8. RunnerInv'  BY <1>1, <1>3, <1>7 DEF RunnerInv
<1>9. WipeInv' /\ LoadInv'  BY <1>1, <1>3 DEF ManagerInv, WipeInv, LoadInv
<1>10. StoredInv'  BY <1>1, <1>3 DEF ManagerInv, StoredInv
<1>11. ExecutionsTracked'  BY <1>1, <1>3, <1>4 DEF ManagerInv, ExecutionsTracked
<1>12. StoredSourcesValid' /\ RemovedIsGone'
  <2>1. removed \subseteq ScriptId  BY <1>2, ManagerTypeParts
  <2> QED  BY <1>1, <1>3, <1>4, <2>1 DEF ManagerInv, StoredSourcesValid, RemovedIsGone
<1> QED  BY <1>5, <1>6, <1>8, <1>9, <1>10, <1>11, <1>12 DEF ManagerInv

LEMMA LaunchKeeps ==
  ASSUME ManagerInv, LaunchValid \/ LaunchBroken
  PROVE  ManagerInv'
<1>1. /\ call.pc = "launch" /\ call.op \in {"put", "enable", "load"}
      /\ call.id \in ScriptId /\ call.id \notin DOMAIN runners
      /\ UNCHANGED <<scripts, unsaved>> /\ call.source \in Source
  <2>1. call.pc = "launch" /\ UNCHANGED <<scripts, unsaved>>
    BY DEF LaunchValid, LaunchBroken, durable
  <2>2. call.op \in Op /\ scripts \in [DOMAIN scripts -> RowData]
    BY ManagerTypeParts DEF ManagerInv, CallData
  <2>3. call.op \in {"put", "enable", "load"} /\ call.id \in ScriptId /\ call.id \notin DOMAIN runners
    BY <2>1, <2>2 DEF ManagerInv, CallInv, RunnerInv, Op
  <2>4. call.source \in Source
    BY <2>1, <2>2, <2>3, RowFacts DEF ManagerInv, CallInv, RunnerInv
  <2> QED  BY <2>1, <2>3, <2>4
<1>2. ManagerTypeOK /\ execution \in [ScriptId -> {"none", "live", "panicked"}]
      /\ runners \in [DOMAIN runners -> Source]
  BY ManagerTypeParts DEF ManagerInv
<1>3. CASE LaunchBroken
  <2>1. call.op # "load"
    BY <1>1, <1>3 DEF LaunchBroken, ManagerInv, RunnerInv, StoredSourcesValid
  <2>2. UNCHANGED <<runners, execution>> /\ Fail  BY <1>3 DEF LaunchBroken, executions
  <2>3. /\ call' \in CallData /\ call'.op = call.op /\ call'.id = call.id
        /\ call'.source = call.source /\ call'.todo = call.todo /\ removed' = removed
        /\ call'.pc = "error"
    BY <1>1, <1>2, <2>1, <2>2, OutcomeFacts
  <2>4. CallInv' /\ RunnerInv'
    BY <1>1, <2>2, <2>3 DEF ManagerInv, CallInv, RunnerInv
  <2>5. WipeInv' /\ LoadInv' /\ StoredInv'
    BY <1>1, <2>1, <2>2, <2>3 DEF ManagerInv, WipeInv, LoadInv, StoredInv
  <2>6. unsaved \subseteq ScriptId  BY <1>2, ManagerTypeParts
  <2> QED  BY <1>1, <2>2, <2>3, <2>4, <2>5, <2>6, MovesOn
<1>4. CASE LaunchValid
  <2>1. /\ runners' = Put(runners, call.id, call.source) /\ call.source \in Valid
        /\ execution' = [execution EXCEPT ![call.id] = "live"] /\ removed' = removed
    BY <1>4 DEF LaunchValid
  <2>2. /\ call' \in CallData /\ call'.op = call.op /\ call'.id = call.id
        /\ call'.source = call.source /\ call'.todo = call.todo
        /\ \/ call.op = "put" /\ call'.pc = "insert"
           \/ call.op = "enable" /\ call'.pc = "update"
           \/ call.op = "load" /\ call'.pc = "next"
    <3>1. CASE call.op = "put"
      <4>1. Goto("insert")  BY <1>4, <3>1 DEF LaunchValid
      <4> QED  BY <1>2, <3>1, <4>1, GotoFacts DEF Pc
    <3>2. CASE call.op = "enable"
      <4>1. Goto("update")  BY <1>4, <3>2 DEF LaunchValid
      <4> QED  BY <1>2, <3>2, <4>1, GotoFacts DEF Pc
    <3>3. CASE call.op = "load"
      <4>1. Goto("next")  BY <1>4, <3>3 DEF LaunchValid
      <4> QED  BY <1>2, <3>3, <4>1, GotoFacts DEF Pc
    <3> QED  BY <1>1, <3>1, <3>2, <3>3
  <2>3. /\ DOMAIN runners' = DOMAIN runners \cup {call.id} /\ runners'[call.id] = call.source
        /\ \A x \in DOMAIN runners : runners'[x] = runners[x]
        /\ runners' \in [DOMAIN runners' -> Source]
    <3> DEFINE r == Put(runners, call.id, call.source)
    <3>1. /\ DOMAIN r = DOMAIN runners \cup {call.id} /\ r[call.id] = call.source
          /\ \A x \in DOMAIN runners : x # call.id => r[x] = runners[x]
          /\ r \in [DOMAIN runners \cup {call.id} -> Source]
      BY <1>1, <1>2 DEF Put
    <3> HIDE DEF r
    <3>2. runners' = r  BY <2>1 DEF r
    <3> QED  BY <1>1, <3>1, <3>2
  <2>4. /\ execution'[call.id] = "live" /\ execution' \in [ScriptId -> {"none", "live", "panicked"}]
        /\ \A x \in ScriptId : x # call.id => execution'[x] = execution[x]
    BY <1>1, <1>2, <2>1
  <2>5. call.id \notin removed /\ (call.op = "load" => call.id \in DOMAIN scripts)
    <3>1. CASE call.op = "load"
      BY <1>1, <3>1 DEF ManagerInv, RunnerInv, RemovedIsGone
    <3>2. CASE call.op # "load"
      BY <1>1, <3>2 DEF ManagerInv, RunnerInv
    <3> QED  BY <3>1, <3>2
  <2>6. ManagerTypeOK'
    BY <1>1, <1>2, <2>1, <2>2, <2>3, <2>4, ManagerTypeParts, ManagerTypePartsNext
  <2>7. CallInv'  BY <1>1, <2>2 DEF ManagerInv, CallInv
  <2>8. RunnerInv'  BY <1>1, <2>1, <2>2, <2>3, <2>5 DEF ManagerInv, RunnerInv
  <2>9. WipeInv'  BY <1>1, <2>2 DEF WipeInv
  <2>10. LoadInv'
    <3>1. \A x : IsEnabled(x)' <=> IsEnabled(x)  BY <1>1 DEF IsEnabled
    <3> QED  BY <1>1, <2>2, <2>3, <3>1 DEF ManagerInv, LoadInv
  <2>11. StoredInv'
    <3> SUFFICES ASSUME NEW x \in DOMAIN runners'
                 PROVE  \/ x \in unsaved
                        \/ call.id = x /\ call'.pc \in {"insert", "update"}
                        \/ x \in DOMAIN scripts /\ scripts[x] = Row(runners'[x], TRUE)
      BY <1>1, <2>2 DEF StoredInv
    <3>1. CASE x = call.id
      BY <1>1, <2>2, <2>3, <3>1 DEF ManagerInv, RunnerInv
    <3>2. CASE x # call.id
      BY <1>1, <2>3, <3>2 DEF ManagerInv, StoredInv
    <3> QED  BY <3>1, <3>2
  <2>12. ExecutionsTracked'
    BY <1>1, <2>2, <2>3, <2>4 DEF ManagerInv, ExecutionsTracked
  <2>13. StoredSourcesValid' /\ RemovedIsGone'
    <3>1. removed \subseteq ScriptId  BY <1>2, ManagerTypeParts
    <3> QED  BY <1>1, <2>1, <2>4, <2>5, <3>1 DEF ManagerInv, StoredSourcesValid, RemovedIsGone
  <2> QED  BY <2>6, <2>7, <2>8, <2>9, <2>10, <2>11, <2>12, <2>13 DEF ManagerInv
<1> QED  BY <1>3, <1>4

LEMMA StatementFailsKeeps ==
  ASSUME ManagerInv, SqlFails, call.pc \in {"insert", "update", "delete"},
         UNCHANGED <<scripts, runners, execution>>
  PROVE  ManagerInv'
<1>1. call.op \in {"put", "enable", "disable", "remove", "remove_all"} /\ call.id \in ScriptId
  <2>1. call.op \in Op  BY ManagerTypeParts DEF ManagerInv, CallData
  <2> QED  BY <2>1 DEF ManagerInv, CallInv, Op
<1>2. ManagerTypeOK /\ unsaved \subseteq ScriptId  BY ManagerTypeParts DEF ManagerInv
<1>3. /\ call' \in CallData /\ call'.op = call.op /\ call'.id = call.id
      /\ call'.source = call.source /\ call'.todo = call.todo /\ removed' = removed
      /\ call'.pc = IF call.op = "remove_all" THEN "next" ELSE "error"
      /\ unsaved' = unsaved \cup {call.id}
  BY <1>1, <1>2, OutcomeFacts
<1>4. CallInv'  BY <1>1, <1>3 DEF ManagerInv, CallInv
<1>5. RunnerInv'  BY <1>1, <1>3 DEF RunnerInv
<1>6. WipeInv' /\ LoadInv'  BY <1>1, <1>3 DEF ManagerInv, WipeInv, LoadInv
<1>7. StoredInv'  BY <1>3 DEF ManagerInv, StoredInv
<1> QED  BY <1>1, <1>2, <1>3, <1>4, <1>5, <1>6, <1>7, MovesOn

LEMMA InsertKeeps ==
  ASSUME ManagerInv, Insert
  PROVE  ManagerInv'
<1>1. /\ call.pc = "insert" /\ call.op = "put" /\ call.id \in ScriptId /\ call.source \in Source
      /\ call.source \in Valid /\ call.id \in DOMAIN runners /\ runners[call.id] = call.source
      /\ call.id \notin removed
      /\ UNCHANGED <<runners, execution>>
  <2>1. call.op \in Op  BY ManagerTypeParts DEF ManagerInv, CallData
  <2>2. call.pc = "insert" /\ UNCHANGED <<runners, execution>>  BY DEF Insert, executions
  <2>3. call.op = "put"  BY <2>1, <2>2 DEF ManagerInv, CallInv, Op
  <2> QED  BY <2>2, <2>3 DEF ManagerInv, CallInv, RunnerInv
<1>2. /\ ManagerTypeOK /\ unsaved \subseteq ScriptId
      /\ scripts \in [DOMAIN scripts -> RowData] /\ DOMAIN scripts \subseteq ScriptId
  BY ManagerTypeParts DEF ManagerInv
<1>3. CASE SqlFails /\ UNCHANGED scripts
  BY <1>1, <1>3, StatementFailsKeeps
<1>4. CASE RowsWritten(Put(scripts, call.id, Row(call.source, TRUE))) /\ ReturnOk
  <2> DEFINE row == Row(call.source, TRUE)
  <2>1. row \in RowData /\ row.source = call.source  BY <1>1, RowFacts
  <2>2. scripts' = Put(scripts, call.id, row) /\ unsaved' = unsaved \ {call.id}
    BY <1>4 DEF RowsWritten
  <2> HIDE DEF row
  <2>3. /\ DOMAIN scripts' = DOMAIN scripts \cup {call.id} /\ scripts'[call.id] = row
        /\ \A x \in DOMAIN scripts : x # call.id => scripts'[x] = scripts[x]
        /\ scripts' \in [DOMAIN scripts' -> RowData]
    BY <1>2, <2>1, <2>2 DEF Put
  <2>4. /\ call' \in CallData /\ call'.op = call.op /\ call'.id = call.id
        /\ call'.source = call.source /\ call'.todo = call.todo /\ removed' = removed
        /\ call'.pc = "ok"
    BY <1>1, <1>2, <1>4, OutcomeFacts
  <2>5. ManagerTypeOK'
    BY <1>1, <1>2, <2>2, <2>3, <2>4, ManagerTypeParts, ManagerTypePartsNext
  <2>6. CallInv' /\ RunnerInv' /\ WipeInv' /\ LoadInv'
    BY <1>1, <2>4 DEF CallInv, RunnerInv, WipeInv, LoadInv
  <2>7. StoredInv'
    <3> SUFFICES ASSUME NEW x \in DOMAIN runners
                 PROVE  x \in unsaved' \/ (x \in DOMAIN scripts' /\ scripts'[x] = Row(runners[x], TRUE))
      BY <1>1 DEF StoredInv
    <3>1. CASE x = call.id  BY <1>1, <2>3, <3>1 DEF row
    <3>2. CASE x # call.id  BY <2>2, <2>3, <3>2 DEF ManagerInv, StoredInv
    <3> QED  BY <3>1, <3>2
  <2>8. ExecutionsTracked'  BY <1>1, <2>4 DEF ManagerInv, ExecutionsTracked
  <2>9. StoredSourcesValid'
    BY <1>1, <2>1, <2>3 DEF ManagerInv, StoredSourcesValid
  <2>10. RemovedIsGone'  BY <1>1, <2>3, <2>4 DEF ManagerInv, RemovedIsGone
  <2> QED  BY <2>5, <2>6, <2>7, <2>8, <2>9, <2>10 DEF ManagerInv
<1> QED  BY <1>3, <1>4 DEF Insert

LEMMA UpdateKeeps ==
  ASSUME ManagerInv, Update
  PROVE  ManagerInv'
<1>1. /\ call.pc = "update" /\ call.op \in {"enable", "disable", "remove", "remove_all"}
      /\ call.id \in ScriptId /\ UNCHANGED <<runners, execution>>
  <2>1. call.op \in Op  BY ManagerTypeParts DEF ManagerInv, CallData
  <2>2. call.pc = "update" /\ UNCHANGED <<runners, execution>>  BY DEF Update, executions
  <2> QED  BY <2>1, <2>2 DEF ManagerInv, CallInv, Op
<1>2. /\ ManagerTypeOK /\ unsaved \subseteq ScriptId
      /\ scripts \in [DOMAIN scripts -> RowData] /\ DOMAIN scripts \subseteq ScriptId
  BY ManagerTypeParts DEF ManagerInv
<1>3. CASE SqlFails /\ UNCHANGED scripts
  BY <1>1, <1>3, StatementFailsKeeps
<1>4. CASE /\ RowsWritten([scripts EXCEPT ![call.id].is_enabled = (call.op = "enable")])
           /\ IF call.op \in {"remove", "remove_all"}
              THEN Goto("delete") /\ UNCHANGED removed
              ELSE ReturnOk
  <2>1. PICK b \in BOOLEAN : b = (call.op = "enable")  OBVIOUS
  <2>2. scripts' = [scripts EXCEPT ![call.id].is_enabled = b] /\ unsaved' = unsaved \ {call.id}
    BY <1>4, <2>1 DEF RowsWritten
  <2>3. /\ DOMAIN scripts' = DOMAIN scripts
        /\ \A x \in DOMAIN scripts : x # call.id => scripts'[x] = scripts[x]
        /\ \A x \in DOMAIN scripts : scripts'[x] \in RowData /\ scripts'[x].source = scripts[x].source
        /\ scripts' \in [DOMAIN scripts -> RowData]
    BY <1>2, <2>2 DEF RowData
  <2>4. call.op = "enable" => scripts'[call.id] = Row(runners[call.id], TRUE)
    <3> SUFFICES ASSUME call.op = "enable"
                 PROVE  scripts'[call.id] = Row(runners[call.id], TRUE)
      OBVIOUS
    <3>1. call.id \in DOMAIN scripts /\ runners[call.id] = scripts[call.id].source
      BY <1>1 DEF ManagerInv, RunnerInv
    <3>2. b = TRUE  BY <2>1, Zenon
    <3>3. scripts'[call.id].is_enabled = TRUE  BY <1>2, <2>2, <3>1, <3>2 DEF RowData
    <3>4. scripts'[call.id] \in RowData /\ scripts'[call.id].source = runners[call.id]
      BY <2>3, <3>1, Zenon
    <3> QED  BY <3>3, <3>4, RowFacts, Zenon
  <2>5. /\ call' \in CallData /\ call'.op = call.op /\ call'.id = call.id
        /\ call'.source = call.source /\ call'.todo = call.todo /\ removed' = removed
        /\ \/ call'.pc = "delete" /\ call.op \in {"remove", "remove_all"}
           \/ call'.pc = "ok" /\ call.op \in {"enable", "disable"}
    <3>1. CASE call.op \in {"remove", "remove_all"}
      BY <1>2, <1>4, <3>1, GotoFacts DEF Pc
    <3>2. CASE call.op \notin {"remove", "remove_all"}
      BY <1>1, <1>2, <1>4, <3>2, OutcomeFacts
    <3> QED  BY <3>1, <3>2
  <2>6. ManagerTypeOK'
    BY <1>1, <1>2, <2>2, <2>3, <2>5, ManagerTypeParts, ManagerTypePartsNext
  <2>7. CallInv'  BY <1>1, <2>3, <2>5 DEF ManagerInv, CallInv
  <2>8. RunnerInv'  BY <1>1, <2>5 DEF ManagerInv, RunnerInv
  <2>9. call.op # "enable" => call.id \notin DOMAIN runners
    BY <1>1 DEF ManagerInv, RunnerInv
  <2>10. WipeInv' /\ LoadInv'
    BY <1>1, <2>2, <2>5, <2>9 DEF ManagerInv, WipeInv, LoadInv
  <2>11. StoredInv'
    <3> SUFFICES ASSUME NEW x \in DOMAIN runners
                 PROVE  x \in unsaved' \/ (x \in DOMAIN scripts' /\ scripts'[x] = Row(runners[x], TRUE))
      BY <1>1 DEF StoredInv
    <3>1. CASE x = call.id
      BY <1>1, <2>3, <2>4, <2>9, <3>1 DEF ManagerInv, RunnerInv
    <3>2. CASE x # call.id  BY <2>2, <2>3, <3>2 DEF ManagerInv, StoredInv
    <3> QED  BY <3>1, <3>2
  <2>12. ExecutionsTracked'  BY <1>1, <2>5 DEF ManagerInv, ExecutionsTracked
  <2>13. StoredSourcesValid' /\ RemovedIsGone'
    BY <1>1, <2>3, <2>5 DEF ManagerInv, StoredSourcesValid, RemovedIsGone
  <2> QED  BY <2>6, <2>7, <2>8, <2>10, <2>11, <2>12, <2>13 DEF ManagerInv
<1> QED  BY <1>3, <1>4 DEF Update

LEMMA DeleteKeeps ==
  ASSUME ManagerInv, Delete
  PROVE  ManagerInv'
<1>1. /\ call.pc = "delete" /\ call.op \in {"remove", "remove_all"}
      /\ call.id \in ScriptId /\ call.id \notin DOMAIN runners /\ UNCHANGED <<runners, execution>>
  <2>1. call.op \in Op  BY ManagerTypeParts DEF ManagerInv, CallData
  <2>2. call.pc = "delete" /\ UNCHANGED <<runners, execution>>  BY DEF Delete, executions
  <2> QED  BY <2>1, <2>2 DEF ManagerInv, CallInv, RunnerInv, Op
<1>2. /\ ManagerTypeOK /\ unsaved \subseteq ScriptId /\ removed \subseteq ScriptId
      /\ scripts \in [DOMAIN scripts -> RowData] /\ DOMAIN scripts \subseteq ScriptId
  BY ManagerTypeParts DEF ManagerInv
<1>3. CASE SqlFails /\ UNCHANGED scripts
  BY <1>1, <1>3, StatementFailsKeeps
<1>4. CASE /\ RowsWritten(Drop(scripts, {call.id}))
           /\ IF call.op = "remove" THEN ReturnOk ELSE Goto("next") /\ UNCHANGED removed
  <2>1. unsaved' = unsaved \ {call.id} /\ scripts' = Drop(scripts, {call.id})
    BY <1>4 DEF RowsWritten
  <2>2. /\ DOMAIN scripts' = DOMAIN scripts \ {call.id}
        /\ \A x \in DOMAIN scripts' : scripts'[x] = scripts[x]
        /\ scripts' \in [DOMAIN scripts' -> RowData]
    <3>1. /\ DOMAIN Drop(scripts, {call.id}) = DOMAIN scripts \ {call.id}
          /\ \A x \in DOMAIN scripts \ {call.id} : Drop(scripts, {call.id})[x] = scripts[x]
          /\ Drop(scripts, {call.id}) \in [DOMAIN scripts \ {call.id} -> RowData]
      BY <1>2, DropFacts
    <3> QED  BY <2>1, <3>1
  <2>3. /\ call' \in CallData /\ call'.op = call.op /\ call'.id = call.id
        /\ call'.source = call.source /\ call'.todo = call.todo
        /\ \/ call'.pc = "ok" /\ call.op = "remove" /\ removed' = removed \cup {call.id}
           \/ call'.pc = "next" /\ call.op = "remove_all" /\ removed' = removed
    <3>1. CASE call.op = "remove"  BY <1>2, <1>4, <3>1, OutcomeFacts
    <3>2. CASE call.op = "remove_all"  BY <1>2, <1>4, <3>2, GotoFacts DEF Pc
    <3> QED  BY <1>1, <3>1, <3>2
  <2>4. ManagerTypeOK'
    BY <1>1, <1>2, <2>1, <2>2, <2>3, ManagerTypeParts, ManagerTypePartsNext
  <2>5. CallInv' /\ RunnerInv'  BY <1>1, <2>3 DEF ManagerInv, CallInv, RunnerInv
  <2>6. WipeInv' /\ LoadInv'  BY <1>1, <2>1, <2>3 DEF ManagerInv, WipeInv, LoadInv
  <2>7. StoredInv'  BY <1>1, <2>1, <2>2 DEF ManagerInv, StoredInv
  <2>8. ExecutionsTracked'  BY <1>1, <2>3 DEF ManagerInv, ExecutionsTracked
  <2>9. StoredSourcesValid'  BY <2>2 DEF ManagerInv, StoredSourcesValid
  <2>10. RemovedIsGone'
    BY <1>1, <2>2, <2>3 DEF ManagerInv, RemovedIsGone, ExecutionsTracked
  <2> QED  BY <2>4, <2>5, <2>6, <2>7, <2>8, <2>9, <2>10 DEF ManagerInv
<1> QED  BY <1>3, <1>4 DEF Delete

LEMMA WipeKeeps ==
  ASSUME ManagerInv, Wipe
  PROVE  ManagerInv'
<1>1. /\ call.pc = "wipe" /\ call.op = "remove_all" /\ UNCHANGED <<runners, execution, unsaved>>
  <2>1. call.op \in Op  BY ManagerTypeParts DEF ManagerInv, CallData
  <2>2. call.pc = "wipe" /\ UNCHANGED <<runners, execution, unsaved>>  BY DEF Wipe, executions
  <2> QED  BY <2>1, <2>2 DEF ManagerInv, CallInv, Op
<1>2. ManagerTypeOK /\ unsaved \subseteq ScriptId
  BY ManagerTypeParts DEF ManagerInv
<1>3. /\ call' \in CallData /\ call'.op = call.op /\ call'.id = call.id
      /\ call'.source = call.source /\ call'.todo = call.todo /\ removed' = removed
      /\ call'.pc = "ok" \/ (call'.pc = "error" /\ scripts' = scripts)
      /\ scripts' = scripts \/ scripts' = EmptyMap
  <2>1. CASE scripts' = EmptyMap /\ ReturnOk
    BY <1>1, <1>2, <2>1, OutcomeFacts
  <2>2. CASE Goto("error") /\ UNCHANGED <<scripts, removed>>
    BY <1>2, <2>2, GotoFacts DEF Pc
  <2> QED  BY <2>1, <2>2 DEF Wipe
<1>4. /\ DOMAIN scripts' \subseteq DOMAIN scripts
      /\ \A x \in DOMAIN scripts' : scripts'[x] = scripts[x]
      /\ scripts' \in [DOMAIN scripts' -> RowData] /\ DOMAIN scripts' \subseteq ScriptId
  BY <1>2, <1>3, ManagerTypeParts DEF EmptyMap
<1>5. \A x \in DOMAIN runners : x \in unsaved
  BY <1>1 DEF ManagerInv, WipeInv
<1>6. ManagerTypeOK'
  BY <1>1, <1>2, <1>3, <1>4, ManagerTypeParts, ManagerTypePartsNext
<1>7. CallInv' /\ RunnerInv' /\ WipeInv' /\ LoadInv' /\ StoredInv'
  BY <1>1, <1>3, <1>5 DEF ManagerInv, CallInv, RunnerInv, WipeInv, LoadInv, StoredInv
<1>8. ExecutionsTracked'  BY <1>1, <1>3 DEF ManagerInv, ExecutionsTracked
<1>9. StoredSourcesValid' /\ RemovedIsGone'
  BY <1>1, <1>3, <1>4 DEF ManagerInv, StoredSourcesValid, RemovedIsGone
<1> QED  BY <1>6, <1>7, <1>8, <1>9 DEF ManagerInv

LEMMA RemoveNextKeeps ==
  ASSUME ManagerInv, RemoveNext
  PROVE  ManagerInv'
<1>1. /\ call.op = "remove_all" /\ call.pc = "next"
      /\ UNCHANGED <<scripts, runners, execution, removed, unsaved>>
  BY DEF RemoveNext, durable, executions, history
<1>2. ManagerTypeOK /\ call \in CallData  BY ManagerTypeParts DEF ManagerInv
<1>3. /\ call' \in CallData /\ call'.op = call.op
      /\ \/ call'.pc = "wipe" /\ call.todo = {} /\ call'.todo = {}
         \/ /\ call'.pc = "lookup" /\ call'.id \in ScriptId
            /\ call'.todo = call.todo \ {call'.id}
  <2>1. CASE call.todo = {} /\ Goto("wipe")
    BY <1>2, <2>1, GotoFacts DEF Pc
  <2>2. ASSUME NEW id \in call.todo,
               call' = [call EXCEPT !.id = id, !.pc = "lookup", !.todo = @ \ {id}]
        PROVE  /\ call' \in CallData /\ call'.op = call.op /\ call'.pc = "lookup"
               /\ call'.id = id /\ id \in ScriptId /\ call'.todo = call.todo \ {id}
    <3>1. id \in ScriptId  BY <1>2 DEF CallData
    <3> QED  BY <1>2, <2>2, <3>1 DEF CallData, Pc
  <2>3. \/ \E id \in call.todo :
             call' = [call EXCEPT !.id = id, !.pc = "lookup", !.todo = @ \ {id}]
        \/ call.todo = {} /\ Goto("wipe")
    BY DEF RemoveNext
  <2> QED  BY <2>1, <2>2, <2>3
<1>4. ManagerTypeOK'  BY <1>1, <1>2, <1>3, ManagerTypeParts, ManagerTypePartsNext
<1>5. CallInv' /\ RunnerInv'  BY <1>1, <1>3 DEF CallInv, RunnerInv
<1>6. WipeInv' /\ LoadInv'  BY <1>1, <1>3 DEF ManagerInv, WipeInv, LoadInv
<1>7. StoredInv' /\ ExecutionsTracked'
  BY <1>1, <1>3 DEF ManagerInv, StoredInv, ExecutionsTracked
<1>8. StoredSourcesValid' /\ RemovedIsGone'
  BY <1>1 DEF ManagerInv, StoredSourcesValid, RemovedIsGone
<1> QED  BY <1>4, <1>5, <1>6, <1>7, <1>8 DEF ManagerInv

LEMMA LoadNextKeeps ==
  ASSUME ManagerInv, LoadNext
  PROVE  ManagerInv'
<1>1. /\ call.op = "load" /\ call.pc = "next"
      /\ UNCHANGED <<scripts, runners, execution, removed, unsaved>>
  BY DEF LoadNext, durable, executions, history
<1>2. /\ ManagerTypeOK /\ call \in CallData
      /\ scripts \in [DOMAIN scripts -> RowData] /\ DOMAIN scripts \subseteq ScriptId
  BY ManagerTypeParts DEF ManagerInv
<1>3. call.todo \subseteq DOMAIN scripts  BY <1>1 DEF ManagerInv, CallInv
<1>4. /\ call' \in CallData /\ call'.op = call.op
      /\ \/ call'.pc = "ok" /\ call.todo = {} /\ call'.todo = {}
         \/ call'.pc = "error" /\ call'.todo = call.todo
         \/ /\ call'.id \in call.todo /\ call'.todo = call.todo \ {call'.id}
            /\ \/ /\ call'.pc = "launch"
                  /\ scripts[call'.id] = Row(call'.source, TRUE)
                  /\ call'.source = scripts[call'.id].source
               \/ call'.pc = "next" /\ ~IsEnabled(call'.id)
  <2>1. CASE call.todo = {} /\ Goto("ok")
    BY <1>2, <2>1, GotoFacts DEF Pc
  <2>2. CASE Goto("error")
    BY <1>2, <2>2, GotoFacts DEF Pc
  <2>3. ASSUME NEW id \in call.todo,
               call' = [call EXCEPT !.id = id, !.source = scripts[id].source,
                                    !.pc = IF scripts[id].is_enabled THEN "launch" ELSE "next",
                                    !.todo = @ \ {id}]
        PROVE  /\ call' \in CallData /\ call'.op = call.op
               /\ call'.id = id /\ call'.todo = call.todo \ {id}
               /\ \/ /\ call'.pc = "launch"
                     /\ scripts[id] = Row(call'.source, TRUE)
                     /\ call'.source = scripts[id].source
                  \/ call'.pc = "next" /\ ~IsEnabled(id)
    <3> DEFINE source == scripts[id].source
               pc == IF scripts[id].is_enabled THEN "launch" ELSE "next"
    <3>1. id \in ScriptId /\ scripts[id] \in RowData  BY <1>2, <1>3
    <3>2. source \in Source /\ pc \in Pc  BY <3>1, RowFacts DEF Pc
    <3>3. \/ pc = "launch" /\ scripts[id] = Row(source, TRUE)
          \/ pc = "next" /\ ~IsEnabled(id)
      <4>1. CASE IsEnabled(id)
        <5>1. scripts[id] = Row(source, TRUE)  BY <3>1, <4>1, RowFacts DEF IsEnabled
        <5>2. pc = "launch"  BY <4>1, Zenon DEF IsEnabled
        <5> QED  BY <5>1, <5>2
      <4>2. CASE ~IsEnabled(id)
        <5>1. pc = "next"  BY <4>2, Zenon DEF IsEnabled
        <5> QED  BY <4>2, <5>1
      <4> QED  BY <4>1, <4>2
    <3>4. call' = [call EXCEPT !.id = id, !.source = source, !.pc = pc, !.todo = @ \ {id}]
      BY <2>3
    <3>5. source = scripts[id].source  OBVIOUS
    <3> HIDE DEF source, pc
    <3>6. /\ call' \in CallData /\ call'.op = call.op /\ call'.pc = pc
          /\ call'.id = id /\ call'.todo = call.todo \ {id} /\ call'.source = source
      BY <1>2, <3>1, <3>2, <3>4 DEF CallData
    <3> QED  BY <3>3, <3>5, <3>6
  <2>4. \/ call.todo = {} /\ Goto("ok")
        \/ Goto("error")
        \/ \E id \in call.todo :
             call' = [call EXCEPT !.id = id, !.source = scripts[id].source,
                                  !.pc = IF scripts[id].is_enabled THEN "launch" ELSE "next",
                                  !.todo = @ \ {id}]
    BY DEF LoadNext
  <2> QED  BY <2>1, <2>2, <2>3, <2>4
<1>5. ManagerTypeOK'  BY <1>1, <1>2, <1>4, ManagerTypeParts, ManagerTypePartsNext
<1>6. CallInv'  BY <1>1, <1>2, <1>3, <1>4 DEF CallInv
<1>7. StoredInv' /\ ExecutionsTracked' /\ StoredSourcesValid' /\ RemovedIsGone'
  BY <1>1, <1>4 DEF ManagerInv, StoredInv, ExecutionsTracked, StoredSourcesValid, RemovedIsGone
<1>8. WipeInv'  BY <1>1, <1>4 DEF WipeInv
<1>9. LoadInv'
  <2>1. \A x : IsEnabled(x)' <=> IsEnabled(x)  BY <1>1 DEF IsEnabled
  <2> QED  BY <1>1, <1>4, <2>1 DEF ManagerInv, LoadInv
<1>10. RunnerInv'
  BY <1>1, <1>3, <1>4 DEF ManagerInv, LoadInv, RunnerInv
<1> QED  BY <1>5, <1>6, <1>7, <1>8, <1>9, <1>10 DEF ManagerInv

LEMMA ManagerInvInit == ManagerInit => ManagerInv
<1> SUFFICES ASSUME ManagerInit PROVE ManagerInv  OBVIOUS
<1>1. /\ scripts = EmptyMap /\ runners = EmptyMap /\ execution = [id \in ScriptId |-> "none"]
      /\ call = Idle /\ removed = {} /\ unsaved = {}
  BY DEF ManagerInit
<1>2. DOMAIN scripts = {} /\ DOMAIN runners = {}  BY <1>1 DEF EmptyMap
<1>3. ManagerTypeOK
  <2>1. scripts \in [{} -> RowData] /\ runners \in [{} -> Source]  BY <1>1 DEF EmptyMap
  <2> QED  BY <1>1, <1>2, <2>1, IdleFacts, ManagerTypeParts
<1>4. CallInv /\ RunnerInv /\ StoredInv /\ WipeInv /\ LoadInv
  BY <1>1, <1>2, IdleFacts DEF CallInv, RunnerInv, StoredInv, WipeInv, LoadInv
<1>5. ExecutionsTracked /\ StoredSourcesValid /\ RemovedIsGone
  BY <1>1, <1>2, IdleFacts DEF ExecutionsTracked, StoredSourcesValid, RemovedIsGone
<1> QED  BY <1>3, <1>4, <1>5 DEF ManagerInv

LEMMA ManagerInvStutters == ManagerInv /\ UNCHANGED managerVars => ManagerInv'
<1> SUFFICES ASSUME ManagerInv, UNCHANGED managerVars PROVE ManagerInv'  OBVIOUS
<1>1. UNCHANGED <<scripts, runners, execution, call, removed, unsaved>>
  BY DEF managerVars, durable, executions, history
<1>2. ManagerTypeOK'  BY <1>1 DEF ManagerInv, ManagerTypeOK
<1>3. CallInv' /\ RunnerInv' /\ StoredInv' /\ WipeInv' /\ LoadInv'
  BY <1>1 DEF ManagerInv, CallInv, RunnerInv, StoredInv, WipeInv, LoadInv, IsEnabled
<1>4. ExecutionsTracked' /\ StoredSourcesValid' /\ RemovedIsGone'
  BY <1>1 DEF ManagerInv, ExecutionsTracked, StoredSourcesValid, RemovedIsGone
<1> QED  BY <1>2, <1>3, <1>4 DEF ManagerInv

LEMMA ManagerInvNext == ManagerInv /\ [ManagerNext]_managerVars => ManagerInv'
<1> SUFFICES ASSUME ManagerInv, [ManagerNext]_managerVars PROVE ManagerInv'  OBVIOUS
<1>1. CASE \E id \in ScriptId, source \in Source : PutScript(id, source)
  BY <1>1, PutScriptKeeps
<1>2. CASE \/ \E id \in ScriptId, enabled \in BOOLEAN : SetEnabled(id, enabled)
           \/ \E id \in ScriptId : RemoveScript(id)
           \/ RemoveAll
  BY <1>2, OtherCallsKeep
<1>3. CASE DropManager \/ Crash \/ \E id \in ScriptId : ExecutionPanics(id)
  BY <1>3, EnvironmentKeeps
<1>4. CASE Lookup  BY <1>4, LookupKeeps
<1>5. CASE StopAcknowledged  BY <1>5, StopAcknowledgedKeeps
<1>6. CASE LaunchValid \/ LaunchBroken  BY <1>6, LaunchKeeps
<1>7. CASE Insert  BY <1>7, InsertKeeps
<1>8. CASE Update  BY <1>8, UpdateKeeps
<1>9. CASE Delete  BY <1>9, DeleteKeeps
<1>10. CASE RemoveNext  BY <1>10, RemoveNextKeeps
<1>11. CASE Wipe  BY <1>11, WipeKeeps
<1>12. CASE LoadNext  BY <1>12, LoadNextKeeps
<1>13. CASE TakeResult  BY <1>13, TakeResultKeeps
<1>14. CASE UNCHANGED managerVars  BY <1>14, ManagerInvStutters
<1> QED
  BY <1>1, <1>2, <1>3, <1>4, <1>5, <1>6, <1>7, <1>8, <1>9, <1>10, <1>11, <1>12, <1>13, <1>14
  DEF ManagerNext, ManagerStep

LEMMA ManagerSpecInv == ManagerSpec => []ManagerInv
  BY ManagerInvInit, ManagerInvNext, PTL DEF ManagerSpec

(* The rows, the executions and the method in progress keep their types.    *)
THEOREM ManagerTypeCorrect == ManagerSpec => []ManagerTypeOK
<1>1. ManagerInv => ManagerTypeOK  BY DEF ManagerInv
<1> QED  BY <1>1, ManagerSpecInv, PTL

(* No execution runs away, whatever statement fails, thread panics or       *)
(* method is cut short by a crash of the box.                               *)
THEOREM NoExecutionRunsAway == ManagerSpec => []ExecutionsTracked
<1>1. ManagerInv => ExecutionsTracked  BY DEF ManagerInv
<1> QED  BY <1>1, ManagerSpecInv, PTL

(* A removal that returned Ok is final.                                     *)
THEOREM RemovalIsFinal == ManagerSpec => []RemovedIsGone
<1>1. ManagerInv => RemovedIsGone  BY DEF ManagerInv
<1> QED  BY <1>1, ManagerSpecInv, PTL

LEMMA LoadedIsEnabled == ManagerInv => LoadRunsEnabled
<1> SUFFICES ASSUME ManagerInv, call.op = "load", call.pc = "ok"
             PROVE  DOMAIN runners = {id \in DOMAIN scripts : scripts[id].is_enabled}
  BY DEF LoadRunsEnabled
<1>1. ASSUME NEW id \in DOMAIN scripts, IsEnabled(id) PROVE id \in DOMAIN runners
  BY <1>1 DEF ManagerInv, LoadInv
<1>2. ASSUME NEW id \in DOMAIN runners PROVE id \in DOMAIN scripts /\ IsEnabled(id)
  <2>1. unsaved = {}  BY DEF ManagerInv, LoadInv
  <2>2. id \in DOMAIN scripts /\ scripts[id] = Row(runners[id], TRUE)
    BY <2>1 DEF ManagerInv, StoredInv
  <2> QED  BY <2>2, RowFacts, Zenon DEF IsEnabled
<1> QED  BY <1>1, <1>2, Zenon DEF IsEnabled

(* What runs is what is stored, whatever fails and wherever the box crashes.*)
THEOREM RunsWhatIsStored == ManagerSpec => []ManagerAsStored
<1>1. ManagerInv => RunningAsStored
  BY DEF ManagerInv, StoredInv, RunningAsStored, Busy
<1>2. ManagerInv => StoredSourcesValid  BY DEF ManagerInv
<1>3. ManagerInv => ManagerAsStored
  BY <1>1, <1>2, LoadedIsEnabled DEF ManagerAsStored
<1> QED  BY <1>3, ManagerSpecInv, PTL
===============================================================================
