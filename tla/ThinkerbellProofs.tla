-------------------------- MODULE ThinkerbellProofs ---------------------------
(***************************************************************************)
(* Proofs about the adapter of Thinkerbell, which owns the manager of the  *)
(* scripts, for any scripts, sources and users and whatever fails.         *)
(***************************************************************************)
EXTENDS ThinkerbellAdapter, ScriptManagerProofs, FiniteSetTheorems

-----------------------------------------------------------------------------
(* The adapter runs its manager: each of its steps is one of the manager or *)
(* leaves it alone.                                                         *)

LEMMA AdapterNextIsManagerNext ==
  ASSUME [AdapterNext]_allVars
  PROVE  [ManagerNext]_managerVars
<1> USE DEF managerVars
<1>1. CASE \/ \E u \in User : UserRequests(u)
           \/ \E id \in ScriptId : StatementRequests(id)
           \/ PostFollowUp
           \/ \E id \in ScriptId : HandleAddRuleService(id) \/ HandleRemoveRuleService(id)
           \/ \E from \in Sender, r \in SetterRequest : HandleStaleSetter(from, r)
  BY <1>1 DEF UserRequests, StatementRequests, Post, PostFollowUp, HandleAddRuleService,
              HandleRemoveRuleService, HandleStaleSetter
<1>2. CASE UNCHANGED allVars
  BY <1>2 DEF allVars
<1>3. ASSUME NEW from \in Sender, NEW r \in SetterRequest, HandleSetter(from, r)
      PROVE  ManagerNext
  <2>1. r.id \in ScriptId /\ (r.op = "put" => r.source \in Source)
    BY DEF SetterRequest
  <2>2. CASE r.op = "put" /\ PutScript(r.id, r.source)
    BY <2>1, <2>2 DEF ManagerNext
  <2>3. CASE SetEnabled(r.id, TRUE) \/ SetEnabled(r.id, FALSE) \/ RemoveScript(r.id)
    BY <2>1, <2>3 DEF ManagerNext
  <2> QED  BY <1>3, <2>2, <2>3 DEF HandleSetter
<1>4. CASE AnswerSetter \/ ManagerGoesOn \/ InitSucceeds \/ InitFails
  BY <1>4 DEF AnswerSetter, ManagerGoesOn, InitSucceeds, InitFails, ManagerNext, ManagerStep
<1>5. CASE AdapterCrash \/ \E id \in ScriptId : AdapterExecutionPanics(id)
  BY <1>5 DEF AdapterCrash, AdapterExecutionPanics, ManagerNext
<1> QED  BY <1>1, <1>2, <1>3, <1>4, <1>5 DEF AdapterNext, MainStep

(* The adapter does to its manager what ManagerSpec allows and no more, so  *)
(* what is proved of the manager holds of the adapter, whatever its users   *)
(* and its scripts ask of it.                                               *)
THEOREM AdapterRunsManager == AdapterSpec => ManagerSpec
<1>1. AdapterInit => ManagerInit  BY DEF AdapterInit
<1>2. [AdapterNext]_allVars => [ManagerNext]_managerVars  BY AdapterNextIsManagerNext
<1> QED  BY <1>1, <1>2, PTL DEF AdapterSpec, ManagerSpec

-----------------------------------------------------------------------------
(* The inductive invariant of the adapter.                                  *)

(* A message that asks for an answer to s, or is about the service of id.   *)
Asks(msg, s) == msg.kind = "set" /\ msg.from = s
Concerns(msg, id) == msg.kind # "set" /\ msg.id = id

NeverAsked(q, s) == \A i \in DOMAIN q : ~Asks(q[i], s)
OnceAsked(q, s) == \E i \in DOMAIN q : \A j \in DOMAIN q : Asks(q[j], s) <=> j = i

(* A caller that is blocked has its request served, or once in the channel. *)
CallerInv ==
  \A s \in Sender :
    IF ~waiting[s] \/ Asks(serving, s)
    THEN (Asks(serving, s) => waiting[s]) /\ NeverAsked(queue, s)
    ELSE OnceAsked(queue, s)

(* The manager works for a request when the adapter is up, else it loads.   *)
PhaseInv ==
  /\ phase = "up" =>
       /\ call.op \notin {"load", "remove_all"}
       /\ serving.kind = "set" <=> call.pc # "idle"
  /\ phase = "loading" =>
       /\ call.op = "load" /\ call.pc # "dropped"
       /\ queue = <<>> /\ rules = {} /\ half = {} /\ unserved = {}
       /\ serving = Nothing /\ orphaned = {}
  /\ phase = "down" => call.op = "load" /\ call.pc = "dropped" /\ serving = Nothing

(* The rows, and those of the script that was just put or removed.          *)
RowsInv ==
  /\ IsFiniteSet(DOMAIN scripts)
  /\ call.op = "put" /\ call.pc = "ok" => call.id \in DOMAIN scripts
  /\ call.op = "remove" /\ call.pc = "ok" => call.id \notin DOMAIN scripts

(* The service of a script is due: it is stored, and its removal has not    *)
(* failed.                                                                  *)
IsDue(id) == id \in DOMAIN scripts \ orphaned

(* The scripts for which a service was asked for, and added or not.         *)
Tried == rules \cup unserved

(* WillBeAsked, of any channel q and any scripts R that were tried.         *)
IsLastUpdate(q, i, id) ==
  Concerns(q[i], id) /\ \A j \in DOMAIN q : Concerns(q[j], id) => j <= i
EndsServed(q, R, id) ==
  IF \A i \in DOMAIN q : ~Concerns(q[i], id)
  THEN id \in R
  ELSE \E i \in DOMAIN q : IsLastUpdate(q, i, id) /\ q[i].kind = "add"

(* Once the channel is empty the services are the due ones, but for the     *)
(* message that the loop has still to post.                                 *)
ServiceInv ==
  phase = "up" =>
    /\ serving.kind = "add" => IsDue(serving.id)
    /\ serving.kind = "remove" => ~IsDue(serving.id)
    /\ \A id \in ScriptId :
         \/ EndsServed(queue, Tried, id) <=> IsDue(id)
         \/ serving.kind \in {"add", "remove"} /\ serving.id = id
         \/ serving.kind = "set" /\ call.id = id /\ call.pc = "ok" /\ call.op \in {"put", "remove"}

(* A script with a rule has a whole service.                                *)
WholeInv == rules \cap (unserved \cup half) = {}

AdapterInv == AdapterTypeOK /\ CallerInv /\ PhaseInv /\ RowsInv /\ ServiceInv /\ WholeInv

LEMMA EndsServedIsWillBeAsked ==
  \A id : EndsServed(queue, Tried, id) <=> WillBeAsked(id)
<1> SUFFICES ASSUME NEW id PROVE EndsServed(queue, Tried, id) <=> WillBeAsked(id)
  OBVIOUS
<1>1. \A i : i \in Updates(id) <=> i \in DOMAIN queue /\ Concerns(queue[i], id)
  BY DEF Updates, Concerns
<1>2. Updates(id) = {} <=> \A i \in DOMAIN queue : ~Concerns(queue[i], id)
  BY <1>1
<1>3. (\E i \in Updates(id) : (\A j \in Updates(id) : j <= i) /\ queue[i].kind = "add")
        <=> \E i \in DOMAIN queue : IsLastUpdate(queue, i, id) /\ queue[i].kind = "add"
  BY <1>1 DEF IsLastUpdate
<1> QED  BY <1>2, <1>3, Zenon DEF EndsServed, WillBeAsked, Tried

-----------------------------------------------------------------------------
(* The channel.                                                             *)

LEMMA ChannelFacts ==
  ASSUME NEW T, NEW q \in Seq(T), NEW msg \in T
  PROVE  /\ DOMAIN q = 1..Len(q) /\ Len(q) \in Nat
         /\ Append(q, msg) \in Seq(T)
         /\ DOMAIN Append(q, msg) = 1..(Len(q) + 1)
         /\ \A i \in 1..Len(q) : Append(q, msg)[i] = q[i]
         /\ Append(q, msg)[Len(q) + 1] = msg
         /\ q # <<>> =>
              /\ Tail(q) \in Seq(T) /\ Head(q) = q[1] /\ Len(q) >= 1
              /\ DOMAIN Tail(q) = 1..(Len(q) - 1)
              /\ \A i \in 1..(Len(q) - 1) : Tail(q)[i] = q[i + 1]
  OBVIOUS

(* A message posted decides about its script.                               *)
LEMMA PostDecides ==
  ASSUME NEW T, NEW q \in Seq(T), NEW msg \in T, NEW R, NEW id
  PROVE  EndsServed(Append(q, msg), R, id) <=>
           IF Concerns(msg, id) THEN msg.kind = "add" ELSE EndsServed(q, R, id)
<1> DEFINE p == Append(q, msg)
           n == Len(q)
<1>1. /\ n \in Nat /\ DOMAIN q = 1..n /\ DOMAIN p = 1..(n + 1)
      /\ \A i \in 1..n : p[i] = q[i]
      /\ p[n + 1] = msg
  BY ChannelFacts
<1> HIDE DEF p, n
<1>2. CASE Concerns(msg, id)
  <2>1. ~ \A i \in DOMAIN p : ~Concerns(p[i], id)  BY <1>1, <1>2
  <2>2. \A i \in DOMAIN p : IsLastUpdate(p, i, id) <=> i = n + 1
    BY <1>1, <1>2 DEF IsLastUpdate
  <2>3. n + 1 \in DOMAIN p  BY <1>1
  <2>4. EndsServed(p, R, id) <=> msg.kind = "add"
    BY <1>1, <2>1, <2>2, <2>3 DEF EndsServed
  <2> QED  BY <1>2, <2>4 DEF p
<1>3. CASE ~Concerns(msg, id)
  <2>1. \A i \in 1..n : Concerns(p[i], id) <=> Concerns(q[i], id)  BY <1>1
  <2>2. ~Concerns(p[n + 1], id)  BY <1>1, <1>3
  <2>3. (\A i \in DOMAIN p : ~Concerns(p[i], id)) <=> \A i \in DOMAIN q : ~Concerns(q[i], id)
    BY <1>1, <2>1, <2>2
  <2>4. \A i \in 1..n : IsLastUpdate(p, i, id) <=> IsLastUpdate(q, i, id)
    BY <1>1, <2>1, <2>2 DEF IsLastUpdate
  <2>5. ~IsLastUpdate(p, n + 1, id)  BY <2>2 DEF IsLastUpdate
  <2>6. (\E i \in DOMAIN p : IsLastUpdate(p, i, id) /\ p[i].kind = "add")
          <=> \E i \in DOMAIN q : IsLastUpdate(q, i, id) /\ q[i].kind = "add"
    BY <1>1, <2>4, <2>5
  <2>7. EndsServed(p, R, id) <=> EndsServed(q, R, id)
    BY <2>3, <2>6, Zenon DEF EndsServed
  <2> QED  BY <1>3, <2>7 DEF p
<1> QED  BY <1>2, <1>3

(* Handling the first message changes nothing in what the channel will      *)
(* leave, once the rules have been updated as it says.                      *)
LEMMA HandlingChangesNothing ==
  ASSUME NEW T, NEW q \in Seq(T), q # <<>>, NEW R, NEW U, NEW id,
         Concerns(q[1], id) => (id \in U <=> q[1].kind = "add"),
         ~Concerns(q[1], id) => (id \in U <=> id \in R)
  PROVE  EndsServed(Tail(q), U, id) <=> EndsServed(q, R, id)
<1> DEFINE p == Tail(q)
           n == Len(q)
<1>1. /\ n \in Nat /\ n >= 1 /\ DOMAIN q = 1..n /\ DOMAIN p = 1..(n - 1)
      /\ \A i \in 1..(n - 1) : p[i] = q[i + 1]
  OBVIOUS
<1> HIDE DEF p, n
<1>2. /\ \A i \in 1..(n - 1) : i + 1 \in 1..n /\ (Concerns(p[i], id) <=> Concerns(q[i + 1], id))
      /\ \A i \in 1..n : i # 1 => i - 1 \in 1..(n - 1) /\ (Concerns(p[i - 1], id) <=> Concerns(q[i], id))
  BY <1>1
<1>3. CASE \A i \in DOMAIN p : ~Concerns(p[i], id)
  <2>1. \A i \in 1..n : i # 1 => ~Concerns(q[i], id)  BY <1>1, <1>2, <1>3
  <2>2. EndsServed(p, U, id) <=> id \in U  BY <1>3 DEF EndsServed
  <2>3. CASE Concerns(q[1], id)
    <3>1. \A i \in DOMAIN q : IsLastUpdate(q, i, id) <=> i = 1
      BY <1>1, <2>1, <2>3 DEF IsLastUpdate
    <3>2. 1 \in DOMAIN q  BY <1>1
    <3>3. EndsServed(q, R, id) <=> q[1].kind = "add"
      BY <2>3, <3>1, <3>2 DEF EndsServed
    <3> QED  BY <2>2, <2>3, <3>3 DEF p
  <2>4. CASE ~Concerns(q[1], id)
    <3>1. \A i \in DOMAIN q : ~Concerns(q[i], id)  BY <1>1, <2>1, <2>4
    <3>2. EndsServed(q, R, id) <=> id \in R  BY <3>1 DEF EndsServed
    <3> QED  BY <2>2, <2>4, <3>2 DEF p
  <2> QED  BY <2>3, <2>4
<1>4. CASE ~ \A i \in DOMAIN p : ~Concerns(p[i], id)
  <2>1. PICK k \in 1..(n - 1) : Concerns(p[k], id)  BY <1>1, <1>4
  <2>2. k + 1 \in 1..n /\ Concerns(q[k + 1], id) /\ k + 1 > 1  BY <1>2, <2>1
  <2>3. ~IsLastUpdate(q, 1, id)  BY <1>1, <2>2 DEF IsLastUpdate
  <2>4. \A i \in 1..(n - 1) : IsLastUpdate(p, i, id) <=> IsLastUpdate(q, i + 1, id)
    <3> SUFFICES ASSUME NEW i \in 1..(n - 1)
                 PROVE  IsLastUpdate(p, i, id) <=> IsLastUpdate(q, i + 1, id)
      OBVIOUS
    <3>1. ASSUME IsLastUpdate(p, i, id) PROVE IsLastUpdate(q, i + 1, id)
      <4>1. ASSUME NEW j \in 1..n, Concerns(q[j], id) PROVE j <= i + 1
        <5>1. CASE j = 1  BY <1>1, <5>1
        <5>2. CASE j # 1
          <6>1. j - 1 \in 1..(n - 1) /\ Concerns(p[j - 1], id)  BY <1>2, <4>1, <5>2
          <6>2. j - 1 <= i  BY <1>1, <3>1, <6>1 DEF IsLastUpdate
          <6> QED  BY <1>1, <6>2
        <5> QED  BY <5>1, <5>2
      <4> QED  BY <1>1, <1>2, <3>1, <4>1 DEF IsLastUpdate
    <3>2. ASSUME IsLastUpdate(q, i + 1, id) PROVE IsLastUpdate(p, i, id)
      <4>1. ASSUME NEW j \in 1..(n - 1), Concerns(p[j], id) PROVE j <= i
        <5>1. j + 1 \in 1..n /\ Concerns(q[j + 1], id)  BY <1>2, <4>1
        <5>2. j + 1 <= i + 1  BY <1>1, <3>2, <5>1 DEF IsLastUpdate
        <5> QED  BY <5>2
      <4> QED  BY <1>1, <1>2, <3>2, <4>1 DEF IsLastUpdate
    <3> QED  BY <3>1, <3>2
  <2>5. (\E i \in DOMAIN p : IsLastUpdate(p, i, id) /\ p[i].kind = "add")
          <=> \E i \in DOMAIN q : IsLastUpdate(q, i, id) /\ q[i].kind = "add"
    <3>1. ASSUME NEW i \in 1..(n - 1), IsLastUpdate(p, i, id), p[i].kind = "add"
          PROVE  i + 1 \in 1..n /\ IsLastUpdate(q, i + 1, id) /\ q[i + 1].kind = "add"
      BY <1>1, <2>4, <3>1
    <3>2. ASSUME NEW i \in 1..n, IsLastUpdate(q, i, id), q[i].kind = "add"
          PROVE  i - 1 \in 1..(n - 1) /\ IsLastUpdate(p, i - 1, id) /\ p[i - 1].kind = "add"
      <4>1. i # 1 /\ i - 1 \in 1..(n - 1) /\ (i - 1) + 1 = i  BY <1>1, <2>3, <3>2
      <4> QED  BY <1>1, <2>4, <3>2, <4>1
    <3> QED  BY <1>1, <3>1, <3>2
  <2>6. ~ \A i \in DOMAIN q : ~Concerns(q[i], id)  BY <1>1, <2>2
  <2> QED  BY <1>4, <2>5, <2>6, Zenon DEF EndsServed, p
<1> QED  BY <1>3, <1>4

LEMMA PostAsks ==
  ASSUME NEW T, NEW q \in Seq(T), NEW msg \in T, NEW s
  PROVE  /\ ~Asks(msg, s) => /\ NeverAsked(q, s) => NeverAsked(Append(q, msg), s)
                             /\ OnceAsked(q, s) => OnceAsked(Append(q, msg), s)
         /\ Asks(msg, s) /\ NeverAsked(q, s) => OnceAsked(Append(q, msg), s)
<1> DEFINE p == Append(q, msg)
           n == Len(q)
<1>1. /\ n \in Nat /\ DOMAIN q = 1..n /\ DOMAIN p = 1..(n + 1)
      /\ \A i \in 1..n : p[i] = q[i]
      /\ p[n + 1] = msg
  BY ChannelFacts
<1> HIDE DEF p, n
<1>2. ASSUME ~Asks(msg, s), NeverAsked(q, s) PROVE NeverAsked(p, s)
  BY <1>1, <1>2 DEF NeverAsked
<1>3. ASSUME ~Asks(msg, s), OnceAsked(q, s) PROVE OnceAsked(p, s)
  <2>1. PICK i \in DOMAIN q : \A j \in DOMAIN q : Asks(q[j], s) <=> j = i
    BY <1>3, Zenon DEF OnceAsked
  <2>2. i \in DOMAIN p /\ \A j \in DOMAIN p : Asks(p[j], s) <=> j = i
    BY <1>1, <1>3, <2>1
  <2> QED  BY <2>2 DEF OnceAsked
<1>4. ASSUME Asks(msg, s), NeverAsked(q, s) PROVE OnceAsked(p, s)
  <2>1. n + 1 \in DOMAIN p /\ \A j \in DOMAIN p : Asks(p[j], s) <=> j = n + 1
    BY <1>1, <1>4 DEF NeverAsked
  <2> QED  BY <2>1 DEF OnceAsked
<1> QED  BY <1>2, <1>3, <1>4 DEF p

LEMMA ReceiveAsks ==
  ASSUME NEW T, NEW q \in Seq(T), q # <<>>, NEW s
  PROVE  /\ NeverAsked(q, s) => NeverAsked(Tail(q), s) /\ ~Asks(q[1], s)
         /\ OnceAsked(q, s) /\ ~Asks(q[1], s) => OnceAsked(Tail(q), s)
         /\ OnceAsked(q, s) /\ Asks(q[1], s) => NeverAsked(Tail(q), s)
<1> DEFINE p == Tail(q)
           n == Len(q)
<1>1. /\ n \in Nat /\ n >= 1 /\ DOMAIN q = 1..n /\ DOMAIN p = 1..(n - 1)
      /\ \A i \in 1..(n - 1) : i + 1 \in 1..n /\ p[i] = q[i + 1]
  OBVIOUS
<1> HIDE DEF p, n
<1>2. ASSUME NeverAsked(q, s) PROVE NeverAsked(p, s) /\ ~Asks(q[1], s)
  BY <1>1, <1>2 DEF NeverAsked
<1>3. ASSUME OnceAsked(q, s), ~Asks(q[1], s) PROVE OnceAsked(p, s)
  <2>1. PICK i \in DOMAIN q : \A j \in DOMAIN q : Asks(q[j], s) <=> j = i
    BY <1>3, Zenon DEF OnceAsked
  <2>2. i # 1 /\ i - 1 \in 1..(n - 1)  BY <1>1, <1>3, <2>1
  <2>3. ASSUME NEW j \in 1..(n - 1) PROVE Asks(p[j], s) <=> j = i - 1
    <3>1. p[j] = q[j + 1] /\ j + 1 \in 1..n  BY <1>1
    <3>2. Asks(q[j + 1], s) <=> j + 1 = i  BY <1>1, <2>1, <3>1
    <3>3. j + 1 = i <=> j = i - 1  BY <1>1
    <3> QED  BY <3>1, <3>2, <3>3, Zenon
  <2>4. PICK k \in DOMAIN p : k = i - 1  BY <1>1, <2>2
  <2>5. \A j \in DOMAIN p : Asks(p[j], s) <=> j = k  BY <1>1, <2>3, <2>4
  <2> QED  BY <2>5, Zenon DEF OnceAsked
<1>4. ASSUME OnceAsked(q, s), Asks(q[1], s) PROVE NeverAsked(p, s)
  <2>1. PICK i \in DOMAIN q : \A j \in DOMAIN q : Asks(q[j], s) <=> j = i
    BY <1>4, Zenon DEF OnceAsked
  <2>2. i = 1  BY <1>1, <1>4, <2>1
  <2>3. \A j \in 1..(n - 1) : ~Asks(p[j], s)  BY <1>1, <2>1, <2>2
  <2> QED  BY <1>1, <2>3 DEF NeverAsked
<1> QED  BY <1>2, <1>3, <1>4 DEF p

LEMMA MessageFacts ==
  /\ \A from, r : /\ RespondToSetter(from, r).kind = "set"
                  /\ RespondToSetter(from, r).from = from
                  /\ from \in Sender /\ r \in SetterRequest => RespondToSetter(from, r) \in ThinkAction
  /\ \A id : /\ AddRuleService(id).kind = "add" /\ AddRuleService(id).id = id
             /\ RemoveRuleService(id).kind = "remove" /\ RemoveRuleService(id).id = id
             /\ id \in ScriptId =>
                  AddRuleService(id) \in ThinkAction /\ RemoveRuleService(id) \in ThinkAction
  /\ \A msg \in ThinkAction :
       /\ msg.kind \in {"set", "add", "remove"}
       /\ msg.kind = "set" => msg.from \in Sender
       /\ msg.kind # "set" => msg.id \in ScriptId
  /\ Nothing.kind = "nothing"
  BY DEF RespondToSetter, AddRuleService, RemoveRuleService, Nothing, ThinkAction

(* The type invariant, but for the manager's part.                          *)
LEMMA AdapterTypeParts ==
  ASSUME AdapterTypeOK
  PROVE  /\ phase \in {"loading", "up", "down"}
         /\ queue \in Seq(ThinkAction)
         /\ rules \subseteq ScriptId /\ half \subseteq ScriptId /\ unserved \subseteq ScriptId
         /\ serving \in ThinkAction \cup {Nothing}
         /\ waiting \in [Sender -> BOOLEAN]
         /\ orphaned \subseteq ScriptId
  BY DEF AdapterTypeOK

(* While the adapter is loading or down nothing is served.                  *)
LEMMA ServingIsUp ==
  ASSUME AdapterInv, serving # Nothing
  PROVE  phase = "up" /\ serving \in ThinkAction
<1>1. phase = "up"  BY AdapterTypeParts DEF AdapterInv, PhaseInv
<1> QED  BY <1>1, AdapterTypeParts DEF AdapterInv

-----------------------------------------------------------------------------
(* The invariant of the adapter, step by step: a request is posted, ...     *)

LEMMA PostKeeps ==
  ASSUME AdapterInv, ManagerInv', NEW from \in Sender, NEW r \in SetterRequest, Post(from, r)
  PROVE  AdapterInv'
<1> DEFINE msg == RespondToSetter(from, r)
<1>1. /\ phase = "up" /\ ~waiting[from]
      /\ queue' = Append(queue, msg)
      /\ waiting' = [waiting EXCEPT ![from] = TRUE]
      /\ UNCHANGED <<scripts, call, phase, rules, half, unserved, serving, orphaned>>
  BY DEF Post, managerVars, durable, services
<1>2. /\ queue \in Seq(ThinkAction) /\ msg \in ThinkAction
      /\ waiting \in [Sender -> BOOLEAN]
  BY AdapterTypeParts, MessageFacts DEF AdapterInv
<1>3. /\ \A id : ~Concerns(msg, id)
      /\ \A s : Asks(msg, s) <=> s = from
  BY MessageFacts DEF Concerns, Asks
<1> HIDE DEF msg
<1>4. AdapterTypeOK'
  <2>1. ManagerTypeOK'  BY DEF ManagerInv
  <2>2. queue' \in Seq(ThinkAction)  BY <1>1, <1>2, ChannelFacts
  <2>3. waiting' \in [Sender -> BOOLEAN]  BY <1>1, <1>2
  <2> QED  BY <1>1, <2>1, <2>2, <2>3, AdapterTypeParts DEF AdapterInv, AdapterTypeOK
<1>5. CallerInv'
  <2> SUFFICES ASSUME NEW s \in Sender
               PROVE  IF ~waiting'[s] \/ Asks(serving', s)
                      THEN (Asks(serving', s) => waiting'[s]) /\ NeverAsked(queue', s)
                      ELSE OnceAsked(queue', s)
    BY DEF CallerInv
  <2>0. serving' = serving  BY <1>1
  <2>1. CASE s = from
    <3>1. waiting'[s] /\ ~Asks(serving, s) /\ NeverAsked(queue, s)
      BY <1>1, <1>2, <2>1, Zenon DEF AdapterInv, CallerInv
    <3>2. OnceAsked(queue', s)  BY <1>1, <1>2, <1>3, <2>1, <3>1, PostAsks
    <3> QED  BY <2>0, <3>1, <3>2
  <2>2. CASE s # from
    <3>1. waiting'[s] <=> waiting[s]  BY <1>1, <1>2, <2>2
    <3>2. /\ NeverAsked(queue, s) => NeverAsked(queue', s)
          /\ OnceAsked(queue, s) => OnceAsked(queue', s)
      BY <1>1, <1>2, <1>3, <2>2, PostAsks
    <3> QED  BY <2>0, <3>1, <3>2, Zenon DEF AdapterInv, CallerInv
  <2> QED  BY <2>1, <2>2
<1>6. PhaseInv' /\ RowsInv'
  BY <1>1 DEF AdapterInv, PhaseInv, RowsInv
<1>7. ServiceInv'
  <2>1. \A id : EndsServed(queue', Tried', id) <=> EndsServed(queue, Tried, id)
    BY <1>1, <1>2, <1>3, PostDecides DEF Tried
  <2>2. \A id : IsDue(id)' <=> IsDue(id)  BY <1>1 DEF IsDue
  <2> QED  BY <1>1, <2>1, <2>2 DEF AdapterInv, ServiceInv, IsDue
<1>w. WholeInv'  BY <1>1 DEF AdapterInv, WholeInv
<1> QED  BY <1>4, <1>5, <1>6, <1>7, <1>w DEF AdapterInv

(* ... the main loop takes a message from the channel, ...                  *)
LEMMA ReceiveFacts ==
  ASSUME AdapterInv, NEW msg, Receive(msg)
  PROVE  /\ queue # <<>> /\ queue \in Seq(ThinkAction) /\ queue[1] = msg /\ msg \in ThinkAction
         /\ queue' = Tail(queue) /\ queue' \in Seq(ThinkAction)
         /\ phase = "up" /\ phase' = "up" /\ serving = Nothing /\ UNCHANGED orphaned
         /\ \A s \in Sender : (waiting[s] => OnceAsked(queue, s)) /\ (~waiting[s] => NeverAsked(queue, s))
         /\ \A id \in ScriptId : EndsServed(queue, Tried, id) <=> IsDue(id)
<1>1. /\ queue # <<>> /\ Head(queue) = msg /\ queue' = Tail(queue)
      /\ phase = "up" /\ phase' = phase /\ serving = Nothing /\ UNCHANGED orphaned
  BY DEF Receive
<1>2. queue \in Seq(ThinkAction)  BY AdapterTypeParts DEF AdapterInv
<1>3. queue[1] = msg /\ msg \in ThinkAction /\ queue' \in Seq(ThinkAction)
  BY <1>1, <1>2
<1>4. serving.kind = "nothing"  BY <1>1, MessageFacts
<1>5. \A s : ~Asks(serving, s)  BY <1>4 DEF Asks
<1>6. \A s \in Sender : (waiting[s] => OnceAsked(queue, s)) /\ (~waiting[s] => NeverAsked(queue, s))
  <2> SUFFICES ASSUME NEW s \in Sender
               PROVE  (waiting[s] => OnceAsked(queue, s)) /\ (~waiting[s] => NeverAsked(queue, s))
    OBVIOUS
  <2>1. IF ~waiting[s] \/ Asks(serving, s)
        THEN (Asks(serving, s) => waiting[s]) /\ NeverAsked(queue, s)
        ELSE OnceAsked(queue, s)
    BY DEF AdapterInv, CallerInv
  <2>2. ~Asks(serving, s)  BY <1>5
  <2>3. CASE waiting[s]  BY <2>1, <2>2, <2>3
  <2>4. CASE ~waiting[s]  BY <2>1, <2>2, <2>4
  <2> QED  BY <2>3, <2>4
<1>7. \A id \in ScriptId : EndsServed(queue, Tried, id) <=> IsDue(id)
  BY <1>1, <1>4 DEF AdapterInv, ServiceInv
<1> QED  BY <1>1, <1>2, <1>3, <1>4, <1>6, <1>7

LEMMA HandleRuleServiceKeeps ==
  ASSUME AdapterInv, ManagerInv', NEW id \in ScriptId,
         HandleAddRuleService(id) \/ HandleRemoveRuleService(id)
  PROVE  AdapterInv'
<1>1. PICK msg \in {AddRuleService(id), RemoveRuleService(id)} :
        /\ Receive(msg)
        /\ Tried' = IF msg.kind = "add" THEN Tried \cup {id} ELSE Tried \ {id}
        /\ rules' \subseteq ScriptId /\ half' \subseteq ScriptId /\ unserved' \subseteq ScriptId
        /\ WholeInv'
        /\ UNCHANGED <<scripts, call, serving, waiting>>
  <2>t. /\ rules \subseteq ScriptId /\ half \subseteq ScriptId /\ unserved \subseteq ScriptId
        /\ WholeInv
    BY AdapterTypeParts DEF AdapterInv
  <2>1. CASE HandleAddRuleService(id)
    <3>1. /\ Receive(AddRuleService(id)) /\ AddRuleService(id).kind = "add"
          /\ UNCHANGED <<scripts, call, serving, waiting>>
      BY <2>1, MessageFacts DEF HandleAddRuleService, managerVars, durable
    <3>2. CASE id \in rules
      <4>1. rules' = rules /\ half' = half /\ unserved' = unserved
        BY <2>1, <3>2 DEF HandleAddRuleService, services
      <4>2. Tried' = Tried \cup {id}  BY <3>2, <4>1 DEF Tried
      <4> QED  BY <2>t, <3>1, <4>1, <4>2 DEF WholeInv
    <3>3. CASE id \notin rules
      <4>1. AddService(id)  BY <2>1, <3>3 DEF HandleAddRuleService
      <4>2. Tried' = Tried \cup {id}  BY <4>1 DEF AddService, Tried
      <4>3. /\ rules' \subseteq ScriptId /\ half' \subseteq ScriptId /\ unserved' \subseteq ScriptId
            /\ WholeInv'
        BY <2>t, <3>3, <4>1 DEF AddService, WholeInv
      <4> QED  BY <3>1, <4>2, <4>3
    <3> QED  BY <3>2, <3>3
  <2>2. CASE HandleRemoveRuleService(id)
    <3>1. /\ Receive(RemoveRuleService(id)) /\ RemoveRuleService(id).kind = "remove"
          /\ UNCHANGED <<scripts, call, serving, waiting>>
          /\ rules' = rules \ {id} /\ unserved' = unserved \ {id} /\ half' = half
      BY <2>2, MessageFacts DEF HandleRemoveRuleService, managerVars, durable
    <3>2. Tried' = Tried \ {id}  BY <3>1 DEF Tried
    <3>3. WholeInv'  BY <2>t, <3>1 DEF WholeInv
    <3> QED  BY <2>t, <3>1, <3>2, <3>3
  <2> QED  BY <2>1, <2>2
<1>2. /\ queue # <<>> /\ queue \in Seq(ThinkAction) /\ queue[1] = msg
      /\ queue' = Tail(queue) /\ queue' \in Seq(ThinkAction)
      /\ phase = "up" /\ phase' = "up" /\ serving = Nothing /\ orphaned' = orphaned
      /\ \A s \in Sender : (waiting[s] => OnceAsked(queue, s)) /\ (~waiting[s] => NeverAsked(queue, s))
      /\ \A x \in ScriptId : EndsServed(queue, Tried, x) <=> IsDue(x)
  BY <1>1, ReceiveFacts
<1>3. msg.kind \in {"add", "remove"} /\ msg.id = id
  BY MessageFacts
<1>4. \A s : ~Asks(msg, s) /\ ~Asks(serving, s)
  BY <1>2, <1>3, MessageFacts DEF Asks
<1>5. AdapterTypeOK'
  <2>1. ManagerTypeOK'  BY DEF ManagerInv
  <2>2. rules' \subseteq ScriptId /\ half' \subseteq ScriptId /\ unserved' \subseteq ScriptId
    BY <1>1
  <2> QED  BY <1>1, <1>2, <2>1, <2>2, AdapterTypeParts DEF AdapterInv, AdapterTypeOK
<1>6. CallerInv'
  <2> SUFFICES ASSUME NEW s \in Sender
               PROVE  (waiting'[s] => OnceAsked(queue', s)) /\ (~waiting'[s] => NeverAsked(queue', s))
    BY <1>1, <1>4 DEF CallerInv
  <2>1. waiting' = waiting  BY <1>1
  <2>2. (waiting[s] => OnceAsked(queue, s)) /\ (~waiting[s] => NeverAsked(queue, s))  BY <1>2
  <2>3. /\ NeverAsked(queue, s) => NeverAsked(queue', s)
        /\ OnceAsked(queue, s) => OnceAsked(queue', s)
    BY <1>2, <1>4, ReceiveAsks
  <2> QED  BY <2>1, <2>2, <2>3
<1>7. PhaseInv' /\ RowsInv'
  BY <1>1, <1>2 DEF AdapterInv, PhaseInv, RowsInv
<1>8. ServiceInv'
  <2>1. ASSUME NEW x \in ScriptId
        PROVE  EndsServed(queue', Tried', x) <=> EndsServed(queue, Tried, x)
    <3>1. Concerns(queue[1], x) <=> x = id
      BY <1>2, <1>3 DEF Concerns
    <3>2. Concerns(queue[1], x) => (x \in Tried' <=> queue[1].kind = "add")
      BY <1>1, <1>2, <1>3, <3>1
    <3>3. ~Concerns(queue[1], x) => (x \in Tried' <=> x \in Tried)
      BY <1>1, <1>2, <3>1
    <3> QED  BY <1>2, <3>2, <3>3, HandlingChangesNothing
  <2>2. \A x : IsDue(x)' <=> IsDue(x)  BY <1>1, <1>2 DEF IsDue
  <2>3. serving'.kind = "nothing"  BY <1>1, <1>2, MessageFacts
  <2>4. \A x \in ScriptId : EndsServed(queue', Tried', x) <=> IsDue(x)'
    BY <1>2, <2>1, <2>2
  <2> QED  BY <2>3, <2>4 DEF ServiceInv
<1>w. WholeInv'  BY <1>1
<1> QED  BY <1>5, <1>6, <1>7, <1>8, <1>w DEF AdapterInv

LEMMA HandleStaleSetterKeeps ==
  ASSUME AdapterInv, ManagerInv', NEW from \in Sender, NEW r \in SetterRequest,
         HandleStaleSetter(from, r)
  PROVE  AdapterInv'
<1> DEFINE msg == RespondToSetter(from, r)
<1>1. /\ Receive(msg)
      /\ waiting' = [waiting EXCEPT ![from] = FALSE]
      /\ UNCHANGED <<scripts, call, serving, rules, half, unserved>>
  BY DEF HandleStaleSetter, managerVars, durable, services
<1>2. /\ queue # <<>> /\ queue \in Seq(ThinkAction) /\ queue[1] = msg
      /\ queue' = Tail(queue) /\ queue' \in Seq(ThinkAction)
      /\ phase = "up" /\ phase' = "up" /\ serving = Nothing /\ orphaned' = orphaned
      /\ \A s \in Sender : (waiting[s] => OnceAsked(queue, s)) /\ (~waiting[s] => NeverAsked(queue, s))
      /\ \A x \in ScriptId : EndsServed(queue, Tried, x) <=> IsDue(x)
  BY <1>1, ReceiveFacts
<1>3. /\ \A s : Asks(queue[1], s) <=> s = from
      /\ \A s : ~Asks(serving, s)
      /\ \A x : ~Concerns(queue[1], x)
  BY <1>2, MessageFacts DEF Asks, Concerns
<1> HIDE DEF msg
<1>4. waiting \in [Sender -> BOOLEAN]  BY AdapterTypeParts DEF AdapterInv
<1>5. AdapterTypeOK'
  <2>1. ManagerTypeOK'  BY DEF ManagerInv
  <2>2. waiting' \in [Sender -> BOOLEAN]  BY <1>1, <1>4
  <2> QED  BY <1>1, <1>2, <2>1, <2>2, AdapterTypeParts DEF AdapterInv, AdapterTypeOK
<1>6. CallerInv'
  <2> SUFFICES ASSUME NEW s \in Sender
               PROVE  (waiting'[s] => OnceAsked(queue', s)) /\ (~waiting'[s] => NeverAsked(queue', s))
    BY <1>1, <1>3 DEF CallerInv
  <2>1. (waiting[s] => OnceAsked(queue, s)) /\ (~waiting[s] => NeverAsked(queue, s))  BY <1>2
  <2>2. /\ NeverAsked(queue, s) => NeverAsked(queue', s) /\ ~Asks(queue[1], s)
        /\ OnceAsked(queue, s) /\ ~Asks(queue[1], s) => OnceAsked(queue', s)
        /\ OnceAsked(queue, s) /\ Asks(queue[1], s) => NeverAsked(queue', s)
    BY <1>2, ReceiveAsks
  <2>3. CASE s = from
    <3>1. ~waiting'[s]  BY <1>1, <1>4, <2>3
    <3> QED  BY <1>3, <2>1, <2>2, <2>3, <3>1
  <2>4. CASE s # from
    <3>1. waiting'[s] <=> waiting[s]  BY <1>1, <1>4, <2>4
    <3> QED  BY <1>3, <2>1, <2>2, <2>4, <3>1
  <2> QED  BY <2>3, <2>4
<1>7. PhaseInv' /\ RowsInv'
  BY <1>1, <1>2 DEF AdapterInv, PhaseInv, RowsInv
<1>8. ServiceInv'
  <2>1. ASSUME NEW x \in ScriptId
        PROVE  EndsServed(queue', Tried', x) <=> EndsServed(queue, Tried, x)
    <3>1. Tried' = Tried  BY <1>1 DEF Tried
    <3> QED  BY <1>2, <1>3, <3>1, HandlingChangesNothing
  <2>2. \A x : IsDue(x)' <=> IsDue(x)  BY <1>1, <1>2 DEF IsDue
  <2>3. serving'.kind = "nothing"  BY <1>1, <1>2, MessageFacts
  <2>4. \A x \in ScriptId : EndsServed(queue', Tried', x) <=> IsDue(x)'
    BY <1>2, <2>1, <2>2
  <2> QED  BY <2>3, <2>4 DEF ServiceInv
<1>w. WholeInv'  BY <1>1 DEF AdapterInv, WholeInv
<1> QED  BY <1>5, <1>6, <1>7, <1>8, <1>w DEF AdapterInv

LEMMA HandleSetterKeeps ==
  ASSUME AdapterInv, ManagerInv', NEW from \in Sender, NEW r \in SetterRequest,
         HandleSetter(from, r)
  PROVE  AdapterInv'
<1> DEFINE msg == RespondToSetter(from, r)
<1>1. /\ Receive(msg) /\ serving' = msg
      /\ UNCHANGED <<rules, half, unserved, waiting>>
  BY DEF HandleSetter, services
<1>2. /\ queue # <<>> /\ queue \in Seq(ThinkAction) /\ queue[1] = msg /\ msg \in ThinkAction
      /\ queue' = Tail(queue) /\ queue' \in Seq(ThinkAction)
      /\ phase = "up" /\ phase' = "up" /\ serving = Nothing /\ orphaned' = orphaned
      /\ \A s \in Sender : (waiting[s] => OnceAsked(queue, s)) /\ (~waiting[s] => NeverAsked(queue, s))
      /\ \A x \in ScriptId : EndsServed(queue, Tried, x) <=> IsDue(x)
  BY <1>1, ReceiveFacts
<1>3. /\ \A s : Asks(msg, s) <=> s = from
      /\ \A x : ~Concerns(msg, x)
      /\ msg.kind = "set"
  BY MessageFacts DEF Asks, Concerns
<1>4. /\ scripts' = scripts
      /\ call'.op \in {"put", "enable", "disable", "remove"}
      /\ call'.pc \in {"lookup", "stopping", "launch"}
  <2>1. CASE PutScript(r.id, r.source)
    BY <2>1 DEF PutScript, StopOld, Call, durable
  <2>2. CASE SetEnabled(r.id, TRUE) \/ SetEnabled(r.id, FALSE) \/ RemoveScript(r.id)
    BY <2>2 DEF SetEnabled, RemoveScript, Call, durable
  <2> QED  BY <2>1, <2>2 DEF HandleSetter
<1> HIDE DEF msg
<1>5. AdapterTypeOK'
  <2>1. ManagerTypeOK'  BY DEF ManagerInv
  <2> QED  BY <1>1, <1>2, <2>1, AdapterTypeParts DEF AdapterInv, AdapterTypeOK
<1>6. CallerInv'
  <2> SUFFICES ASSUME NEW s \in Sender
               PROVE  IF ~waiting'[s] \/ Asks(serving', s)
                      THEN (Asks(serving', s) => waiting'[s]) /\ NeverAsked(queue', s)
                      ELSE OnceAsked(queue', s)
    BY DEF CallerInv
  <2>1. /\ waiting' = waiting
        /\ Asks(serving', s) <=> s = from
        /\ Asks(queue[1], s) <=> s = from
    BY <1>1, <1>2, <1>3
  <2>2. (waiting[s] => OnceAsked(queue, s)) /\ (~waiting[s] => NeverAsked(queue, s))  BY <1>2
  <2>3. /\ NeverAsked(queue, s) => NeverAsked(queue', s) /\ ~Asks(queue[1], s)
        /\ OnceAsked(queue, s) /\ ~Asks(queue[1], s) => OnceAsked(queue', s)
        /\ OnceAsked(queue, s) /\ Asks(queue[1], s) => NeverAsked(queue', s)
    BY <1>2, ReceiveAsks
  <2>4. CASE s = from  BY <2>1, <2>2, <2>3, <2>4
  <2>5. CASE s # from  BY <2>1, <2>2, <2>3, <2>5
  <2> QED  BY <2>4, <2>5
<1>7. PhaseInv'
  BY <1>1, <1>2, <1>3, <1>4 DEF PhaseInv
<1>8. RowsInv'
  BY <1>4 DEF AdapterInv, RowsInv
<1>9. ServiceInv'
  <2>1. ASSUME NEW x \in ScriptId
        PROVE  EndsServed(queue', Tried', x) <=> EndsServed(queue, Tried, x)
    <3>1. Tried' = Tried /\ ~Concerns(queue[1], x)  BY <1>1, <1>2, <1>3 DEF Tried
    <3> QED  BY <1>2, <3>1, HandlingChangesNothing
  <2>2. \A x : IsDue(x)' <=> IsDue(x)  BY <1>2, <1>4 DEF IsDue
  <2>3. serving'.kind = "set"  BY <1>1, <1>3
  <2>4. \A x \in ScriptId : EndsServed(queue', Tried', x) <=> IsDue(x)'
    BY <1>2, <2>1, <2>2
  <2> QED  BY <2>3, <2>4 DEF ServiceInv
<1>w. WholeInv'  BY <1>1 DEF AdapterInv, WholeInv
<1> QED  BY <1>5, <1>6, <1>7, <1>8, <1>9, <1>w DEF AdapterInv

(* ... the manager works, ...                                               *)
LEMMA WorkFacts ==
  ASSUME ManagerInv, call.op # "remove_all",
         Lookup \/ StopAcknowledged \/ LaunchValid \/ LaunchBroken \/ Insert \/ Update
           \/ Delete \/ LoadNext
  PROVE  /\ call.pc # "idle" /\ call.pc # "dropped" /\ call.pc \notin Over
         /\ call'.pc # "idle" /\ call'.pc # "dropped"
         /\ call'.op = call.op /\ (call.op # "load" => call'.id = call.id)
         /\ \/ /\ DOMAIN scripts' = DOMAIN scripts
               /\ call'.op \in {"put", "remove"} => call'.pc # "ok"
            \/ call.op = "put" /\ call'.pc = "ok" /\ DOMAIN scripts' = DOMAIN scripts \cup {call.id}
            \/ call.op = "remove" /\ call'.pc = "ok" /\ DOMAIN scripts' = DOMAIN scripts \ {call.id}
<1>1. ManagerTypeOK /\ call \in CallData /\ CallInv  BY ManagerTypeParts DEF ManagerInv
<1>2. ASSUME NEW pc \in Pc, Goto(pc)
      PROVE  call'.pc = pc /\ call'.op = call.op /\ call'.id = call.id
  BY <1>1, <1>2, GotoFacts
<1>3. ASSUME Fail
      PROVE  /\ call'.op = call.op /\ call'.id = call.id
             /\ call'.pc \in {"next", "error"}
  BY <1>2, <1>3 DEF Fail, Pc
<1>4. ASSUME ReturnOk
      PROVE  call'.op = call.op /\ call'.id = call.id /\ call'.pc = "ok"
  BY <1>2, <1>4 DEF ReturnOk, Pc
<1>5. ASSUME NEW source, StopOld([call EXCEPT !.source = source])
      PROVE  call'.op = call.op /\ call'.id = call.id /\ call'.pc \in {"stopping", "launch"}
  BY <1>1, <1>5 DEF StopOld, CallData
<1>6. CASE Lookup
  <2>1. call.pc = "lookup" /\ scripts' = scripts  BY <1>6 DEF Lookup, durable
  <2>2. call.op # "put"  BY <1>1, <2>1 DEF CallInv
  <2>3. /\ call'.op = call.op /\ call'.id = call.id /\ call'.pc \in {"next", "error", "ok", "stopping", "launch", "delete"}
        /\ call.op \in {"put", "remove"} => call'.pc # "ok"
    BY <1>2, <1>3, <1>4, <1>5, <1>6, <2>2 DEF Lookup, SqlFails, Pc
  <2> QED  BY <2>1, <2>3 DEF Over
<1>7. CASE StopAcknowledged
  <2>1. call.pc = "stopping" /\ scripts' = scripts  BY <1>7 DEF StopAcknowledged, durable
  <2>2. call'.op = call.op /\ call'.id = call.id /\ call'.pc \in {"launch", "update", "next", "error"}
    BY <1>2, <1>3, <1>7 DEF StopAcknowledged, Pc
  <2> QED  BY <2>1, <2>2 DEF Over
<1>8. CASE LaunchValid
  <2>1. call.pc = "launch" /\ scripts' = scripts  BY <1>8 DEF LaunchValid, durable
  <2>2. call.op \in {"put", "enable", "load"}  BY <1>1, <2>1 DEF CallInv, CallData, Op
  <2>3. call'.op = call.op /\ call'.id = call.id /\ call'.pc \in {"insert", "update", "next"}
    BY <1>2, <1>8, <2>2 DEF LaunchValid, Pc
  <2> QED  BY <2>1, <2>3 DEF Over
<1>9. CASE LaunchBroken
  <2>1. call.pc = "launch" /\ scripts' = scripts  BY <1>9 DEF LaunchBroken, durable
  <2>2. call'.op = call.op /\ call'.id = call.id /\ call'.pc \in {"next", "error"}
    BY <1>3, <1>9 DEF LaunchBroken
  <2> QED  BY <2>1, <2>2 DEF Over
<1>10. CASE Insert
  <2>1. call.pc = "insert"  BY <1>10 DEF Insert
  <2>2. call.op = "put"  BY <1>1, <2>1 DEF CallInv, CallData, Op
  <2>3. CASE RowsWritten(Put(scripts, call.id, Row(call.source, TRUE))) /\ ReturnOk
    <3>1. DOMAIN scripts' = DOMAIN scripts \cup {call.id}
      BY <2>3 DEF RowsWritten, Put
    <3> QED  BY <1>4, <2>1, <2>2, <2>3, <3>1 DEF Over
  <2>4. CASE SqlFails /\ UNCHANGED scripts
    <3>1. call'.op = call.op /\ call'.id = call.id /\ call'.pc \in {"next", "error"}
      BY <1>3, <2>4 DEF SqlFails
    <3> QED  BY <2>1, <2>4, <3>1 DEF Over
  <2> QED  BY <1>10, <2>3, <2>4 DEF Insert
<1>11. CASE Update
  <2>1. call.pc = "update"  BY <1>11 DEF Update
  <2>2. call.op # "put"  BY <1>1, <2>1 DEF CallInv
  <2>3. DOMAIN scripts' = DOMAIN scripts
    BY <1>11 DEF Update, RowsWritten
  <2>4. /\ call'.op = call.op /\ call'.id = call.id /\ call'.pc \in {"delete", "ok", "next", "error"}
        /\ call.op \in {"put", "remove"} => call'.pc # "ok"
    BY <1>2, <1>3, <1>4, <1>11, <2>2 DEF Update, SqlFails, Pc
  <2> QED  BY <2>1, <2>3, <2>4 DEF Over
<1>12. CASE Delete
  <2>1. call.pc = "delete"  BY <1>12 DEF Delete
  <2>2. call.op = "remove"  BY <1>1, <2>1 DEF CallInv, CallData, Op
  <2>3. CASE RowsWritten(Drop(scripts, {call.id})) /\ ReturnOk
    <3>1. DOMAIN scripts' = DOMAIN scripts \ {call.id}
      BY <2>3, DropFacts DEF RowsWritten
    <3> QED  BY <1>4, <2>1, <2>2, <2>3, <3>1 DEF Over
  <2>4. CASE SqlFails /\ UNCHANGED scripts
    <3>1. call'.op = call.op /\ call'.id = call.id /\ call'.pc \in {"next", "error"}
      BY <1>3, <2>4 DEF SqlFails
    <3> QED  BY <2>1, <2>4, <3>1 DEF Over
  <2> QED  BY <1>12, <2>2, <2>3, <2>4 DEF Delete
<1>13. CASE LoadNext
  <2>1. call.pc = "next" /\ call.op = "load" /\ scripts' = scripts  BY <1>13 DEF LoadNext, durable
  <2>2. call'.op = call.op /\ call'.pc \in {"launch", "next", "ok", "error"}
    <3>1. ASSUME NEW id \in call.todo,
                 call' = [call EXCEPT !.id = id, !.source = scripts[id].source,
                                      !.pc = IF scripts[id].is_enabled THEN "launch" ELSE "next",
                                      !.todo = @ \ {id}]
          PROVE  call'.op = call.op /\ call'.pc \in {"launch", "next"}
      <4> DEFINE source == scripts[id].source
                 pc == IF scripts[id].is_enabled THEN "launch" ELSE "next"
      <4>1. pc \in {"launch", "next"}  BY Zenon
      <4>2. call' = [call EXCEPT !.id = id, !.source = source, !.pc = pc, !.todo = @ \ {id}]
        BY <3>1
      <4> HIDE DEF source, pc
      <4> QED  BY <1>1, <4>1, <4>2 DEF CallData
    <3>2. \/ Goto("ok") \/ Goto("error")
          \/ \E id \in call.todo :
               call' = [call EXCEPT !.id = id, !.source = scripts[id].source,
                                    !.pc = IF scripts[id].is_enabled THEN "launch" ELSE "next",
                                    !.todo = @ \ {id}]
      BY <1>13, Zenon DEF LoadNext
    <3>3. CASE Goto("ok") \/ Goto("error")  BY <1>2, <3>3 DEF Pc
    <3> QED  BY <3>1, <3>2, <3>3, Zenon
  <2> QED  BY <2>1, <2>2 DEF Over
<1> QED
  BY <1>6, <1>7, <1>8, <1>9, <1>10, <1>11, <1>12, <1>13

LEMMA ManagerGoesOnKeeps ==
  ASSUME AdapterInv, ManagerInv, ManagerInv', ManagerGoesOn
  PROVE  AdapterInv'
<1>1. /\ UNCHANGED <<phase, queue, rules, half, unserved, serving, waiting, orphaned>>
      /\ Lookup \/ StopAcknowledged \/ LaunchValid \/ LaunchBroken \/ Insert \/ Update
           \/ Delete \/ LoadNext
  BY DEF ManagerGoesOn, adapterVars, services
<1>2. phase \in {"loading", "up", "down"}  BY AdapterTypeParts DEF AdapterInv
<1>3. call.op # "remove_all"  BY <1>2 DEF AdapterInv, PhaseInv
<1>4. /\ call.pc # "idle" /\ call.pc # "dropped" /\ call.pc \notin Over
      /\ call'.pc # "idle" /\ call'.pc # "dropped"
      /\ call'.op = call.op /\ (call.op # "load" => call'.id = call.id)
      /\ \/ /\ DOMAIN scripts' = DOMAIN scripts
            /\ call'.op \in {"put", "remove"} => call'.pc # "ok"
         \/ call.op = "put" /\ call'.pc = "ok" /\ DOMAIN scripts' = DOMAIN scripts \cup {call.id}
         \/ call.op = "remove" /\ call'.pc = "ok" /\ DOMAIN scripts' = DOMAIN scripts \ {call.id}
  BY <1>1, <1>3, WorkFacts, Zenon
<1>5. AdapterTypeOK'
  <2>1. ManagerTypeOK'  BY DEF ManagerInv
  <2> QED  BY <1>1, <2>1, AdapterTypeParts DEF AdapterInv, AdapterTypeOK
<1>6. CallerInv'
  BY <1>1 DEF AdapterInv, CallerInv
<1>7. PhaseInv'
  BY <1>1, <1>4 DEF AdapterInv, PhaseInv
<1>8. RowsInv'
  <2>1. IsFiniteSet(DOMAIN scripts')
    BY <1>4, FS_AddElement, FS_RemoveElement DEF AdapterInv, RowsInv
  <2> QED  BY <1>4, <2>1 DEF RowsInv
<1>9. ServiceInv'
  <2> SUFFICES ASSUME phase = "up" PROVE ServiceInv'
    BY <1>1 DEF ServiceInv
  <2>1. serving.kind = "set" /\ call.op # "load"  BY <1>4 DEF AdapterInv, PhaseInv
  <2>2. \A id \in ScriptId : EndsServed(queue, Tried, id) <=> IsDue(id)
    BY <1>4, <2>1 DEF AdapterInv, ServiceInv, Over
  <2>3. ASSUME NEW id \in ScriptId
        PROVE  \/ EndsServed(queue', Tried', id) <=> IsDue(id)'
               \/ call'.id = id /\ call'.pc = "ok" /\ call'.op \in {"put", "remove"}
    <3>0. Tried' = Tried /\ queue' = queue  BY <1>1 DEF Tried
    <3>1. CASE IsDue(id)' <=> IsDue(id)  BY <2>2, <3>0, <3>1
    <3>2. CASE ~(IsDue(id)' <=> IsDue(id))
      BY <1>1, <1>4, <2>1, <3>2 DEF IsDue
    <3> QED  BY <3>1, <3>2
  <2> QED  BY <1>1, <2>1, <2>3 DEF ServiceInv
<1>w. WholeInv'  BY <1>1 DEF AdapterInv, WholeInv
<1> QED  BY <1>5, <1>6, <1>7, <1>8, <1>9, <1>w DEF AdapterInv

(* ... the request is answered, ...                                         *)
LEMMA AnswerSetterKeeps ==
  ASSUME AdapterInv, ManagerInv, ManagerInv', AnswerSetter
  PROVE  AdapterInv'
<1>1. /\ serving.kind = "set" /\ call.pc \in {"ok", "error"}
      /\ waiting' = [waiting EXCEPT ![serving.from] = FALSE]
      /\ serving' = FollowUp /\ call' = Idle
      /\ orphaned' = CASE call.op = "put" /\ call.pc = "ok" -> orphaned \ {call.id}
                       [] call.op = "remove" /\ call.pc = "error" -> orphaned \cup {call.id}
                       [] OTHER -> orphaned
      /\ UNCHANGED <<scripts, phase, queue, rules, half, unserved>>
  BY DEF AnswerSetter, TakeResult, Over, durable, services
<1>2. serving # Nothing  BY <1>1, MessageFacts
<1>3. phase = "up" /\ serving \in ThinkAction /\ serving.from \in Sender
  BY <1>1, <1>2, ServingIsUp, MessageFacts
<1>4. waiting \in [Sender -> BOOLEAN] /\ orphaned \subseteq ScriptId
  BY AdapterTypeParts DEF AdapterInv
<1>5. /\ serving'.kind \in {"add", "remove", "nothing"}
      /\ \/ /\ call.op = "put" /\ call.pc = "ok" /\ serving' = AddRuleService(call.id)
            /\ orphaned' = orphaned \ {call.id}
         \/ /\ call.op = "remove" /\ call.pc = "ok" /\ serving' = RemoveRuleService(call.id)
            /\ orphaned' = orphaned
         \/ /\ call.op = "remove" /\ call.pc = "error" /\ serving' = RemoveRuleService(call.id)
            /\ orphaned' = orphaned \cup {call.id}
         \/ /\ ~(call.op \in {"put", "remove"} /\ call.pc = "ok") /\ serving' = Nothing
            /\ orphaned' = orphaned
  BY <1>1, MessageFacts DEF FollowUp
<1>6. call.op \in {"put", "remove"} => call.id \in ScriptId
  BY DEF ManagerInv, CallInv
<1>7. AdapterTypeOK'
  <2>1. ManagerTypeOK'  BY DEF ManagerInv
  <2>2. waiting' \in [Sender -> BOOLEAN]  BY <1>1, <1>4
  <2>3. serving' \in ThinkAction \cup {Nothing}  BY <1>5, <1>6, MessageFacts
  <2>4. orphaned' \subseteq ScriptId  BY <1>4, <1>5, <1>6
  <2> QED  BY <1>1, <2>1, <2>2, <2>3, <2>4, AdapterTypeParts DEF AdapterInv, AdapterTypeOK
<1>8. CallerInv'
  <2>1. \A s : ~Asks(serving', s)  BY <1>5 DEF Asks
  <2> SUFFICES ASSUME NEW s \in Sender
               PROVE  (waiting'[s] => OnceAsked(queue', s)) /\ (~waiting'[s] => NeverAsked(queue', s))
    BY <2>1 DEF CallerInv
  <2>2. IF ~waiting[s] \/ Asks(serving, s)
        THEN (Asks(serving, s) => waiting[s]) /\ NeverAsked(queue, s)
        ELSE OnceAsked(queue, s)
    BY DEF AdapterInv, CallerInv
  <2>3. queue' = queue  BY <1>1
  <2>4. CASE s = serving.from
    <3>1. ~waiting'[s] /\ Asks(serving, s)  BY <1>1, <1>4, <2>4 DEF Asks
    <3> QED  BY <2>2, <2>3, <3>1
  <2>5. CASE s # serving.from
    <3>1. ~Asks(serving, s)  BY <2>5 DEF Asks
    <3>2. waiting'[s] <=> waiting[s]  BY <1>1, <1>3, <1>4, <2>5
    <3> QED  BY <2>2, <2>3, <3>1, <3>2
  <2> QED  BY <2>4, <2>5
<1>9. PhaseInv'
  BY <1>1, <1>3, <1>5, IdleFacts DEF PhaseInv
<1>10. RowsInv'
  BY <1>1, IdleFacts DEF AdapterInv, RowsInv
<1>11. ServiceInv'
  <2>1. ASSUME NEW id \in ScriptId
        PROVE  \/ EndsServed(queue, Tried, id) <=> IsDue(id)
               \/ call.id = id /\ call.pc = "ok" /\ call.op \in {"put", "remove"}
    BY <1>1, <1>3 DEF AdapterInv, ServiceInv
  <2>2. ASSUME NEW id \in ScriptId
        PROVE  \/ EndsServed(queue', Tried', id) <=> IsDue(id)'
               \/ serving'.kind \in {"add", "remove"} /\ serving'.id = id
    <3>1. EndsServed(queue', Tried', id) <=> EndsServed(queue, Tried, id)  BY <1>1 DEF Tried
    <3>2. CASE serving' = Nothing
      <4>1. orphaned' = orphaned /\ ~(call.op \in {"put", "remove"} /\ call.pc = "ok")
        BY <1>5, <3>2, MessageFacts
      <4>2. IsDue(id)' <=> IsDue(id)  BY <1>1, <4>1 DEF IsDue
      <4> QED  BY <2>1, <3>1, <4>1, <4>2
    <3>3. CASE serving' # Nothing
      <4>1. serving'.kind \in {"add", "remove"} /\ serving'.id = call.id
        BY <1>5, <3>3, MessageFacts
      <4>2. CASE call.id = id  BY <4>1, <4>2
      <4>3. CASE call.id # id
        <5>1. IsDue(id)' <=> IsDue(id)  BY <1>1, <1>5, <4>3 DEF IsDue
        <5> QED  BY <2>1, <3>1, <4>3, <5>1
      <4> QED  BY <4>2, <4>3
    <3> QED  BY <3>2, <3>3
  <2>3. serving'.kind = "add" => IsDue(serving.id)'
    <3> SUFFICES ASSUME serving'.kind = "add" PROVE IsDue(serving.id)'
      OBVIOUS
    <3>1. /\ call.op = "put" /\ call.pc = "ok" /\ serving'.id = call.id
          /\ orphaned' = orphaned \ {call.id}
      BY <1>5, MessageFacts
    <3>2. call.id \in DOMAIN scripts'  BY <1>1, <3>1 DEF AdapterInv, RowsInv
    <3> QED  BY <3>1, <3>2 DEF IsDue
  <2>4. serving'.kind = "remove" => ~IsDue(serving.id)'
    <3> SUFFICES ASSUME serving'.kind = "remove" PROVE ~IsDue(serving.id)'
      OBVIOUS
    <3>1. /\ call.op = "remove" /\ serving'.id = call.id
          /\ call.pc = "ok" \/ call.id \in orphaned'
      BY <1>5, MessageFacts
    <3>2. call.pc = "ok" => call.id \notin DOMAIN scripts'
      BY <1>1, <3>1 DEF AdapterInv, RowsInv
    <3> QED  BY <3>1, <3>2 DEF IsDue
  <2> QED  BY <2>2, <2>3, <2>4 DEF ServiceInv
<1>w. WholeInv'  BY <1>1 DEF AdapterInv, WholeInv
<1> QED  BY <1>7, <1>8, <1>9, <1>10, <1>11, <1>w DEF AdapterInv

(* ... the loop posts a message to itself, ...                              *)
LEMMA PostFollowUpKeeps ==
  ASSUME AdapterInv, ManagerInv', PostFollowUp
  PROVE  AdapterInv'
<1>1. /\ serving.kind \in {"add", "remove"}
      /\ queue' = Append(queue, serving) /\ serving' = Nothing
      /\ UNCHANGED <<scripts, call, phase, rules, half, unserved, waiting, orphaned>>
  BY DEF PostFollowUp, managerVars, durable, services
<1>2. serving # Nothing  BY <1>1, MessageFacts
<1>3. phase = "up" /\ serving \in ThinkAction  BY <1>2, ServingIsUp
<1>4. queue \in Seq(ThinkAction)  BY AdapterTypeParts DEF AdapterInv
<1>5. /\ \A s : ~Asks(serving, s) /\ ~Asks(serving', s)
      /\ \A id : Concerns(serving, id) <=> id = serving.id
      /\ serving'.kind = "nothing"
  BY <1>1, MessageFacts DEF Asks, Concerns
<1>6. AdapterTypeOK'
  <2>1. ManagerTypeOK'  BY DEF ManagerInv
  <2>2. queue' \in Seq(ThinkAction)  BY <1>1, <1>3, <1>4, ChannelFacts
  <2> QED  BY <1>1, <2>1, <2>2, AdapterTypeParts DEF AdapterInv, AdapterTypeOK
<1>7. CallerInv'
  <2> SUFFICES ASSUME NEW s \in Sender
               PROVE  (waiting'[s] => OnceAsked(queue', s)) /\ (~waiting'[s] => NeverAsked(queue', s))
    BY <1>5 DEF CallerInv
  <2>1. IF ~waiting[s] \/ Asks(serving, s)
        THEN (Asks(serving, s) => waiting[s]) /\ NeverAsked(queue, s)
        ELSE OnceAsked(queue, s)
    BY DEF AdapterInv, CallerInv
  <2>2. /\ NeverAsked(queue, s) => NeverAsked(queue', s)
        /\ OnceAsked(queue, s) => OnceAsked(queue', s)
    BY <1>1, <1>3, <1>4, <1>5, PostAsks
  <2>3. waiting' = waiting /\ ~Asks(serving, s)  BY <1>1, <1>5
  <2> QED  BY <2>1, <2>2, <2>3
<1>8. PhaseInv'
  BY <1>1, <1>3, <1>5 DEF AdapterInv, PhaseInv
<1>9. RowsInv'
  BY <1>1 DEF AdapterInv, RowsInv
<1>10. ServiceInv'
  <2>1. \A id : IsDue(id)' <=> IsDue(id)  BY <1>1 DEF IsDue
  <2>2. ASSUME NEW id \in ScriptId PROVE EndsServed(queue', Tried', id) <=> IsDue(id)'
    <3>1. EndsServed(queue', Tried', id) <=>
            IF Concerns(serving, id) THEN serving.kind = "add" ELSE EndsServed(queue, Tried, id)
      BY <1>1, <1>3, <1>4, PostDecides DEF Tried
    <3>2. CASE id = serving.id
      <4>1. serving.kind = "add" <=> IsDue(id)
        BY <1>1, <1>3, <3>2 DEF AdapterInv, ServiceInv
      <4> QED  BY <1>5, <2>1, <3>1, <3>2, <4>1
    <3>3. CASE id # serving.id
      <4>1. EndsServed(queue, Tried, id) <=> IsDue(id)
        BY <1>1, <1>3, <3>3 DEF AdapterInv, ServiceInv
      <4> QED  BY <1>5, <2>1, <3>1, <3>3, <4>1
    <3> QED  BY <3>2, <3>3
  <2> QED  BY <1>5, <2>2 DEF ServiceInv
<1>w. WholeInv'  BY <1>1 DEF AdapterInv, WholeInv
<1> QED  BY <1>6, <1>7, <1>8, <1>9, <1>10, <1>w DEF AdapterInv

(* ... `init` has loaded the scripts and posts each of them, ...            *)
LEMMA EveryRowIsPosted ==
  ASSUME NEW D, IsFiniteSet(D), NEW order \in [1..Cardinality(D) -> D],
         \A i, j \in 1..Cardinality(D) : i # j => order[i] # order[j]
  PROVE  Cardinality(D) \in Nat /\ \A d \in D : \E i \in 1..Cardinality(D) : order[i] = d
<1>1. Cardinality(D) \in Nat  BY FS_CardinalityType
<1>2. IsFiniteSet(1..Cardinality(D)) /\ Cardinality(1..Cardinality(D)) = Cardinality(D)
  BY <1>1, FS_Interval
<1>3. order \in Injection(1..Cardinality(D), D)  BY Fun_IsInj
<1>4. order \in Surjection(1..Cardinality(D), D)
  BY <1>2, <1>3, FS_Injection
<1> QED  BY <1>1, <1>4, Fun_SurjectionProperties

LEMMA InitSucceedsKeeps ==
  ASSUME AdapterInv, ManagerInv', InitSucceeds
  PROVE  AdapterInv'
<1> DEFINE n == Cardinality(DOMAIN scripts)
<1>1. /\ phase = "loading" /\ phase' = "up" /\ call' = Idle
      /\ UNCHANGED <<scripts, rules, half, unserved, serving, waiting, orphaned>>
  BY DEF InitSucceeds, TakeResult, durable, services
<1>2. PICK order \in [1..n -> DOMAIN scripts] :
        /\ \A i, j \in 1..n : i # j => order[i] # order[j]
        /\ queue' = [i \in 1..n |-> AddRuleService(order[i])]
  BY DEF InitSucceeds
<1>3. n \in Nat /\ \A id \in DOMAIN scripts : \E i \in 1..n : order[i] = id
  BY <1>2, EveryRowIsPosted DEF AdapterInv, RowsInv
<1> HIDE DEF n
<1>4. queue = <<>> /\ Tried = {} /\ serving = Nothing /\ orphaned = {}
  BY <1>1 DEF AdapterInv, PhaseInv, Tried
<1>5. /\ DOMAIN queue' = 1..n
      /\ \A i \in 1..n : queue'[i] = AddRuleService(order[i])
  BY <1>2
<1>6. ManagerTypeOK' /\ DOMAIN scripts \subseteq ScriptId
  BY <1>1, ManagerTypePartsNext DEF ManagerInv
<1>7. AdapterTypeOK'
  <2>1. \A i \in 1..n : AddRuleService(order[i]) \in ThinkAction
    BY <1>2, <1>6, MessageFacts
  <2>2. queue' \in Seq(ThinkAction)
    BY <1>2, <1>3, <2>1
  <2> QED  BY <1>1, <1>6, <2>2, AdapterTypeParts DEF AdapterInv, AdapterTypeOK
<1>8. CallerInv'
  <2>1. \A s : ~Asks(serving, s)  BY <1>4, MessageFacts DEF Asks
  <2> SUFFICES ASSUME NEW s \in Sender PROVE ~waiting'[s] /\ NeverAsked(queue', s)
    BY <1>1, <2>1 DEF CallerInv
  <2>2. NeverAsked(queue', s)
    BY <1>5, MessageFacts DEF NeverAsked, Asks
  <2>3. ~OnceAsked(queue, s)
    BY <1>4 DEF OnceAsked
  <2>4. IF ~waiting[s] \/ Asks(serving, s)
        THEN (Asks(serving, s) => waiting[s]) /\ NeverAsked(queue, s)
        ELSE OnceAsked(queue, s)
    BY DEF AdapterInv, CallerInv
  <2> QED  BY <1>1, <2>1, <2>2, <2>3, <2>4
<1>9. PhaseInv'
  BY <1>1, <1>4, IdleFacts, MessageFacts DEF PhaseInv
<1>10. RowsInv'
  BY <1>1, IdleFacts DEF AdapterInv, RowsInv
<1>11. ServiceInv'
  <2>1. \A id : \A i \in 1..n : Concerns(queue'[i], id) <=> order[i] = id
    BY <1>5, MessageFacts DEF Concerns
  <2>2. ASSUME NEW id \in ScriptId PROVE EndsServed(queue', Tried', id) <=> IsDue(id)'
    <3>1. IsDue(id)' <=> id \in DOMAIN scripts  BY <1>1, <1>4 DEF IsDue
    <3>2. CASE id \in DOMAIN scripts
      <4>1. PICK i \in 1..n : order[i] = id  BY <1>3, <3>2
      <4>2. Concerns(queue'[i], id)  BY <2>1, <4>1
      <4>3. \A j \in 1..n : Concerns(queue'[j], id) => j = i  BY <1>2, <2>1, <4>1
      <4>4. IsLastUpdate(queue', i, id)  BY <1>5, <4>2, <4>3 DEF IsLastUpdate
      <4>5. queue'[i].kind = "add"  BY <1>5, MessageFacts
      <4>6. EndsServed(queue', Tried', id)
        BY <1>5, <4>2, <4>4, <4>5 DEF EndsServed
      <4> QED  BY <3>1, <3>2, <4>6
    <3>3. CASE id \notin DOMAIN scripts
      <4>1. \A i \in 1..n : ~Concerns(queue'[i], id)  BY <1>2, <2>1, <3>3
      <4>2. ~EndsServed(queue', Tried', id)
        BY <1>1, <1>4, <1>5, <4>1 DEF EndsServed, Tried
      <4> QED  BY <3>1, <3>3, <4>2
    <3> QED  BY <3>2, <3>3
  <2>3. serving'.kind = "nothing"  BY <1>1, <1>4, MessageFacts
  <2> QED  BY <2>2, <2>3 DEF ServiceInv
<1>w. WholeInv'  BY <1>1 DEF AdapterInv, WholeInv
<1> QED  BY <1>7, <1>8, <1>9, <1>10, <1>11, <1>w DEF AdapterInv

(* ... `init` fails, and the environment.                                   *)
LEMMA InitFailsKeeps ==
  ASSUME AdapterInv, ManagerInv, ManagerInv', InitFails
  PROVE  AdapterInv'
<1>1. /\ phase = "loading" /\ phase' = "down" /\ call.op = "load" /\ Goto("dropped")
      /\ UNCHANGED <<scripts, queue, rules, half, unserved, serving, waiting, orphaned>>
  BY DEF InitFails, DropManager, durable, services
<1>2. call'.op = "load" /\ call'.pc = "dropped"
  <2>1. ManagerTypeOK  BY DEF ManagerInv
  <2> QED  BY <1>1, <2>1, GotoFacts DEF Pc
<1>3. AdapterTypeOK'
  <2>1. ManagerTypeOK'  BY DEF ManagerInv
  <2> QED  BY <1>1, <2>1, AdapterTypeParts DEF AdapterInv, AdapterTypeOK
<1>4. CallerInv'  BY <1>1 DEF AdapterInv, CallerInv
<1>5. PhaseInv' /\ RowsInv' /\ ServiceInv'
  BY <1>1, <1>2 DEF AdapterInv, PhaseInv, RowsInv, ServiceInv
<1>w. WholeInv'  BY <1>1 DEF AdapterInv, WholeInv
<1> QED  BY <1>3, <1>4, <1>5, <1>w DEF AdapterInv

LEMMA AdapterEnvironmentKeeps ==
  ASSUME AdapterInv, ManagerInv',
         AdapterCrash \/ \E id \in ScriptId : AdapterExecutionPanics(id)
  PROVE  AdapterInv'
<1>0. ManagerTypeOK'  BY DEF ManagerInv
<1>1. CASE AdapterCrash
  <2>1. /\ phase' = "loading" /\ queue' = <<>> /\ serving' = Nothing
        /\ rules' = {} /\ half' = {} /\ unserved' = {}
        /\ waiting' = [s \in Sender |-> FALSE] /\ orphaned' = {} /\ scripts' = scripts
        /\ call' = Call("load", Nobody, Nobody, "next", DOMAIN scripts)
    BY <1>1 DEF AdapterCrash, Crash, durable
  <2>2. call'.op = "load" /\ call'.pc = "next"  BY <2>1 DEF Call
  <2>3. AdapterTypeOK'  BY <1>0, <2>1 DEF AdapterTypeOK
  <2>4. CallerInv'
    <3>1. \A s : ~Asks(serving', s)  BY <2>1, MessageFacts DEF Asks
    <3>2. \A s \in Sender : ~waiting'[s]  BY <2>1
    <3>3. \A s : NeverAsked(queue', s)  BY <2>1 DEF NeverAsked
    <3> QED  BY <3>1, <3>2, <3>3 DEF CallerInv
  <2>5. PhaseInv' /\ RowsInv' /\ ServiceInv' /\ WholeInv'
    BY <2>1, <2>2 DEF AdapterInv, PhaseInv, RowsInv, ServiceInv, WholeInv
  <2> QED  BY <2>3, <2>4, <2>5 DEF AdapterInv
<1>2. CASE \E id \in ScriptId : AdapterExecutionPanics(id)
  <2>1. UNCHANGED <<scripts, call, phase, queue, rules, half, unserved, serving, waiting, orphaned>>
    BY <1>2 DEF AdapterExecutionPanics, ExecutionPanics, adapterVars, durable, services
  <2>2. AdapterTypeOK'
    BY <1>0, <2>1, AdapterTypeParts DEF AdapterInv, AdapterTypeOK
  <2>3. CallerInv' /\ PhaseInv' /\ RowsInv' /\ ServiceInv' /\ WholeInv'
    BY <2>1 DEF AdapterInv, CallerInv, PhaseInv, RowsInv, ServiceInv, WholeInv, IsDue, Tried
  <2> QED  BY <2>2, <2>3 DEF AdapterInv
<1> QED  BY <1>1, <1>2

LEMMA AdapterInvInit == AdapterInit => AdapterInv
<1> SUFFICES ASSUME AdapterInit PROVE AdapterInv  OBVIOUS
<1>1. /\ phase = "up" /\ queue = <<>> /\ serving = Nothing
      /\ rules = {} /\ half = {} /\ unserved = {}
      /\ waiting = [s \in Sender |-> FALSE] /\ orphaned = {}
      /\ DOMAIN scripts = {} /\ call = Idle
  BY DEF AdapterInit, ManagerInit, EmptyMap
<1>2. ManagerTypeOK  BY ManagerInvInit DEF AdapterInit, ManagerInv
<1>3. AdapterTypeOK  BY <1>1, <1>2 DEF AdapterTypeOK
<1>4. CallerInv
  <2>1. \A s : ~Asks(serving, s)  BY <1>1, MessageFacts DEF Asks
  <2>2. \A s \in Sender : ~waiting[s]  BY <1>1
  <2>3. \A s : NeverAsked(queue, s)  BY <1>1 DEF NeverAsked
  <2> QED  BY <2>1, <2>2, <2>3 DEF CallerInv
<1>5. PhaseInv  BY <1>1, IdleFacts, MessageFacts DEF PhaseInv
<1>6. RowsInv  BY <1>1, IdleFacts, FS_EmptySet DEF RowsInv
<1>7. ServiceInv  BY <1>1, MessageFacts DEF ServiceInv, EndsServed, IsDue, Tried
<1>w. WholeInv  BY <1>1 DEF WholeInv
<1> QED  BY <1>3, <1>4, <1>5, <1>6, <1>7, <1>w DEF AdapterInv

LEMMA AdapterInvNext == AdapterInv /\ ManagerInv /\ [AdapterNext]_allVars => AdapterInv'
<1> SUFFICES ASSUME AdapterInv, ManagerInv, [AdapterNext]_allVars PROVE AdapterInv'
  OBVIOUS
<1>1. ManagerInv'  BY AdapterNextIsManagerNext, ManagerInvNext
<1>2. ASSUME NEW u \in User, UserRequests(u) PROVE AdapterInv'
  BY <1>1, <1>2, PostKeeps DEF UserRequests, Sender
<1>3. ASSUME NEW id \in ScriptId, StatementRequests(id) PROVE AdapterInv'
  <2>1. PICK r \in Statement[id] : Post(id, r)  BY <1>3 DEF StatementRequests
  <2>2. r \in SetterRequest /\ id \in Sender
    BY ThinkerbellAdapterAssumption DEF Sender
  <2> QED  BY <1>1, <2>1, <2>2, PostKeeps
<1>4. CASE \E id \in ScriptId : HandleAddRuleService(id) \/ HandleRemoveRuleService(id)
  BY <1>1, <1>4, HandleRuleServiceKeeps
<1>5. CASE \E from \in Sender, r \in SetterRequest : HandleSetter(from, r)
  BY <1>1, <1>5, HandleSetterKeeps
<1>6. CASE \E from \in Sender, r \in SetterRequest : HandleStaleSetter(from, r)
  BY <1>1, <1>6, HandleStaleSetterKeeps
<1>7. CASE AnswerSetter  BY <1>1, <1>7, AnswerSetterKeeps
<1>8. CASE PostFollowUp  BY <1>1, <1>8, PostFollowUpKeeps
<1>9. CASE ManagerGoesOn  BY <1>1, <1>9, ManagerGoesOnKeeps
<1>10. CASE InitSucceeds  BY <1>1, <1>10, InitSucceedsKeeps
<1>11. CASE InitFails  BY <1>1, <1>11, InitFailsKeeps
<1>12. CASE AdapterCrash \/ \E id \in ScriptId : AdapterExecutionPanics(id)
  BY <1>1, <1>12, AdapterEnvironmentKeeps
<1>13. CASE UNCHANGED allVars
  <2>1. UNCHANGED <<scripts, call, phase, queue, rules, half, unserved, serving, waiting, orphaned>>
    BY <1>13 DEF allVars, managerVars, adapterVars, durable, services
  <2>2. ManagerTypeOK'  BY <1>1 DEF ManagerInv
  <2>3. AdapterTypeOK'
    BY <2>1, <2>2, AdapterTypeParts DEF AdapterInv, AdapterTypeOK
  <2>4. CallerInv' /\ PhaseInv' /\ RowsInv' /\ ServiceInv' /\ WholeInv'
    BY <2>1 DEF AdapterInv, CallerInv, PhaseInv, RowsInv, ServiceInv, WholeInv, IsDue, Tried
  <2> QED  BY <2>3, <2>4 DEF AdapterInv
<1> QED
  BY <1>2, <1>3, <1>4, <1>5, <1>6, <1>7, <1>8, <1>9, <1>10, <1>11, <1>12, <1>13
  DEF AdapterNext, MainStep

LEMMA AdapterSpecInv == AdapterSpec => [](AdapterInv /\ ManagerInv)
<1>1. AdapterInit => AdapterInv /\ ManagerInv
  BY AdapterInvInit, ManagerInvInit DEF AdapterInit
<1>2. AdapterInv /\ ManagerInv /\ [AdapterNext]_allVars => (AdapterInv /\ ManagerInv)'
  BY AdapterInvNext, AdapterNextIsManagerNext, ManagerInvNext
<1> QED  BY <1>1, <1>2, PTL DEF AdapterSpec

LEMMA CallersAreAnsweredOnce == AdapterInv => OneRequestPerCaller
<1> SUFFICES ASSUME AdapterInv, NEW s \in Sender
             PROVE  Cardinality({i \in DOMAIN queue : queue[i].kind = "set" /\ queue[i].from = s})
                      + (IF serving.kind = "set" /\ serving.from = s THEN 1 ELSE 0)
                    = IF waiting[s] THEN 1 ELSE 0
  BY Zenon DEF AdapterInv, OneRequestPerCaller
<1> DEFINE Asked == {i \in DOMAIN queue : Asks(queue[i], s)}
<1>1. IF ~waiting[s] \/ Asks(serving, s)
      THEN (Asks(serving, s) => waiting[s]) /\ NeverAsked(queue, s)
      ELSE OnceAsked(queue, s)
  BY DEF AdapterInv, CallerInv
<1>2. NeverAsked(queue, s) => Cardinality(Asked) = 0
  <2>1. NeverAsked(queue, s) => Asked = {}  BY DEF NeverAsked
  <2> QED  BY <2>1, FS_EmptySet
<1>3. OnceAsked(queue, s) => Cardinality(Asked) = 1
  <2> SUFFICES ASSUME OnceAsked(queue, s) PROVE Cardinality(Asked) = 1  OBVIOUS
  <2>1. PICK i \in DOMAIN queue : \A j \in DOMAIN queue : Asks(queue[j], s) <=> j = i
    BY Zenon DEF OnceAsked
  <2>2. Asked = {i}  BY <2>1
  <2> QED  BY <2>2, FS_Singleton
<1>4. Asked = {i \in DOMAIN queue : queue[i].kind = "set" /\ queue[i].from = s}
  BY DEF Asks
<1> HIDE DEF Asked
<1>5. Cardinality(Asked) + (IF Asks(serving, s) THEN 1 ELSE 0) = IF waiting[s] THEN 1 ELSE 0
  <2>1. CASE Asks(serving, s)  BY <1>1, <1>2, <2>1
  <2>2. CASE ~Asks(serving, s) /\ waiting[s]  BY <1>1, <1>3, <2>2
  <2>3. CASE ~Asks(serving, s) /\ ~waiting[s]  BY <1>1, <1>2, <2>3
  <2> QED  BY <2>1, <2>2, <2>3
<1> QED  BY <1>4, <1>5, Zenon DEF Asks

(* Each caller that is blocked has exactly one request, in the channel or   *)
(* being served, whatever others do: no answer is lost or given twice.      *)
THEOREM EachRequestIsAnsweredOnce == AdapterSpec => []OneRequestPerCaller
  BY AdapterSpecInv, CallersAreAnsweredOnce, PTL

(* Once the messages under way are handled, a service was asked for exactly *)
(* for the scripts stored whose removal has not failed, for any number of   *)
(* users; a script for which it could not be added has no rule, and one     *)
(* that has a rule has a whole service.                                     *)
THEOREM ServicesFollowTheScripts == AdapterSpec => []ServicesMatchStored
<1>1. AdapterInv => ServicesMatchStored
  <2> SUFFICES ASSUME AdapterInv, phase = "up", serving = Nothing, NEW id \in ScriptId
               PROVE  WillBeAsked(id) <=> id \in DOMAIN scripts \ orphaned
    BY DEF ServicesMatchStored, AdapterInv, WholeInv
  <2>1. serving.kind = "nothing"  BY MessageFacts
  <2>2. EndsServed(queue, Tried, id) <=> IsDue(id)
    BY <2>1 DEF AdapterInv, ServiceInv
  <2> QED  BY <2>2, EndsServedIsWillBeAsked DEF IsDue
<1> QED  BY <1>1, AdapterSpecInv, PTL
=============================================================================
