--------------------------- MODULE RuleEngineProofs ---------------------------
(***************************************************************************)
(* Proofs about the execution of a script: its records are never stale,    *)
(* rules execute on the edge, and a quiet engine agrees with the devices,  *)
(* for any rules, conditions, durations, getters and any length of the     *)
(* channel.                                                                *)
(***************************************************************************)
EXTENDS RuleEngine, TLAPS

-----------------------------------------------------------------------------
(* The channel.                                                            *)

LEMMA TailOfQueue ==
  ASSUME NEW S, NEW q \in Seq(S), q # <<>>
  PROVE  /\ Tail(q) \in Seq(S)
         /\ Len(Tail(q)) = Len(q) - 1
         /\ \A i \in DOMAIN Tail(q) : i + 1 \in DOMAIN q /\ Tail(q)[i] = q[i + 1]
         /\ \A i \in DOMAIN q : i = 1 \/ (i - 1 \in DOMAIN Tail(q) /\ q[i] = Tail(q)[i - 1])
         /\ Head(q) = q[1] /\ 1 \in DOMAIN q /\ Head(q) \in S
  OBVIOUS

LEMMA AppendedQueue ==
  ASSUME NEW S, NEW q \in Seq(S), NEW m \in S
  PROVE  /\ Append(q, m) \in Seq(S)
         /\ Len(Append(q, m)) = Len(q) + 1
         /\ \A i \in DOMAIN q : i \in DOMAIN Append(q, m) /\ Append(q, m)[i] = q[i]
         /\ Append(q, m)[Len(q) + 1] = m
         /\ \A i \in DOMAIN Append(q, m) : i \in DOMAIN q \/ i = Len(q) + 1
  OBVIOUS

-----------------------------------------------------------------------------
(* The records.                                                            *)

(* A message that is not a stop is about a condition and a getter; those   *)
(* that come from a watch, or from a timer, about a getter it watches.     *)
LEMMA MessageFields ==
  ASSUME NEW m \in Messages, m.op # "Stop"
  PROVE  m.c \in Condition /\ m.g \in Getter
  BY DEF Messages, StopMessage

LEMMA EventIsMessage ==
  ASSUME NEW c \in Condition, NEW g \in Getter
  PROVE  /\ \A op \in {"EnterRange", "ExitRange", "GetterRemoved", "GetterAdded"} :
              Event(op, c, g) \in Messages
         /\ \A b \in BOOLEAN : UpdateCondition(c, g, b) \in Messages
         /\ Timer(c, g) \in [pending : BOOLEAN, c : Condition, g : Getter]
  BY DEF Event, UpdateCondition, Messages, Timer

LEMMA InitRecords == Init => RecordsExact
<1> SUFFICES ASSUME Init PROVE RecordsExact  OBVIOUS
<1>1. world \in [Condition -> UNION {[S -> {"in", "out", "absent"}] : S \in SUBSET Getter}]
  <2>1. ASSUME NEW c \in Condition
        PROVE  [g \in sources[c] |-> "out"]
                 \in UNION {[S -> {"in", "out", "absent"}] : S \in SUBSET Getter}
    <3>1. sources[c] \in SUBSET Getter  BY RuleEngineAssumption
    <3>2. [g \in sources[c] |-> "out"] \in [sources[c] -> {"in", "out", "absent"}]  OBVIOUS
    <3> QED  BY <3>1, <3>2
  <2> QED  BY <2>1 DEF Init
<1>2. TypeOK  BY <1>1 DEF Init, TypeOK
<1> QED  BY <1>2 DEF Init, RecordsExact, MatchMet, RuleMet, Conditions

LEMMA MoveRangeType ==
  ASSUME TypeOK, NEW c \in Condition, NEW g \in Getter, NEW from,
         NEW to \in {"in", "out", "absent"},
         NEW op \in {"EnterRange", "ExitRange", "GetterRemoved", "GetterAdded"},
         MoveRange(c, g, from, to, op)
  PROVE  TypeOK'
<1>1. world' \in [Condition -> UNION {[S -> {"in", "out", "absent"}] : S \in SUBSET Getter}]
  <2>1. PICK S \in SUBSET Getter : world[c] \in [S -> {"in", "out", "absent"}]
    BY DEF TypeOK
  <2>2. [world[c] EXCEPT ![g] = to] \in [S -> {"in", "out", "absent"}]
    BY <2>1
  <2> QED  BY <2>2 DEF MoveRange, TypeOK
<1>2. queue' \in Seq(Messages)
  BY EventIsMessage DEF MoveRange, TypeOK
<1> QED  BY <1>1, <1>2 DEF MoveRange, TypeOK, engine

(* What a step of the records may do: nothing, or `UpdateConditions`.       *)
LEMMA UpdateConditionsRecords ==
  ASSUME RecordsExact, NEW c \in Condition, NEW g \in Getter, NEW is_met \in BOOLEAN,
         UpdateConditions(c, g, is_met)
  PROVE  /\ per_getter' \in [Condition -> SUBSET Getter]
         /\ match_is_met' \in [Condition -> BOOLEAN]
         /\ rule_is_met' \in [Rule -> BOOLEAN]
         /\ fired' \in [Rule -> BOOLEAN]
         /\ per_getter' = [per_getter EXCEPT ![c] = IF is_met THEN @ \cup {g} ELSE @ \ {g}]
         /\ \A d \in Condition : match_is_met'[d] = MatchMet(d)'
         /\ \A r \in Rule : rule_is_met'[r] = RuleMet(r)'
         /\ \A r \in Rule : (fired'[r] # fired[r]) <=> (~RuleMet(r) /\ RuleMet(r)')
<1> DEFINE r == rule_of[c]
           now == IF is_met THEN per_getter[c] \cup {g} ELSE per_getter[c] \ {g}
           matches == [match_is_met EXCEPT ![c] = is_met \/ now # {}]
<1>t. TypeOK /\ r \in Rule  BY RuleEngineAssumption DEF RecordsExact
<1>1. CASE (g \in per_getter[c]) = is_met
  <2>1. UNCHANGED <<per_getter, match_is_met, rule_is_met, fired>>
    BY <1>1 DEF UpdateConditions
  <2>2. per_getter = [per_getter EXCEPT ![c] = IF is_met THEN @ \cup {g} ELSE @ \ {g}]
    <3>1. per_getter[c] = IF is_met THEN per_getter[c] \cup {g} ELSE per_getter[c] \ {g}
      BY <1>1
    <3> QED  BY <3>1, <1>t DEF TypeOK
  <2> QED  BY <2>1, <2>2, <1>t DEF RecordsExact, TypeOK, MatchMet, RuleMet, Conditions
<1>2. CASE (g \in per_getter[c]) # is_met
  <2>1. /\ per_getter' = [per_getter EXCEPT ![c] = now]
        /\ match_is_met' = matches
        /\ rule_is_met' = [rule_is_met EXCEPT ![r] = ConditionIsMet(r, matches)]
        /\ fired' = [fired EXCEPT ![r] = IF ~rule_is_met[r] /\ ConditionIsMet(r, matches)
                                         THEN ~@ ELSE @]
    BY <1>2 DEF UpdateConditions
  <2>2. now \in SUBSET Getter /\ (is_met \/ now # {} <=> now # {})
    BY <1>t DEF TypeOK
  <2>3. \A d \in Condition : matches[d] = MatchMet(d)'
    BY <2>1, <2>2, <1>t DEF MatchMet, RecordsExact, TypeOK
  <2>4. matches \in [Condition -> BOOLEAN]
    BY <1>t DEF TypeOK
  <2>5. ConditionIsMet(r, matches) = RuleMet(r)'
    BY <2>3, <2>4 DEF ConditionIsMet, RuleMet, Conditions
  <2>6. \A q \in Rule : q # r => RuleMet(q)' = RuleMet(q)
    <3>1. \A d \in Condition : rule_of[d] # r => MatchMet(d)' = MatchMet(d)
      BY <2>1, <1>t DEF MatchMet, TypeOK
    <3> QED  BY <3>1 DEF RuleMet, Conditions
  <2>7. ConditionIsMet(r, matches) \in BOOLEAN /\ RuleMet(r) \in BOOLEAN
    BY DEF ConditionIsMet, RuleMet
  <2>8. rule_is_met[r] = RuleMet(r) /\ rule_is_met' \in [Rule -> BOOLEAN]
        /\ \A q \in Rule : rule_is_met'[q] = IF q = r THEN RuleMet(r)' ELSE rule_is_met[q]
    BY <2>1, <2>5, <2>7, <1>t DEF RecordsExact, TypeOK
  <2>9. fired' \in [Rule -> BOOLEAN]
        /\ \A q \in Rule : (fired'[q] # fired[q]) <=> (q = r /\ ~rule_is_met[r] /\ RuleMet(r)')
    BY <2>1, <2>5, <2>7, <1>t DEF TypeOK
  <2>10. \A q \in Rule : rule_is_met'[q] = RuleMet(q)'
    BY <2>6, <2>8 DEF RecordsExact
  <2>11. \A q \in Rule : (fired'[q] # fired[q]) <=> (~RuleMet(q) /\ RuleMet(q)')
    BY <2>6, <2>8, <2>9
  <2> QED  BY <2>1, <2>2, <2>3, <2>4, <2>8, <2>9, <2>10, <2>11, <1>t DEF TypeOK
<1> QED  BY <1>1, <1>2, <1>t DEF TypeOK

(* A step that leaves the records alone changes nothing they stand for.     *)
LEMMA SameRecords ==
  ASSUME RecordsExact, TypeOK', UNCHANGED <<per_getter, match_is_met, rule_is_met, fired>>
  PROVE  /\ RecordsExact'
         /\ \A r \in Rule : (fired'[r] # fired[r]) <=> (~RuleMet(r) /\ RuleMet(r)')
  BY DEF RecordsExact, MatchMet, RuleMet, Conditions

FiringStep == \A r \in Rule : (fired'[r] # fired[r]) <=> (~RuleMet(r) /\ RuleMet(r)')

LEMMA NextRecords ==
  ASSUME RecordsExact, [Next]_vars
  PROVE  RecordsExact' /\ FiringStep
<1>t. TypeOK  BY DEF RecordsExact
<1>q. queue \in Seq(Messages)  BY <1>t DEF TypeOK
<1>h. ASSUME queue # <<>>, Head(queue).op # "Stop"
      PROVE  /\ Tail(queue) \in Seq(Messages)
             /\ Head(queue).c \in Condition /\ Head(queue).g \in Getter
             /\ \A b \in BOOLEAN :
                  Append(Tail(queue), UpdateCondition(Head(queue).c, Head(queue).g, b))
                    \in Seq(Messages)
  <2>1. Tail(queue) \in Seq(Messages) /\ Head(queue) \in Messages
    BY <1>h, <1>q, TailOfQueue
  <2>2. Head(queue).c \in Condition /\ Head(queue).g \in Getter
    BY <1>h, <2>1, MessageFields
  <2>3. \A b \in BOOLEAN : UpdateCondition(Head(queue).c, Head(queue).g, b) \in Messages
    BY <2>2, EventIsMessage
  <2> QED  BY <2>1, <2>2, <2>3
<1>1. ASSUME NEW c \in Condition, NEW g \in Getter,
             EnterRange(c, g) \/ ExitRange(c, g) \/ RemoveGetter(c, g) \/ AddGetter(c, g)
      PROVE  RecordsExact' /\ FiringStep
  <2>1. TypeOK' /\ UNCHANGED <<per_getter, match_is_met, rule_is_met, fired>>
    BY <1>1, <1>t, MoveRangeType
       DEF EnterRange, ExitRange, RemoveGetter, AddGetter, MoveRange, engine
  <2> QED  BY <2>1, SameRecords DEF FiringStep
<1>2. ASSUME NEW r \in Rule, TimerElapses(r) PROVE RecordsExact' /\ FiringStep
  <2>1. ongoing_timer[r] \in [pending : BOOLEAN, c : Condition, g : Getter]
    <3>1. ongoing_timer[r] \in {NoTimer} \cup [pending : BOOLEAN, c : Condition, g : Getter]
      BY <1>t DEF TypeOK
    <3>2. ongoing_timer[r] # NoTimer  BY <1>2 DEF TimerElapses, NoTimer
    <3> QED  BY <3>1, <3>2
  <2>2. queue' \in Seq(Messages)
    <3> DEFINE m == UpdateCondition(ongoing_timer[r].c, ongoing_timer[r].g, TRUE)
    <3>1. ongoing_timer[r].c \in Condition /\ ongoing_timer[r].g \in Getter  BY <2>1
    <3>2. m \in Messages  BY <3>1, EventIsMessage
    <3>3. queue' = Append(queue, m)  BY <1>2 DEF TimerElapses
    <3> HIDE DEF m
    <3> QED  BY <3>2, <3>3, <1>q
  <2>3. ongoing_timer' \in [Rule -> {NoTimer} \cup [pending : BOOLEAN, c : Condition, g : Getter]]
    BY <1>2, <2>1, <1>t DEF TimerElapses, TypeOK
  <2> QED  BY <1>2, <2>2, <2>3, <1>t, SameRecords DEF FiringStep, TypeOK, TimerElapses
<1>3. CASE StopScript
  <2>1. queue' \in Seq(Messages)  BY <1>3, <1>q DEF StopScript, Messages
  <2> QED  BY <1>3, <2>1, <1>t, SameRecords DEF FiringStep, TypeOK, StopScript, engine
<1>4. CASE HandleEnterRange
  <2>1. ongoing_timer' \in [Rule -> {NoTimer} \cup [pending : BOOLEAN, c : Condition, g : Getter]]
    <3>1. Timer(Head(queue).c, Head(queue).g) \in [pending : BOOLEAN, c : Condition, g : Getter]
      BY <1>4, <1>h, EventIsMessage DEF HandleEnterRange, Receive
    <3> QED  BY <1>4, <3>1, <1>t DEF HandleEnterRange, TypeOK
  <2>2. queue' \in Seq(Messages)
    BY <1>4, <1>h DEF HandleEnterRange, Receive, Post
  <2> QED  BY <1>4, <2>1, <2>2, <1>t, SameRecords DEF FiringStep, TypeOK, HandleEnterRange
<1>5. CASE HandleExitRange
  <2>1. queue' \in Seq(Messages)
    BY <1>5, <1>h DEF HandleExitRange, Receive, Post
  <2>2. ongoing_timer' \in [Rule -> {NoTimer} \cup [pending : BOOLEAN, c : Condition, g : Getter]]
    BY <1>5, <1>t DEF HandleExitRange, TypeOK
  <2> QED  BY <1>5, <2>1, <2>2, <1>t, SameRecords DEF FiringStep, TypeOK, HandleExitRange
<1>6. CASE HandleGetterRemoved
  <2>1. queue' \in Seq(Messages)
    BY <1>6, <1>h DEF HandleGetterRemoved, Receive, Post
  <2> QED  BY <1>6, <2>1, <1>t, SameRecords DEF FiringStep, TypeOK, HandleGetterRemoved, engine
<1>7. CASE HandleGetterAdded
  <2>1. queue' \in Seq(Messages)
    BY <1>7, <1>h DEF HandleGetterAdded, Receive
  <2> QED  BY <1>7, <2>1, <1>t, SameRecords DEF FiringStep, TypeOK, HandleGetterAdded, engine
<1>8. CASE HandleUpdateCondition
  <2>1. PICK is_met \in BOOLEAN :
          /\ Receive(IF is_met THEN "Met" ELSE "NotMet")
          /\ UpdateConditions(Head(queue).c, Head(queue).g, is_met)
          /\ queue' = Tail(queue)
          /\ UNCHANGED <<world, ongoing_timer, task, stop>>
    BY <1>8 DEF HandleUpdateCondition
  <2>2. Head(queue).c \in Condition /\ Head(queue).g \in Getter /\ queue' \in Seq(Messages)
    BY <2>1, <1>h DEF Receive
  <2> QED  BY <2>1, <2>2, <1>t, UpdateConditionsRecords DEF RecordsExact, FiringStep, TypeOK
<1>9. CASE HandleStop
  <2>1. queue' \in Seq(Messages)  BY <1>9 DEF HandleStop
  <2> QED  BY <1>9, <2>1, <1>t, SameRecords DEF FiringStep, TypeOK, HandleStop
<1>10. CASE UNCHANGED vars
  BY <1>10, <1>t, SameRecords DEF vars, engine, FiringStep, TypeOK
<1> QED
  BY <1>1, <1>2, <1>3, <1>4, <1>5, <1>6, <1>7, <1>8, <1>9, <1>10 DEF Next, Handle

(* The records of a script are exact in every state, although each update  *)
(* touches only the condition and the rule of the getter that changed.      *)
THEOREM RecordsAreExact == Spec => []RecordsExact
<1>1. RecordsExact /\ [Next]_vars => RecordsExact'  BY NextRecords
<1> QED  BY InitRecords, <1>1, PTL DEF Spec

(* A rule executes its statements in exactly the steps in which it becomes  *)
(* met, whatever the conditions share.                                      *)
THEOREM FiresOnTheEdge == Spec => FiresWhenItBecomesMet
<1>1. RecordsExact /\ [Next]_vars =>
        [\A r \in Rule : (fired'[r] # fired[r]) <=> (~RuleMet(r) /\ RuleMet(r)')]_vars
  BY NextRecords DEF FiringStep
<1> QED  BY RecordsAreExact, <1>1, PTL DEF Spec, FiresWhenItBecomesMet

-----------------------------------------------------------------------------
(* A quiet engine agrees with the devices.                                 *)

(* A message of A is in the channel with none of B behind it; there is none *)
(* of B in the channel.                                                     *)
Pending(q, A, B) ==
  \E i \in DOMAIN q : q[i] \in A /\ \A j \in DOMAIN q : j > i => q[j] \notin B
Clear(q, B) == \A i \in DOMAIN q : q[i] \notin B

Enters(c, g) == {Event("EnterRange", c, g)}
Leaves(c, g) == {Event("ExitRange", c, g), Event("GetterRemoved", c, g)}
(* The removal of a getter does not cancel the timer.                       *)
Cancels(c, g) == IF c \in Timed THEN {Event("ExitRange", c, g)} ELSE Leaves(c, g)
Met(c, g) == {Event("Met", c, g)}
NotMet(c, g) == {Event("NotMet", c, g)}

HasTimer(c, g) ==
  LET t == ongoing_timer[rule_of[c]] IN t.pending /\ t.c = c /\ t.g = g

(* What travels is about getters that are watched, and timers belong to     *)
(* conditions with a duration.                                              *)
Watched(m) == m.op # "Stop" => m.g \in sources[m.c]
Travelling ==
  /\ \A i \in DOMAIN queue : Watched(queue[i])
  /\ \A r \in Rule : ongoing_timer[r].pending =>
       /\ ongoing_timer[r].c \in Timed /\ rule_of[ongoing_timer[r].c] = r
       /\ ongoing_timer[r].g \in sources[ongoing_timer[r].c]
  /\ \A c \in Condition :
       per_getter[c] \subseteq sources[c] /\ world[c] \in [sources[c] -> {"in", "out", "absent"}]

(* A getter out of the range: its leaving is on its way, with no entering   *)
(* behind it, or is recorded, or its record is on its way.                  *)
LeavingTakesEffect(c, g) ==
  world[c][g] # "in" =>
    \/ Pending(queue, Cancels(c, g), Enters(c, g))
    \/ /\ Clear(queue, Enters(c, g))
       /\ ~HasTimer(c, g)
       /\ \/ Pending(queue, NotMet(c, g), Met(c, g))
          \/ g \notin per_getter[c] /\ Clear(queue, Met(c, g))

(* A getter in the range, likewise; on its way may be a timer.              *)
EnteringTakesEffect(c, g) ==
  world[c][g] = "in" =>
    \/ Pending(queue, Enters(c, g), Leaves(c, g))
    \/ /\ Clear(queue, Leaves(c, g))
       /\ \/ HasTimer(c, g)
          \/ Pending(queue, Met(c, g), NotMet(c, g))
          \/ g \in per_getter[c] /\ Clear(queue, NotMet(c, g))

EffectsInv ==
  task = "running" =>
    /\ Travelling
    /\ \A c \in Condition : \A g \in sources[c] :
         /\ c \notin Timed \/ g \notin Removable => LeavingTakesEffect(c, g)
         /\ c \notin Timed \/ Alone(c) => EnteringTakesEffect(c, g)

LEMMA PendingAppend ==
  ASSUME NEW S, NEW q \in Seq(S), NEW m \in S, NEW A, NEW B
  PROVE  /\ Pending(q, A, B) /\ m \notin B => Pending(Append(q, m), A, B)
         /\ m \in A => Pending(Append(q, m), A, B)
         /\ Clear(q, B) /\ m \notin B => Clear(Append(q, m), B)
<1>1. ASSUME Pending(q, A, B), m \notin B PROVE Pending(Append(q, m), A, B)
  <2>1. PICK i \in DOMAIN q : q[i] \in A /\ \A j \in DOMAIN q : j > i => q[j] \notin B
    BY <1>1 DEF Pending
  <2>2. i \in DOMAIN Append(q, m) /\ Append(q, m)[i] \in A
    BY <2>1, AppendedQueue
  <2>3. \A j \in DOMAIN Append(q, m) : j > i => Append(q, m)[j] \notin B
    BY <1>1, <2>1, AppendedQueue
  <2> QED  BY <2>2, <2>3 DEF Pending
<1>2. ASSUME m \in A PROVE Pending(Append(q, m), A, B)
  <2>1. Len(q) + 1 \in DOMAIN Append(q, m) /\ Append(q, m)[Len(q) + 1] \in A
    BY <1>2
  <2>2. \A j \in DOMAIN Append(q, m) : ~(j > Len(q) + 1)
    OBVIOUS
  <2> QED  BY <2>1, <2>2 DEF Pending
<1>3. ASSUME Clear(q, B), m \notin B PROVE Clear(Append(q, m), B)
  BY <1>3, AppendedQueue DEF Clear
<1> QED  BY <1>1, <1>2, <1>3

LEMMA PendingTail ==
  ASSUME NEW S, NEW q \in Seq(S), q # <<>>, NEW A, NEW B
  PROVE  /\ Pending(q, A, B) => \/ Pending(Tail(q), A, B)
                                \/ Head(q) \in A /\ Clear(Tail(q), B)
         /\ Clear(q, B) => Clear(Tail(q), B) /\ Head(q) \notin B
<1>1. ASSUME Pending(q, A, B)
      PROVE  Pending(Tail(q), A, B) \/ (Head(q) \in A /\ Clear(Tail(q), B))
  <2>1. PICK i \in DOMAIN q : q[i] \in A /\ \A j \in DOMAIN q : j > i => q[j] \notin B
    BY <1>1 DEF Pending
  <2>2. CASE i = 1
    <3>1. Head(q) \in A  BY <2>1, <2>2, TailOfQueue
    <3>2. \A j \in DOMAIN Tail(q) : j + 1 \in DOMAIN q /\ j + 1 > 1 /\ Tail(q)[j] = q[j + 1]
      BY TailOfQueue
    <3> QED  BY <2>1, <2>2, <3>1, <3>2 DEF Clear
  <2>3. CASE i # 1
    <3>1. i - 1 \in DOMAIN Tail(q) /\ Tail(q)[i - 1] \in A  BY <2>1, <2>3, TailOfQueue
    <3>2. \A j \in DOMAIN Tail(q) : j > i - 1 => j + 1 \in DOMAIN q /\ j + 1 > i /\ Tail(q)[j] = q[j + 1]
      BY TailOfQueue
    <3> QED  BY <2>1, <3>1, <3>2 DEF Pending
  <2> QED  BY <2>2, <2>3
<1>2. ASSUME Clear(q, B) PROVE Clear(Tail(q), B) /\ Head(q) \notin B
  BY <1>2, TailOfQueue DEF Clear
<1> QED  BY <1>1, <1>2

Ops == {"EnterRange", "ExitRange", "GetterRemoved", "GetterAdded", "Met", "NotMet"}

(* Which message is of which set.                                           *)
LEMMA Kinds ==
  ASSUME NEW c, NEW g, NEW d, NEW h, NEW op \in Ops
  PROVE  /\ Event(op, d, h) \in Enters(c, g) <=> op = "EnterRange" /\ d = c /\ h = g
         /\ Event(op, d, h) \in Leaves(c, g) <=>
              op \in {"ExitRange", "GetterRemoved"} /\ d = c /\ h = g
         /\ Event(op, d, h) \in Cancels(c, g) <=>
              /\ op = "ExitRange" \/ (op = "GetterRemoved" /\ c \notin Timed)
              /\ d = c /\ h = g
         /\ Event(op, d, h) \in Met(c, g) <=> op = "Met" /\ d = c /\ h = g
         /\ Event(op, d, h) \in NotMet(c, g) <=> op = "NotMet" /\ d = c /\ h = g
<1>1. \A o \in Ops : Event(op, d, h) = Event(o, c, g) <=> op = o /\ d = c /\ h = g
  BY DEF Event
<1> QED  BY <1>1 DEF Enters, Leaves, Cancels, Met, NotMet, Ops

LEMMA StopIsNoEvent ==
  ASSUME NEW c, NEW g
  PROVE  StopMessage \notin Enters(c, g) \cup Leaves(c, g) \cup Met(c, g) \cup NotMet(c, g)
  BY DEF StopMessage, Event, Enters, Leaves, Met, NotMet

LEMMA UpdatesAreEvents ==
  ASSUME NEW c, NEW g
  PROVE  /\ UpdateCondition(c, g, TRUE) = Event("Met", c, g)
         /\ UpdateCondition(c, g, FALSE) = Event("NotMet", c, g)
  BY DEF UpdateCondition

LEMMA HeadIsEvent ==
  ASSUME NEW q \in Seq(Messages), q # <<>>, Head(q).op # "Stop",
         \A i \in DOMAIN q : Watched(q[i])
  PROVE  /\ Head(q) = Event(Head(q).op, Head(q).c, Head(q).g)
         /\ Head(q).op \in Ops /\ Head(q).c \in Condition /\ Head(q).g \in sources[Head(q).c]
         /\ Event(Head(q).op, Head(q).c, Head(q).g) \in Messages
<1>1. Head(q) \in Messages /\ Watched(Head(q))  BY TailOfQueue
<1>2. Head(q) \in [op : Ops, c : Condition, g : Getter]
  BY <1>1 DEF Messages, StopMessage, Ops
<1> QED  BY <1>1, <1>2 DEF Event, Watched

(* What a message appended to the channel leaves as it was.                 *)
LEMMA AppendKeeps ==
  ASSUME TypeOK, NEW c \in Condition, NEW g \in Getter, NEW m \in Messages,
         queue' = Append(queue, m), world'[c][g] = world[c][g],
         per_getter' = per_getter
  PROVE  /\ /\ LeavingTakesEffect(c, g) /\ (~HasTimer(c, g) => ~HasTimer(c, g)')
            /\ m \notin Enters(c, g) \cup Met(c, g)
            => LeavingTakesEffect(c, g)'
         /\ /\ EnteringTakesEffect(c, g) /\ (HasTimer(c, g) => HasTimer(c, g)')
            /\ m \notin Leaves(c, g) \cup NotMet(c, g)
            => EnteringTakesEffect(c, g)'
<1>q. queue \in Seq(Messages)  BY DEF TypeOK
<1>u. Cancels(c, g)' = Cancels(c, g) /\ Enters(c, g)' = Enters(c, g) /\ Met(c, g)' = Met(c, g)
      /\ Leaves(c, g)' = Leaves(c, g) /\ NotMet(c, g)' = NotMet(c, g)
  BY DEF Cancels, Enters, Met, NotMet, Leaves, Event
<1>1. ASSUME LeavingTakesEffect(c, g), ~HasTimer(c, g) => ~HasTimer(c, g)',
             m \notin Enters(c, g) \cup Met(c, g)
      PROVE  LeavingTakesEffect(c, g)'
  <2>1. Pending(queue, Cancels(c, g), Enters(c, g)) => Pending(queue', Cancels(c, g), Enters(c, g))
    BY <1>1, <1>q, PendingAppend
  <2>2. Pending(queue, NotMet(c, g), Met(c, g)) => Pending(queue', NotMet(c, g), Met(c, g))
    BY <1>1, <1>q, PendingAppend
  <2>3. /\ Clear(queue, Enters(c, g)) => Clear(queue', Enters(c, g))
        /\ Clear(queue, Met(c, g)) => Clear(queue', Met(c, g))
    BY <1>1, <1>q, PendingAppend
  <2> QED  BY <1>1, <2>1, <2>2, <2>3, <1>u DEF LeavingTakesEffect
<1>2. ASSUME EnteringTakesEffect(c, g), HasTimer(c, g) => HasTimer(c, g)',
             m \notin Leaves(c, g) \cup NotMet(c, g)
      PROVE  EnteringTakesEffect(c, g)'
  <2>1. Pending(queue, Enters(c, g), Leaves(c, g)) => Pending(queue', Enters(c, g), Leaves(c, g))
    BY <1>2, <1>q, PendingAppend
  <2>2. Pending(queue, Met(c, g), NotMet(c, g)) => Pending(queue', Met(c, g), NotMet(c, g))
    BY <1>2, <1>q, PendingAppend
  <2>3. /\ Clear(queue, Leaves(c, g)) => Clear(queue', Leaves(c, g))
        /\ Clear(queue, NotMet(c, g)) => Clear(queue', NotMet(c, g))
    BY <1>2, <1>q, PendingAppend
  <2> QED  BY <1>2, <2>1, <2>2, <2>3, <1>u DEF EnteringTakesEffect
<1> QED  BY <1>1, <1>2

(* The devices.                                                            *)
LEMMA MoveRangeEffects ==
  ASSUME TypeOK, EffectsInv, NEW d \in Condition, NEW h \in Getter,
         NEW from \in {"in", "out", "absent"}, NEW to \in {"in", "out", "absent"},
         NEW op \in Ops \ {"Met", "NotMet"}, MoveRange(d, h, from, to, op),
         op = "EnterRange" <=> to = "in",
         op = "GetterAdded" <=> from = "absent",
         op = "GetterRemoved" => h \in Removable
  PROVE  EffectsInv'
<1> DEFINE m == Event(op, d, h)
<1>1. /\ task = "running" /\ h \in sources[d] /\ world[d][h] = from
      /\ world' = [world EXCEPT ![d][h] = to] /\ queue' = Append(queue, m)
      /\ UNCHANGED <<engine, task>>
  BY DEF MoveRange
<1>2. m \in Messages  BY EventIsMessage DEF Ops
<1>3. Watched(m)  BY <1>1 DEF Watched, Event
<1>e. Travelling  BY <1>1 DEF EffectsInv
<1>q. queue \in Seq(Messages)  BY DEF TypeOK
<1>4. Travelling'
  <2>1. \A i \in DOMAIN queue' : Watched(queue'[i])
    <3> HIDE DEF m
    <3> QED  BY <1>1, <1>2, <1>3, <1>e, <1>q, AppendedQueue DEF Travelling
  <2>2. \A c \in Condition : world'[c] \in [sources[c] -> {"in", "out", "absent"}]
    BY <1>1, <1>e DEF Travelling, TypeOK
  <2> QED  BY <1>1, <1>e, <2>1, <2>2 DEF Travelling, engine, Watched
<1>5. ASSUME NEW c \in Condition, NEW g \in sources[c], c \notin Timed \/ g \notin Removable
      PROVE  LeavingTakesEffect(c, g)'
  <2>1. LeavingTakesEffect(c, g) /\ g \in Getter  BY <1>1, <1>5, RuleEngineAssumption DEF EffectsInv
  <2>2. CASE <<c, g>> # <<d, h>> \/ op = "GetterAdded"
    <3>1. m \notin Enters(c, g) \cup Met(c, g)  BY <2>2, Kinds DEF Ops
    <3>2. HasTimer(c, g)' = HasTimer(c, g)  BY <1>1 DEF HasTimer, engine
    <3>3. CASE <<c, g>> # <<d, h>>
      <4>1. world'[c][g] = world[c][g]  BY <1>1, <3>3, <1>e DEF Travelling, TypeOK
      <4> HIDE DEF m
      <4> QED  BY <1>1, <1>2, <2>1, <3>1, <3>2, <4>1, AppendKeeps DEF engine
    <3>4. CASE <<c, g>> = <<d, h>> /\ op = "GetterAdded"
      <4>1. world[c][g] # "in"  BY <1>1, <3>4
      <4>2. /\ Pending(queue, Cancels(c, g), Enters(c, g)) => Pending(queue', Cancels(c, g), Enters(c, g))
            /\ Pending(queue, NotMet(c, g), Met(c, g)) => Pending(queue', NotMet(c, g), Met(c, g))
            /\ Clear(queue, Enters(c, g)) => Clear(queue', Enters(c, g))
            /\ Clear(queue, Met(c, g)) => Clear(queue', Met(c, g))
        <5> HIDE DEF m
        <5> QED  BY <1>1, <1>2, <1>q, <3>1, PendingAppend
      <4>3. UNCHANGED <<Cancels(c, g), Enters(c, g), NotMet(c, g), Met(c, g), per_getter>>
        BY <1>1 DEF Cancels, Enters, NotMet, Met, Leaves, Event, engine
      <4> QED  BY <2>1, <3>2, <4>1, <4>2, <4>3 DEF LeavingTakesEffect
    <3> QED  BY <2>2, <3>3, <3>4
  <2>3. CASE <<c, g>> = <<d, h>> /\ op = "EnterRange"
    BY <1>1, <2>3, <1>e DEF LeavingTakesEffect, Travelling, TypeOK
  <2>4. CASE <<c, g>> = <<d, h>> /\ op \in {"ExitRange", "GetterRemoved"}
    <3>1. m \in Cancels(c, g)  BY <1>5, <2>4, Kinds DEF Ops
    <3>2. Pending(queue', Cancels(c, g), Enters(c, g))
      <4> HIDE DEF m
      <4> QED  BY <1>1, <1>2, <1>q, <3>1, PendingAppend
    <3>3. UNCHANGED <<Cancels(c, g), Enters(c, g)>>
      BY DEF Cancels, Enters, Leaves, Event
    <3> QED  BY <3>2, <3>3 DEF LeavingTakesEffect
  <2> QED  BY <2>2, <2>3, <2>4 DEF Ops
<1>6. ASSUME NEW c \in Condition, NEW g \in sources[c], c \notin Timed \/ Alone(c)
      PROVE  EnteringTakesEffect(c, g)'
  <2>1. EnteringTakesEffect(c, g) /\ g \in Getter  BY <1>1, <1>6, RuleEngineAssumption DEF EffectsInv
  <2>2. CASE <<c, g>> # <<d, h>>
    <3>1. m \notin Leaves(c, g) \cup NotMet(c, g)  BY <2>2, Kinds DEF Ops
    <3>2. HasTimer(c, g)' = HasTimer(c, g)  BY <1>1 DEF HasTimer, engine
    <3>3. world'[c][g] = world[c][g]  BY <1>1, <2>2, <1>e DEF Travelling, TypeOK
    <3> HIDE DEF m
    <3> QED  BY <1>1, <1>2, <2>1, <3>1, <3>2, <3>3, AppendKeeps DEF engine
  <2>3. CASE <<c, g>> = <<d, h>> /\ to # "in"
    BY <1>1, <2>3, <1>e DEF EnteringTakesEffect, Travelling, TypeOK
  <2>4. CASE <<c, g>> = <<d, h>> /\ op = "EnterRange"
    <3>1. m \in Enters(c, g)  BY <2>4, Kinds DEF Ops
    <3>2. Pending(queue', Enters(c, g), Leaves(c, g))
      <4> HIDE DEF m
      <4> QED  BY <1>1, <1>2, <1>q, <3>1, PendingAppend
    <3>3. UNCHANGED <<Leaves(c, g), Enters(c, g)>>
      BY DEF Leaves, Enters, Event
    <3> QED  BY <3>2, <3>3 DEF EnteringTakesEffect
  <2> QED  BY <2>2, <2>3, <2>4
<1> QED  BY <1>4, <1>5, <1>6 DEF EffectsInv, Alone, Conditions

(* What is left in the channel when its head is received.                   *)
LEMMA ReceiveKeeps ==
  ASSUME TypeOK, queue # <<>>, NEW c, NEW g
  PROVE  LET t == Tail(queue)
             m == Head(queue)
         IN /\ Pending(queue, Cancels(c, g), Enters(c, g)) =>
                 Pending(t, Cancels(c, g), Enters(c, g))
                   \/ (m \in Cancels(c, g) /\ Clear(t, Enters(c, g)))
            /\ Pending(queue, NotMet(c, g), Met(c, g)) =>
                 Pending(t, NotMet(c, g), Met(c, g))
                   \/ (m \in NotMet(c, g) /\ Clear(t, Met(c, g)))
            /\ Clear(queue, Enters(c, g)) => Clear(t, Enters(c, g)) /\ m \notin Enters(c, g)
            /\ Clear(queue, Met(c, g)) => Clear(t, Met(c, g)) /\ m \notin Met(c, g)
            /\ Pending(queue, Enters(c, g), Leaves(c, g)) =>
                 Pending(t, Enters(c, g), Leaves(c, g))
                   \/ (m \in Enters(c, g) /\ Clear(t, Leaves(c, g)))
            /\ Pending(queue, Met(c, g), NotMet(c, g)) =>
                 Pending(t, Met(c, g), NotMet(c, g))
                   \/ (m \in Met(c, g) /\ Clear(t, NotMet(c, g)))
            /\ Clear(queue, Leaves(c, g)) => Clear(t, Leaves(c, g)) /\ m \notin Leaves(c, g)
            /\ Clear(queue, NotMet(c, g)) => Clear(t, NotMet(c, g)) /\ m \notin NotMet(c, g)
<1>1. queue \in Seq(Messages)  BY DEF TypeOK
<1> QED  BY <1>1, PendingTail

(* The sets of messages do not change.                                      *)
LEMMA SameKinds ==
  ASSUME NEW c, NEW g
  PROVE  UNCHANGED <<Cancels(c, g), Enters(c, g), Leaves(c, g), Met(c, g), NotMet(c, g)>>
  BY DEF Cancels, Enters, Leaves, Met, NotMet, Event

LEMMA WatchedStay ==
  ASSUME NEW q \in Seq(Messages), \A i \in DOMAIN q : Watched(q[i])
  PROVE  /\ \A m \in Messages : Watched(m) =>
              \A i \in DOMAIN Append(q, m) : Watched(Append(q, m)[i])
         /\ q # <<>> => \A i \in DOMAIN Tail(q) : Watched(Tail(q)[i])
  BY AppendedQueue, TailOfQueue

(* A timer elapses: the condition it belonged to is on its way to be met.   *)
LEMMA TimerEffects ==
  ASSUME TypeOK, EffectsInv, NEW r \in Rule, TimerElapses(r)
  PROVE  EffectsInv'
<1> DEFINE d == ongoing_timer[r].c
           h == ongoing_timer[r].g
           m == Event("Met", d, h)
<1>1. /\ task = "running" /\ ongoing_timer[r].pending
      /\ ongoing_timer' = [ongoing_timer EXCEPT ![r].pending = FALSE]
      /\ queue' = Append(queue, m)
      /\ UNCHANGED <<world, per_getter, task>>
  BY UpdatesAreEvents DEF TimerElapses
<1>e. Travelling  BY <1>1 DEF EffectsInv
<1>q. queue \in Seq(Messages)  BY DEF TypeOK
<1>2. d \in Timed /\ rule_of[d] = r /\ h \in sources[d]  BY <1>1, <1>e DEF Travelling
<1>3. d \in Condition /\ h \in Getter  BY <1>2, RuleEngineAssumption
<1>4. m \in Messages /\ Watched(m)  BY <1>2, <1>3 DEF Messages, Watched, Event
<1>5. /\ ~ongoing_timer'[r].pending
      /\ \A s \in Rule : s # r => ongoing_timer'[s] = ongoing_timer[s]
  <2>1. ongoing_timer \in [Rule -> {NoTimer} \cup [pending : BOOLEAN, c : Condition, g : Getter]]
    BY DEF TypeOK
  <2>2. ongoing_timer[r] \in [pending : BOOLEAN, c : Condition, g : Getter]
    <3>1. ongoing_timer[r] # NoTimer  BY <1>1 DEF NoTimer
    <3>2. ongoing_timer[r] \in {NoTimer} \cup [pending : BOOLEAN, c : Condition, g : Getter]
      BY <2>1
    <3> QED  BY <3>1, <3>2
  <2> QED  BY <1>1, <2>1, <2>2
<1> HIDE DEF m
<1>6. Travelling'
  BY <1>1, <1>4, <1>5, <1>e, <1>q, WatchedStay DEF Travelling, Watched
<1>7. ASSUME NEW c \in Condition, NEW g \in sources[c]
      PROVE  /\ g \in Getter
             /\ <<c, g>> # <<d, h>> => HasTimer(c, g)' = HasTimer(c, g)
             /\ <<c, g>> = <<d, h>> => HasTimer(c, g)
             /\ HasTimer(c, g)' => HasTimer(c, g)
  BY <1>1, <1>2, <1>5, <1>7, RuleEngineAssumption DEF HasTimer
<1>8. ASSUME NEW c \in Condition, NEW g \in sources[c], c \notin Timed \/ g \notin Removable
      PROVE  LeavingTakesEffect(c, g)'
  <2>1. LeavingTakesEffect(c, g)  BY <1>1, <1>8 DEF EffectsInv
  <2>2. m \notin Enters(c, g)  BY Kinds DEF Ops, m
  <2>3. CASE <<c, g>> # <<d, h>>
    <3>1. m \notin Met(c, g)  BY <2>3, Kinds DEF Ops, m
    <3> QED  BY <1>1, <1>4, <1>7, <2>1, <2>2, <3>1, AppendKeeps
  <2>4. CASE <<c, g>> = <<d, h>> /\ world[c][g] # "in"
    <3>1. Pending(queue, Cancels(c, g), Enters(c, g))
      BY <1>7, <2>1, <2>4 DEF LeavingTakesEffect
    <3>2. Pending(queue', Cancels(c, g), Enters(c, g))
      BY <1>1, <1>4, <1>q, <2>2, <3>1, PendingAppend
    <3> QED  BY <3>2, SameKinds DEF LeavingTakesEffect
  <2>5. CASE world[c][g] = "in"  BY <1>1, <2>5 DEF LeavingTakesEffect
  <2> QED  BY <2>3, <2>4, <2>5
<1>9. ASSUME NEW c \in Condition, NEW g \in sources[c], c \notin Timed \/ Alone(c)
      PROVE  EnteringTakesEffect(c, g)'
  <2>1. EnteringTakesEffect(c, g)  BY <1>1, <1>9 DEF EffectsInv
  <2>2. m \notin Leaves(c, g) \cup NotMet(c, g)  BY Kinds DEF Ops, m
  <2>3. CASE <<c, g>> # <<d, h>>
    BY <1>1, <1>4, <1>7, <2>1, <2>2, <2>3, AppendKeeps
  <2>4. CASE <<c, g>> = <<d, h>>
    <3>1. m \in Met(c, g)  BY <2>4, Kinds DEF Ops, m
    <3>2. Pending(queue', Met(c, g), NotMet(c, g))
      BY <1>1, <1>4, <1>q, <3>1, PendingAppend
    <3>3. /\ Pending(queue, Enters(c, g), Leaves(c, g)) => Pending(queue', Enters(c, g), Leaves(c, g))
          /\ Clear(queue, Leaves(c, g)) => Clear(queue', Leaves(c, g))
      BY <1>1, <1>4, <1>q, <2>2, PendingAppend
    <3> QED  BY <1>1, <2>1, <3>2, <3>3, SameKinds DEF EnteringTakesEffect
  <2> QED  BY <2>3, <2>4
<1> QED  BY <1>6, <1>8, <1>9 DEF EffectsInv, Alone, Conditions

LEMMA StopScriptEffects ==
  ASSUME TypeOK, EffectsInv, StopScript
  PROVE  EffectsInv'
<1> SUFFICES ASSUME task' = "running" PROVE EffectsInv'  BY DEF EffectsInv
<1>1. /\ task = "running" /\ queue' = Append(queue, StopMessage)
      /\ UNCHANGED <<world, engine, task>>
  BY DEF StopScript
<1>2. StopMessage \in Messages /\ Watched(StopMessage)
  BY DEF StopMessage, Messages, Watched
<1>e. Travelling  BY <1>1 DEF EffectsInv
<1>q. queue \in Seq(Messages)  BY DEF TypeOK
<1>3. Travelling'
  BY <1>1, <1>2, <1>e, <1>q, WatchedStay DEF Travelling, Watched, engine
<1>4. ASSUME NEW c \in Condition, NEW g \in sources[c]
      PROVE  /\ LeavingTakesEffect(c, g) => LeavingTakesEffect(c, g)'
             /\ EnteringTakesEffect(c, g) => EnteringTakesEffect(c, g)'
  <2>1. HasTimer(c, g)' = HasTimer(c, g) /\ g \in Getter
    BY <1>1, RuleEngineAssumption DEF HasTimer, engine
  <2> QED  BY <1>1, <1>2, <2>1, StopIsNoEvent, AppendKeeps DEF engine
<1> QED  BY <1>1, <1>3, <1>4 DEF EffectsInv, Alone, Conditions

(* An entering is received: a timer starts, or the update is posted.        *)
LEMMA EnterRangeEffects ==
  ASSUME TypeOK, EffectsInv, HandleEnterRange
  PROVE  EffectsInv'
<1> DEFINE d == Head(queue).c
           h == Head(queue).g
           t == Tail(queue)
           m == Event("Met", d, h)
<1>1. /\ task = "running" /\ queue # <<>> /\ Head(queue).op = "EnterRange"
      /\ UNCHANGED <<world, per_getter, task>>
  BY DEF HandleEnterRange, Receive
<1>e. Travelling  BY <1>1 DEF EffectsInv
<1>q. queue \in Seq(Messages) /\ t \in Seq(Messages)  BY <1>1, TailOfQueue DEF TypeOK
<1>2. Head(queue) = Event("EnterRange", d, h) /\ d \in Condition /\ h \in sources[d]
  BY <1>1, <1>e, <1>q, HeadIsEvent DEF Travelling
<1>3. h \in Getter /\ m \in Messages /\ Watched(m)
  BY <1>2, RuleEngineAssumption DEF Messages, Watched, Event
<1>4. \A i \in DOMAIN t : Watched(t[i])  BY <1>1, <1>e, <1>q, WatchedStay DEF Travelling
<1>k. ASSUME NEW c \in Condition, NEW g \in sources[c]
      PROVE  /\ Head(queue) \in Enters(c, g) <=> d = c /\ h = g
             /\ Head(queue) \notin Cancels(c, g) \cup Met(c, g) \cup NotMet(c, g) \cup Leaves(c, g)
             /\ g \in Getter
  BY <1>2, Kinds, RuleEngineAssumption DEF Ops
<1>5. CASE d \in Timed
  <2>1. ongoing_timer' = [ongoing_timer EXCEPT ![rule_of[d]] = Timer(d, h)] /\ queue' = t
    BY <1>5 DEF HandleEnterRange
  <2>2. rule_of[d] \in Rule /\ DOMAIN ongoing_timer = Rule
    BY <1>2, RuleEngineAssumption DEF TypeOK
  <2>3. \A r \in Rule : ongoing_timer'[r] = IF r = rule_of[d] THEN Timer(d, h) ELSE ongoing_timer[r]
    BY <2>1, <2>2
  <2>4. Timer(d, h).pending /\ Timer(d, h).c = d /\ Timer(d, h).g = h  BY DEF Timer
  <2>5. Travelling'
    <3>1. ASSUME NEW r \in Rule, ongoing_timer'[r].pending
          PROVE  /\ ongoing_timer'[r].c \in Timed /\ rule_of[ongoing_timer'[r].c] = r
                 /\ ongoing_timer'[r].g \in sources[ongoing_timer'[r].c]
      <4>1. CASE r = rule_of[d]  BY <1>2, <1>5, <2>3, <2>4, <4>1
      <4>2. CASE r # rule_of[d]  BY <1>e, <2>3, <3>1, <4>2 DEF Travelling
      <4> QED  BY <4>1, <4>2
    <3>2. \A i \in DOMAIN queue' : Watched(queue'[i])  BY <1>4, <2>1
    <3> QED  BY <1>1, <1>e, <3>1, <3>2 DEF Travelling, Watched
  <2>6. ASSUME NEW c \in Condition, NEW g \in sources[c]
        PROVE  HasTimer(c, g)' <=> IF rule_of[c] = rule_of[d] THEN <<c, g>> = <<d, h>>
                                   ELSE HasTimer(c, g)
    BY <2>3, <2>4, RuleEngineAssumption DEF HasTimer
  <2>7. ASSUME NEW c \in Condition, NEW g \in sources[c], c \notin Timed \/ g \notin Removable
        PROVE  LeavingTakesEffect(c, g)'
    <3>1. LeavingTakesEffect(c, g)  BY <1>1, <2>7 DEF EffectsInv
    <3>2. ASSUME Clear(queue, Enters(c, g)), ~HasTimer(c, g)
          PROVE  ~HasTimer(c, g)'
      BY <1>1, <1>k, <2>6, <3>2, ReceiveKeeps
    <3> QED  BY <1>1, <1>k, <2>1, <3>1, <3>2, ReceiveKeeps, SameKinds DEF LeavingTakesEffect
  <2>8. ASSUME NEW c \in Condition, NEW g \in sources[c], c \notin Timed \/ Alone(c)
        PROVE  EnteringTakesEffect(c, g)'
    <3>1. EnteringTakesEffect(c, g)  BY <1>1, <2>8 DEF EffectsInv
    <3>2. ASSUME HasTimer(c, g) PROVE HasTimer(c, g)'
      <4>1. c \in Timed  BY <1>e, <3>2, RuleEngineAssumption DEF HasTimer, Travelling
      <4>2. rule_of[c] = rule_of[d] => c = d /\ g = h
        BY <1>2, <2>8, <4>1 DEF Alone, Conditions
      <4> QED  BY <2>6, <3>2, <4>2
    <3>3. ASSUME Head(queue) \in Enters(c, g) PROVE HasTimer(c, g)'
      BY <1>k, <2>6, <3>3
    <3> QED  BY <1>1, <1>k, <2>1, <3>1, <3>2, <3>3, ReceiveKeeps, SameKinds DEF EnteringTakesEffect
  <2> QED  BY <2>5, <2>7, <2>8 DEF EffectsInv, Alone, Conditions
<1>6. CASE d \notin Timed
  <2>1. queue' = Append(t, m) /\ UNCHANGED ongoing_timer
    BY <1>6, UpdatesAreEvents DEF HandleEnterRange, Post
  <2>k. ASSUME NEW c \in Condition, NEW g \in sources[c]
        PROVE  /\ m \in Met(c, g) <=> d = c /\ h = g
               /\ m \notin Enters(c, g) \cup NotMet(c, g) \cup Leaves(c, g)
               /\ HasTimer(c, g)' = HasTimer(c, g)
    BY <2>1, Kinds DEF Ops, HasTimer
  <2> HIDE DEF m, t
  <2>2. Travelling'
    BY <1>1, <1>3, <1>4, <1>q, <1>e, <2>1, WatchedStay DEF Travelling, Watched
  <2>3. ASSUME NEW c \in Condition, NEW g \in sources[c], c \notin Timed \/ g \notin Removable
        PROVE  LeavingTakesEffect(c, g)'
    <3>1. LeavingTakesEffect(c, g)  BY <1>1, <2>3 DEF EffectsInv
    <3>2. /\ Pending(t, Cancels(c, g), Enters(c, g)) => Pending(queue', Cancels(c, g), Enters(c, g))
          /\ Clear(t, Enters(c, g)) => Clear(queue', Enters(c, g))
      BY <1>3, <1>q, <2>1, <2>k, PendingAppend
    <3>3. ASSUME Clear(queue, Enters(c, g)) PROVE m \notin Met(c, g)
      BY <1>1, <1>k, <2>k, <3>3, ReceiveKeeps
    <3>4. ASSUME m \notin Met(c, g)
          PROVE  /\ Pending(t, NotMet(c, g), Met(c, g)) => Pending(queue', NotMet(c, g), Met(c, g))
                 /\ Clear(t, Met(c, g)) => Clear(queue', Met(c, g))
      BY <1>3, <1>q, <2>1, <3>4, PendingAppend
    <3> QED
      BY <1>1, <1>k, <2>k, <3>1, <3>2, <3>3, <3>4, ReceiveKeeps, SameKinds DEF LeavingTakesEffect, t
  <2>4. ASSUME NEW c \in Condition, NEW g \in sources[c], c \notin Timed \/ Alone(c)
        PROVE  EnteringTakesEffect(c, g)'
    <3>1. EnteringTakesEffect(c, g)  BY <1>1, <2>4 DEF EffectsInv
    <3>2. /\ Pending(t, Enters(c, g), Leaves(c, g)) => Pending(queue', Enters(c, g), Leaves(c, g))
          /\ Pending(t, Met(c, g), NotMet(c, g)) => Pending(queue', Met(c, g), NotMet(c, g))
          /\ Clear(t, Leaves(c, g)) => Clear(queue', Leaves(c, g))
          /\ Clear(t, NotMet(c, g)) => Clear(queue', NotMet(c, g))
          /\ m \in Met(c, g) => Pending(queue', Met(c, g), NotMet(c, g))
      BY <1>3, <1>q, <2>1, <2>k, PendingAppend
    <3> QED
      BY <1>1, <1>k, <2>k, <3>1, <3>2, ReceiveKeeps, SameKinds DEF EnteringTakesEffect, t
  <2> QED  BY <2>2, <2>3, <2>4 DEF EffectsInv, Alone, Conditions
<1> QED  BY <1>5, <1>6

(* A leaving, or a removal, is received: the update is posted.  A leaving   *)
(* cancels the timer of the rule.                                           *)
LEMMA LeavingEffects ==
  ASSUME TypeOK, EffectsInv, HandleExitRange \/ HandleGetterRemoved
  PROVE  EffectsInv'
<1> DEFINE d == Head(queue).c
           h == Head(queue).g
           t == Tail(queue)
           m == Event("NotMet", d, h)
<1>1. /\ task = "running" /\ queue # <<>> /\ Head(queue).op \in {"ExitRange", "GetterRemoved"}
      /\ queue' = Append(t, m)
      /\ Head(queue).op = "ExitRange" => ongoing_timer' = [ongoing_timer EXCEPT ![rule_of[d]] = NoTimer]
      /\ Head(queue).op = "GetterRemoved" => ongoing_timer' = ongoing_timer
      /\ UNCHANGED <<world, per_getter, task>>
  BY UpdatesAreEvents DEF HandleExitRange, HandleGetterRemoved, Receive, Post, engine
<1>e. Travelling  BY <1>1 DEF EffectsInv
<1>q. queue \in Seq(Messages) /\ t \in Seq(Messages)  BY <1>1, TailOfQueue DEF TypeOK
<1>2. /\ Head(queue) = Event(Head(queue).op, d, h) /\ Head(queue).op \in Ops
      /\ d \in Condition /\ h \in sources[d]
  BY <1>1, <1>e, <1>q, HeadIsEvent DEF Travelling
<1>3. h \in Getter /\ m \in Messages /\ Watched(m)
  BY <1>2, RuleEngineAssumption DEF Messages, Watched, Event
<1>4. \A i \in DOMAIN t : Watched(t[i])  BY <1>1, <1>e, <1>q, WatchedStay DEF Travelling
<1>k. ASSUME NEW c \in Condition, NEW g \in sources[c]
      PROVE  /\ Head(queue) \in Leaves(c, g) <=> d = c /\ h = g
             /\ Head(queue) \in Cancels(c, g) =>
                  d = c /\ h = g /\ (Head(queue).op = "ExitRange" \/ c \notin Timed)
             /\ Head(queue) \notin Enters(c, g) \cup Met(c, g) \cup NotMet(c, g)
             /\ m \in NotMet(c, g) <=> d = c /\ h = g
             /\ m \notin Enters(c, g) \cup Met(c, g) \cup Leaves(c, g)
             /\ g \in Getter
  BY <1>1, <1>2, Kinds, RuleEngineAssumption DEF Ops
<1>5. \A r \in Rule : ongoing_timer'[r] =
        IF r = rule_of[d] /\ Head(queue).op = "ExitRange" THEN NoTimer ELSE ongoing_timer[r]
  <2>1. rule_of[d] \in Rule /\ DOMAIN ongoing_timer = Rule
    BY <1>2, RuleEngineAssumption DEF TypeOK
  <2> QED  BY <1>1, <2>1
<1>6. ~NoTimer.pending  BY DEF NoTimer
<1> HIDE DEF m, t
<1>7. Travelling'
  BY <1>1, <1>3, <1>4, <1>5, <1>6, <1>q, <1>e, WatchedStay DEF Travelling, Watched
<1>8. ASSUME NEW c \in Condition, NEW g \in sources[c]
      PROVE  HasTimer(c, g)' <=> /\ HasTimer(c, g)
                                 /\ ~(rule_of[c] = rule_of[d] /\ Head(queue).op = "ExitRange")
  BY <1>5, <1>6, RuleEngineAssumption DEF HasTimer
<1>9. ASSUME NEW c \in Condition, NEW g \in sources[c], c \notin Timed \/ g \notin Removable
      PROVE  LeavingTakesEffect(c, g)'
  <2>1. LeavingTakesEffect(c, g)  BY <1>1, <1>9 DEF EffectsInv
  <2>2. /\ Pending(t, Cancels(c, g), Enters(c, g)) => Pending(queue', Cancels(c, g), Enters(c, g))
        /\ Clear(t, Enters(c, g)) => Clear(queue', Enters(c, g))
        /\ Pending(t, NotMet(c, g), Met(c, g)) => Pending(queue', NotMet(c, g), Met(c, g))
        /\ Clear(t, Met(c, g)) => Clear(queue', Met(c, g))
        /\ m \in NotMet(c, g) => Pending(queue', NotMet(c, g), Met(c, g))
    BY <1>1, <1>3, <1>q, <1>k, <1>9, PendingAppend
  <2>3. ASSUME Head(queue) \in Cancels(c, g) PROVE ~HasTimer(c, g)' /\ m \in NotMet(c, g)
    <3>1. c \notin Timed => ~HasTimer(c, g)
      BY <1>e, RuleEngineAssumption DEF HasTimer, Travelling
    <3> QED  BY <1>k, <1>8, <1>9, <2>3, <3>1
  <2> QED
    BY <1>1, <1>8, <1>9, <1>k, <2>1, <2>2, <2>3, ReceiveKeeps, SameKinds DEF LeavingTakesEffect, t
<1>10. ASSUME NEW c \in Condition, NEW g \in sources[c], c \notin Timed \/ Alone(c)
       PROVE  EnteringTakesEffect(c, g)'
  <2>1. EnteringTakesEffect(c, g)  BY <1>1, <1>10 DEF EffectsInv
  <2>2. /\ Pending(t, Enters(c, g), Leaves(c, g)) => Pending(queue', Enters(c, g), Leaves(c, g))
        /\ Clear(t, Leaves(c, g)) => Clear(queue', Leaves(c, g))
    BY <1>1, <1>3, <1>q, <1>k, <1>10, PendingAppend
  <2>3. ASSUME m \notin NotMet(c, g)
        PROVE  /\ Pending(t, Met(c, g), NotMet(c, g)) => Pending(queue', Met(c, g), NotMet(c, g))
               /\ Clear(t, NotMet(c, g)) => Clear(queue', NotMet(c, g))
    BY <1>1, <1>3, <1>q, <2>3, PendingAppend
  <2>4. ASSUME Clear(queue, Leaves(c, g))
        PROVE  m \notin NotMet(c, g) /\ (HasTimer(c, g) => HasTimer(c, g)')
    <3>1. ~(d = c /\ h = g)  BY <1>1, <1>k, <1>10, <2>4, ReceiveKeeps
    <3>2. HasTimer(c, g) => c \in Timed
      BY <1>e, RuleEngineAssumption DEF HasTimer, Travelling
    <3>3. HasTimer(c, g) /\ rule_of[c] = rule_of[d] => c = d /\ g = h
      BY <1>2, <1>10, <3>2 DEF Alone, Conditions
    <3> QED  BY <1>k, <1>8, <1>10, <3>1, <3>3
  <2> QED
    BY <1>1, <1>k, <1>10, <2>1, <2>2, <2>3, <2>4, ReceiveKeeps, SameKinds
       DEF EnteringTakesEffect, t
<1> QED  BY <1>7, <1>9, <1>10 DEF EffectsInv, Alone, Conditions

LEMMA GetterAddedEffects ==
  ASSUME TypeOK, EffectsInv, HandleGetterAdded
  PROVE  EffectsInv'
<1> DEFINE t == Tail(queue)
<1>1. /\ task = "running" /\ queue # <<>> /\ Head(queue).op = "GetterAdded" /\ queue' = t
      /\ UNCHANGED <<world, engine, task>>
  BY DEF HandleGetterAdded, Receive
<1>e. Travelling  BY <1>1 DEF EffectsInv
<1>q. queue \in Seq(Messages)  BY DEF TypeOK
<1>2. Head(queue) = Event("GetterAdded", Head(queue).c, Head(queue).g)
  BY <1>1, <1>e, <1>q, HeadIsEvent DEF Travelling
<1>3. ASSUME NEW c \in Condition, NEW g \in sources[c]
      PROVE  /\ Head(queue) \notin Enters(c, g) \cup Cancels(c, g) \cup Met(c, g) \cup NotMet(c, g)
             /\ HasTimer(c, g)' = HasTimer(c, g)
  BY <1>1, <1>2, Kinds DEF Ops, HasTimer, engine
<1>4. Travelling'
  BY <1>1, <1>q, <1>e, WatchedStay DEF Travelling, Watched, engine
<1>5. ASSUME NEW c \in Condition, NEW g \in sources[c]
      PROVE  /\ LeavingTakesEffect(c, g) => LeavingTakesEffect(c, g)'
             /\ EnteringTakesEffect(c, g) => EnteringTakesEffect(c, g)'
  <2>1. LeavingTakesEffect(c, g) => LeavingTakesEffect(c, g)'
    BY <1>1, <1>3, <1>5, ReceiveKeeps, SameKinds DEF LeavingTakesEffect, engine
  <2>2. EnteringTakesEffect(c, g) => EnteringTakesEffect(c, g)'
    BY <1>1, <1>3, <1>5, ReceiveKeeps, SameKinds DEF EnteringTakesEffect, engine
  <2> QED  BY <2>1, <2>2
<1> QED  BY <1>1, <1>4, <1>5 DEF EffectsInv, Alone, Conditions

(* An update is received, and recorded.                                     *)
LEMMA UpdateEffects ==
  ASSUME RecordsExact, EffectsInv, HandleUpdateCondition
  PROVE  EffectsInv'
<1> DEFINE d == Head(queue).c
           h == Head(queue).g
           t == Tail(queue)
<1>t. TypeOK  BY DEF RecordsExact
<1>1. PICK is_met \in BOOLEAN :
        /\ Receive(IF is_met THEN "Met" ELSE "NotMet")
        /\ UpdateConditions(d, h, is_met)
        /\ queue' = t
        /\ UNCHANGED <<world, ongoing_timer, task, stop>>
  BY DEF HandleUpdateCondition
<1>2. task = "running" /\ queue # <<>> /\ Head(queue).op = IF is_met THEN "Met" ELSE "NotMet"
  BY <1>1 DEF Receive
<1>e. Travelling  BY <1>2 DEF EffectsInv
<1>q. queue \in Seq(Messages)  BY <1>t DEF TypeOK
<1>3. /\ Head(queue) = Event(IF is_met THEN "Met" ELSE "NotMet", d, h)
      /\ d \in Condition /\ h \in sources[d]
  BY <1>2, <1>e, <1>q, HeadIsEvent DEF Travelling
<1>4. h \in Getter  BY <1>3, RuleEngineAssumption
<1>5. per_getter' = [per_getter EXCEPT ![d] = IF is_met THEN @ \cup {h} ELSE @ \ {h}]
  <2>1. d \in Condition /\ h \in Getter /\ UpdateConditions(d, h, is_met)  BY <1>1, <1>3, <1>4
  <2> HIDE DEF d, h
  <2> QED  BY <2>1, UpdateConditionsRecords
<1>6. \A c \in Condition : \A g \in Getter :
        g \in per_getter'[c] <=> IF c = d /\ g = h THEN is_met ELSE g \in per_getter[c]
  BY <1>3, <1>4, <1>5, <1>t DEF TypeOK
<1>k. ASSUME NEW c \in Condition, NEW g \in sources[c]
      PROVE  /\ Head(queue) \in Met(c, g) <=> is_met /\ d = c /\ h = g
             /\ Head(queue) \in NotMet(c, g) <=> ~is_met /\ d = c /\ h = g
             /\ Head(queue) \notin Enters(c, g) \cup Cancels(c, g) \cup Leaves(c, g)
             /\ HasTimer(c, g)' = HasTimer(c, g)
             /\ g \in Getter
  BY <1>1, <1>3, Kinds, RuleEngineAssumption DEF Ops, HasTimer
<1>7. Travelling'
  <2>1. \A c \in Condition : per_getter'[c] \subseteq sources[c]
    BY <1>3, <1>5, <1>e, <1>t DEF Travelling, TypeOK
  <2> QED  BY <1>1, <1>2, <1>q, <1>e, <2>1, WatchedStay DEF Travelling, Watched
<1>8. ASSUME NEW c \in Condition, NEW g \in sources[c]
      PROVE  /\ LeavingTakesEffect(c, g) => LeavingTakesEffect(c, g)'
             /\ EnteringTakesEffect(c, g) => EnteringTakesEffect(c, g)'
  <2>1. LeavingTakesEffect(c, g) => LeavingTakesEffect(c, g)'
    BY <1>1, <1>2, <1>6, <1>k, <1>8, <1>t, ReceiveKeeps, SameKinds DEF LeavingTakesEffect
  <2>2. EnteringTakesEffect(c, g) => EnteringTakesEffect(c, g)'
    BY <1>1, <1>2, <1>6, <1>k, <1>8, <1>t, ReceiveKeeps, SameKinds DEF EnteringTakesEffect
  <2> QED  BY <2>1, <2>2
<1> QED  BY <1>1, <1>2, <1>7, <1>8 DEF EffectsInv, Alone, Conditions

(* Every step; once the thread has ended nothing is promised.               *)
LEMMA NextEffects ==
  ASSUME RecordsExact, EffectsInv, [Next]_vars
  PROVE  EffectsInv'
<1>t. TypeOK  BY DEF RecordsExact
<1>1. ASSUME NEW c \in Condition, NEW g \in Getter,
             EnterRange(c, g) \/ ExitRange(c, g) \/ RemoveGetter(c, g) \/ AddGetter(c, g)
      PROVE  EffectsInv'
  <2>1. CASE EnterRange(c, g)
    <3>1. MoveRange(c, g, "out", "in", "EnterRange")  BY <2>1 DEF EnterRange
    <3> QED  BY <3>1, <1>t, MoveRangeEffects DEF Ops
  <2>2. CASE ExitRange(c, g)
    <3>1. MoveRange(c, g, "in", "out", "ExitRange")  BY <2>2 DEF ExitRange
    <3> QED  BY <3>1, <1>t, MoveRangeEffects DEF Ops
  <2>3. CASE RemoveGetter(c, g)
    <3>1. PICK from \in {"in", "out"} : MoveRange(c, g, from, "absent", "GetterRemoved")
      BY <2>3 DEF RemoveGetter
    <3>2. g \in Removable  BY <2>3 DEF RemoveGetter
    <3> QED  BY <3>1, <3>2, <1>t, MoveRangeEffects DEF Ops
  <2>4. CASE AddGetter(c, g)
    <3>1. MoveRange(c, g, "absent", "out", "GetterAdded")  BY <2>4 DEF AddGetter
    <3> QED  BY <3>1, <1>t, MoveRangeEffects DEF Ops
  <2> QED  BY <1>1, <2>1, <2>2, <2>3, <2>4
<1>2. ASSUME NEW r \in Rule, TimerElapses(r) PROVE EffectsInv'
  BY <1>2, <1>t, TimerEffects
<1>3. CASE StopScript  BY <1>3, <1>t, StopScriptEffects
<1>4. CASE HandleEnterRange  BY <1>4, <1>t, EnterRangeEffects
<1>5. CASE HandleExitRange \/ HandleGetterRemoved  BY <1>5, <1>t, LeavingEffects
<1>6. CASE HandleGetterAdded  BY <1>6, <1>t, GetterAddedEffects
<1>7. CASE HandleUpdateCondition  BY <1>7, UpdateEffects
<1>8. CASE HandleStop
  <2>1. task' # "running"  BY <1>8 DEF HandleStop
  <2> QED  BY <2>1 DEF EffectsInv
<1>9. CASE UNCHANGED vars
  <2>1. UNCHANGED <<world, queue, per_getter, ongoing_timer, task>>  BY <1>9 DEF vars, engine
  <2>2. Travelling' = Travelling  BY <2>1 DEF Travelling, Watched
  <2>3. ASSUME NEW c, NEW g
        PROVE  /\ LeavingTakesEffect(c, g)' = LeavingTakesEffect(c, g)
               /\ EnteringTakesEffect(c, g)' = EnteringTakesEffect(c, g)
    BY <2>1, SameKinds DEF LeavingTakesEffect, EnteringTakesEffect, Pending, Clear, HasTimer
  <2> QED  BY <2>1, <2>2, <2>3 DEF EffectsInv, Alone, Conditions
<1> QED
  BY <1>1, <1>2, <1>3, <1>4, <1>5, <1>6, <1>7, <1>8, <1>9 DEF Next, Handle

LEMMA InitEffects == Init => EffectsInv
<1> SUFFICES ASSUME Init PROVE EffectsInv  OBVIOUS
<1>1. Travelling
  BY RuleEngineAssumption DEF Init, Travelling, NoTimer
<1>2. ASSUME NEW c \in Condition, NEW g \in sources[c]
      PROVE  LeavingTakesEffect(c, g) /\ EnteringTakesEffect(c, g)
  <2>1. world[c][g] = "out" /\ g \notin per_getter[c] /\ queue = <<>>  BY DEF Init
  <2>2. \A B : Clear(queue, B)  BY <2>1 DEF Clear
  <2>3. ~HasTimer(c, g)  BY RuleEngineAssumption DEF Init, HasTimer, NoTimer
  <2> QED  BY <2>1, <2>2, <2>3 DEF LeavingTakesEffect, EnteringTakesEffect
<1> QED  BY <1>1, <1>2 DEF EffectsInv

(* With nothing on its way, what is recorded is what the devices show.      *)
LEMMA EffectsWhenQuiet == EffectsInv => QuietMatchesWorld
<1> SUFFICES ASSUME EffectsInv, Quiet PROVE QuietMatchesWorld!2
  BY DEF QuietMatchesWorld
<1>1. Travelling /\ queue = <<>> /\ \A r \in Rule : ~ongoing_timer[r].pending
  BY DEF EffectsInv, Quiet
<1>2. \A A, B : ~Pending(queue, A, B)  BY <1>1 DEF Pending
<1>3. \A c \in Condition : \A g : ~HasTimer(c, g)  BY <1>1, RuleEngineAssumption DEF HasTimer
<1>4. ASSUME NEW c \in Condition, NEW g \in sources[c], c \notin Timed \/ g \notin Removable
      PROVE  g \in per_getter[c] => world[c][g] = "in"
  BY <1>2, <1>4 DEF EffectsInv, Quiet, LeavingTakesEffect
<1>5. ASSUME NEW c \in Condition, NEW g \in sources[c], c \notin Timed \/ Alone(c)
      PROVE  world[c][g] = "in" => g \in per_getter[c]
  BY <1>2, <1>3, <1>5 DEF EffectsInv, Quiet, EnteringTakesEffect
<1>6. \A c \in Condition : per_getter[c] \subseteq sources[c]  BY <1>1 DEF Travelling
<1>7. \A c \in Condition \ Timed : per_getter[c] = InRange(c)
  BY <1>4, <1>5, <1>6 DEF InRange
<1>8. \A c \in Timed : per_getter[c] \ Removable \subseteq InRange(c)
  BY <1>4, <1>6, RuleEngineAssumption DEF InRange
<1>9. \A c \in Timed : Alone(c) => InRange(c) \subseteq per_getter[c]
  BY <1>5, RuleEngineAssumption DEF InRange
<1> QED  BY <1>7, <1>8, <1>9

(* Whatever the devices did and in whatever order their events, the timers *)
(* and the updates were received, an engine with nothing left to receive   *)
(* records exactly what the devices show, as far as the timer that rules   *)
(* share, and the removals, let it.                                        *)
THEOREM QuietEngineMatchesWorld == Spec => []QuietMatchesWorld
<1>1. EffectsInv /\ RecordsExact /\ [Next]_vars => EffectsInv'  BY NextEffects
<1> QED  BY InitEffects, <1>1, EffectsWhenQuiet, RecordsAreExact, PTL DEF Spec
=============================================================================
