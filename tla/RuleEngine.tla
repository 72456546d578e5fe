------------------------------ MODULE RuleEngine ------------------------------
(***************************************************************************)
(* The execution of one script of Thinkerbell, the rule engine of the box  *)
(* (components/thinkerbell/src/run.rs, `ExecutionTask::run`).              *)
(*                                                                         *)
(* A script is a set of rules, each with conditions.  A condition watches  *)
(* the getters its selectors match, for a range; it may have a duration.   *)
(* The thread of the script has one channel.  Through it come the events   *)
(* of its watches, the timers that elapse, the request to stop, and the    *)
(* messages the thread sends to itself: a change of a getter is first      *)
(* received as an event and takes effect only when the UpdateCondition it  *)
(* posted at the tail of the channel is received in turn.                  *)
(*                                                                         *)
(* The devices are the environment: a watched getter enters and leaves the *)
(* range of a condition, and may be disconnected and come back.            *)
(***************************************************************************)
EXTENDS Naturals, Sequences

CONSTANTS
  Rule,          \* the rules of the script
  Condition,     \* the conditions of all rules
  rule_of,       \* condition -> its rule
  sources,       \* condition -> the getters its selectors match
  Timed,         \* the conditions with a duration
  Getter,        \* the getters
  Removable,     \* the getters that may be disconnected
  MaxQueue       \* bound on the messages in the channel when a device acts

ASSUME RuleEngineAssumption ==
  /\ rule_of \in [Condition -> Rule]
  /\ sources \in [Condition -> SUBSET Getter]
  /\ Timed \subseteq Condition
  /\ Removable \subseteq Getter
  /\ MaxQueue \in Nat

VARIABLES
  world,          \* condition -> getter -> "in", "out" (of the range) or "absent"
  queue,          \* the channel of the thread
  per_getter,     \* condition -> getters for which it is met
  match_is_met,   \* condition -> whether some getter meets it, as recorded
  rule_is_met,    \* rule -> whether it is met, as recorded
  ongoing_timer,  \* rule -> its only timer, or NoTimer
  task,           \* "running" or "over"
  stop,           \* "no", "sent" or "done": `Execution::stop` and its callback
  fired           \* history: rule -> parity of the number of times it has executed

engine == <<per_getter, match_is_met, rule_is_met, ongoing_timer>>
vars == <<world, queue, engine, task, stop, fired>>

Event(op, c, g) == [op |-> op, c |-> c, g |-> g]
UpdateCondition(c, g, is_met) == Event(IF is_met THEN "Met" ELSE "NotMet", c, g)
StopMessage == [op |-> "Stop"]
Messages ==
  [op : {"EnterRange", "ExitRange", "GetterRemoved", "GetterAdded", "Met", "NotMet"},
   c : Condition, g : Getter] \cup {StopMessage}

NoTimer == [pending |-> FALSE]
Timer(c, g) == [pending |-> TRUE, c |-> c, g |-> g]

Conditions(r) == {c \in Condition : rule_of[c] = r}

(* The watches are in place and no device has entered its range yet.        *)
Init ==
  /\ world = [c \in Condition |-> [g \in sources[c] |-> "out"]]
  /\ queue = <<>>
  /\ per_getter = [c \in Condition |-> {}]
  /\ match_is_met = [c \in Condition |-> FALSE]
  /\ rule_is_met = [r \in Rule |-> FALSE]
  /\ ongoing_timer = [r \in Rule |-> NoTimer]
  /\ task = "running"
  /\ stop = "no"
  /\ fired = [r \in Rule |-> FALSE]

-----------------------------------------------------------------------------
(* The devices.  Each condition has a watch of its own on its getters; its *)
(* events arrive in the order they happen.                                 *)

MoveRange(c, g, from, to, op) ==
  /\ task = "running"
  /\ Len(queue) < MaxQueue
  /\ g \in sources[c]
  /\ world[c][g] = from
  /\ world' = [world EXCEPT ![c][g] = to]
  /\ queue' = Append(queue, Event(op, c, g))
  /\ UNCHANGED <<engine, task, stop, fired>>

EnterRange(c, g) == MoveRange(c, g, "out", "in", "EnterRange")
ExitRange(c, g) == MoveRange(c, g, "in", "out", "ExitRange")

(* The getter is disconnected from one watch: each watcher is told in turn.*)
RemoveGetter(c, g) ==
  /\ g \in Removable
  /\ \E from \in {"in", "out"} : MoveRange(c, g, from, "absent", "GetterRemoved")

AddGetter(c, g) == MoveRange(c, g, "absent", "out", "GetterAdded")

(* `timer::Timer` runs the callback of a guard that was not dropped.        *)
TimerElapses(r) ==
  /\ task = "running"
  /\ ongoing_timer[r].pending
  /\ ongoing_timer' = [ongoing_timer EXCEPT ![r].pending = FALSE]
  /\ queue' = Append(queue, UpdateCondition(ongoing_timer[r].c, ongoing_timer[r].g, TRUE))
  /\ UNCHANGED <<world, per_getter, match_is_met, rule_is_met, task, stop, fired>>

(* `Execution::stop`; a second call is refused (NotRunning).                *)
StopScript ==
  /\ stop = "no"
  /\ stop' = "sent"
  /\ queue' = Append(queue, StopMessage)
  /\ UNCHANGED <<world, engine, task, fired>>

-----------------------------------------------------------------------------
(* The thread of the script, one message at a time.                        *)

Receive(op) ==
  /\ task = "running"
  /\ queue # <<>>
  /\ Head(queue).op = op

Post(message) == queue' = Append(Tail(queue), message)

(* A value entered the range: without a duration the change is posted at   *)
(* once, otherwise a timer is started that will post it.  A rule has one   *)
(* timer: the guard it held is dropped, which cancels that timer.          *)
HandleEnterRange ==
  /\ Receive("EnterRange")
  /\ LET c == Head(queue).c
         g == Head(queue).g
     IN IF c \in Timed
        THEN /\ ongoing_timer' = [ongoing_timer EXCEPT ![rule_of[c]] = Timer(c, g)]
             /\ queue' = Tail(queue)
        ELSE /\ Post(UpdateCondition(c, g, TRUE))
             /\ UNCHANGED ongoing_timer
  /\ UNCHANGED <<world, per_getter, match_is_met, rule_is_met, task, stop, fired>>

(* A value left the range: the timer of the rule, if any, is cancelled.     *)
HandleExitRange ==
  /\ Receive("ExitRange")
  /\ LET c == Head(queue).c
         g == Head(queue).g
     IN /\ ongoing_timer' = [ongoing_timer EXCEPT ![rule_of[c]] = NoTimer]
        /\ Post(UpdateCondition(c, g, FALSE))
  /\ UNCHANGED <<world, per_getter, match_is_met, rule_is_met, task, stop, fired>>

(* Mutant: the removal is only logged.                                      *)
HandleGetterRemovedIgnored ==
  /\ Receive("GetterRemoved")
  /\ queue' = Tail(queue)
  /\ UNCHANGED <<world, engine, task, stop, fired>>

HandleGetterRemoved ==
  /\ Receive("GetterRemoved")
  /\ Post(UpdateCondition(Head(queue).c, Head(queue).g, FALSE))
  /\ UNCHANGED <<world, engine, task, stop, fired>>

(* Nothing to do; an InitializationError is only reported, likewise.        *)
HandleGetterAdded ==
  /\ Receive("GetterAdded")
  /\ queue' = Tail(queue)
  /\ UNCHANGED <<world, engine, task, stop, fired>>

(* `update_conditions`.  Nothing happens unless the getter changes state.   *)
(* A rule is met when the first condition that is met is found, and its     *)
(* statements are executed when it was not met before.                      *)
ConditionIsMet(r, matches) == \E c \in Conditions(r) : matches[c]

(* Mutants: the other getters of the condition are forgotten; the rule      *)
(* fires each time one of its conditions is found met.                      *)
UpdateConditionsOfOneGetter(c, g, getter_is_met) ==
  LET r == rule_of[c]
      was_met == g \in per_getter[c]
      now == IF getter_is_met THEN per_getter[c] \cup {g} ELSE per_getter[c] \ {g}
      matches == [match_is_met EXCEPT ![c] = getter_is_met]
  IN IF was_met = getter_is_met
     THEN UNCHANGED <<per_getter, match_is_met, rule_is_met, fired>>
     ELSE /\ per_getter' = [per_getter EXCEPT ![c] = now]
          /\ match_is_met' = matches
          /\ rule_is_met' = [rule_is_met EXCEPT ![r] = ConditionIsMet(r, matches)]
          /\ fired' = [fired EXCEPT ![r] = IF ~rule_is_met[r] /\ ConditionIsMet(r, matches)
                                           THEN ~@ ELSE @]

UpdateConditionsFiringAgain(c, g, getter_is_met) ==
  LET r == rule_of[c]
      was_met == g \in per_getter[c]
      now == IF getter_is_met THEN per_getter[c] \cup {g} ELSE per_getter[c] \ {g}
      matches == [match_is_met EXCEPT ![c] = getter_is_met \/ now # {}]
  IN IF was_met = getter_is_met
     THEN UNCHANGED <<per_getter, match_is_met, rule_is_met, fired>>
     ELSE /\ per_getter' = [per_getter EXCEPT ![c] = now]
          /\ match_is_met' = matches
          /\ rule_is_met' = [rule_is_met EXCEPT ![r] = ConditionIsMet(r, matches)]
          /\ fired' = [fired EXCEPT ![r] = IF ConditionIsMet(r, matches) THEN ~@ ELSE @]

UpdateConditions(c, g, getter_is_met) ==
  LET r == rule_of[c]
      was_met == g \in per_getter[c]
      now == IF getter_is_met THEN per_getter[c] \cup {g} ELSE per_getter[c] \ {g}
      matches == [match_is_met EXCEPT ![c] = getter_is_met \/ now # {}]
  IN IF was_met = getter_is_met
     THEN UNCHANGED <<per_getter, match_is_met, rule_is_met, fired>>
     ELSE /\ per_getter' = [per_getter EXCEPT ![c] = now]
          /\ match_is_met' = matches
          /\ rule_is_met' = [rule_is_met EXCEPT ![r] = ConditionIsMet(r, matches)]
          /\ fired' = [fired EXCEPT ![r] = IF ~rule_is_met[r] /\ ConditionIsMet(r, matches)
                                           THEN ~@ ELSE @]

HandleUpdateCondition ==
  \E is_met \in BOOLEAN :
    /\ Receive(IF is_met THEN "Met" ELSE "NotMet")
    /\ UpdateConditions(Head(queue).c, Head(queue).g, is_met)
    /\ queue' = Tail(queue)
    /\ UNCHANGED <<world, ongoing_timer, task, stop>>

(* Mutant: the thread ends without calling the callback.                    *)
HandleStopUnanswered ==
  /\ Receive("Stop")
  /\ task' = "over"
  /\ queue' = <<>>
  /\ ongoing_timer' = [r \in Rule |-> NoTimer]
  /\ UNCHANGED <<world, per_getter, match_is_met, rule_is_met, stop, fired>>

(* The callback of the stop, then the thread ends; the channel, the watches *)
(* and the timers are dropped with it.                                      *)
HandleStop ==
  /\ Receive("Stop")
  /\ task' = "over"
  /\ stop' = "done"
  /\ queue' = <<>>
  /\ ongoing_timer' = [r \in Rule |-> NoTimer]
  /\ UNCHANGED <<world, per_getter, match_is_met, rule_is_met, fired>>

Handle ==
  \/ HandleEnterRange
  \/ HandleExitRange
  \/ HandleGetterRemoved
  \/ HandleGetterAdded
  \/ HandleUpdateCondition
  \/ HandleStop

Next ==
  \/ \E c \in Condition, g \in Getter :
       EnterRange(c, g) \/ ExitRange(c, g) \/ RemoveGetter(c, g) \/ AddGetter(c, g)
  \/ \E r \in Rule : TimerElapses(r)
  \/ StopScript
  \/ Handle

Spec == Init /\ [][Next]_vars

(* The thread runs on (a statement that blocks for ever is the subject of  *)
(* ThinkerbellAdapter), and timers elapse.  Devices may stay as they are.  *)
FairSpec == Spec /\ WF_vars(Handle) /\ \A r \in Rule : WF_vars(TimerElapses(r))

-----------------------------------------------------------------------------
(* Properties.  The type invariant:                                         *)
TypeOK ==
  /\ world \in [Condition -> UNION {[S -> {"in", "out", "absent"}] : S \in SUBSET Getter}]
  /\ queue \in Seq(Messages)
  /\ per_getter \in [Condition -> SUBSET Getter]
  /\ match_is_met \in [Condition -> BOOLEAN]
  /\ rule_is_met \in [Rule -> BOOLEAN]
  /\ ongoing_timer \in [Rule -> {NoTimer} \cup
       [pending : BOOLEAN, c : Condition, g : Getter]]
  /\ task \in {"running", "over"}
  /\ stop \in {"no", "sent", "done"}
  /\ fired \in [Rule -> BOOLEAN]

(* What the records stand for: whether a match, and a rule, is met NOW.     *)
MatchMet(c) == per_getter[c] # {}
RuleMet(r) == \E c \in Conditions(r) : MatchMet(c)

(* The recorded `match_is_met` and `rule_is_met`, which are updated for the *)
(* getter and the condition that change only, are never stale; all records  *)
(* keep their types.                                                        *)
RecordsExact ==
  /\ TypeOK
  /\ \A c \in Condition : match_is_met[c] = MatchMet(c)
  /\ \A r \in Rule : rule_is_met[r] = RuleMet(r)

(* A rule executes its statements in exactly the steps in which it becomes  *)
(* met, never again while it stays met.                                     *)
FiresWhenItBecomesMet ==
  [][\A r \in Rule : (fired'[r] # fired[r]) <=> (~RuleMet(r) /\ RuleMet(r)')]_vars

(* The engine has received everything and no timer is running.              *)
Quiet == task = "running" /\ queue = <<>> /\ \A r \in Rule : ~ongoing_timer[r].pending

InRange(c) == {g \in sources[c] : world[c][g] = "in"}

(* Whatever the order in which devices act and messages overtake each       *)
(* other, a quiet engine agrees with the devices: exactly on the conditions *)
(* without a duration; on the others, a getter that cannot be disconnected  *)
(* counts only if it is in the range.  Where one getter has the timer of    *)
(* its rule for itself, it counts once it has stayed in the range.          *)
Alone(c) == (\E g \in Getter : sources[c] = {g}) /\ Conditions(rule_of[c]) = {c}
QuietMatchesWorld ==
  Quiet =>
    /\ \A c \in Condition \ Timed : per_getter[c] = InRange(c)
    /\ \A c \in Timed : per_getter[c] \ Removable \subseteq InRange(c)
    /\ \A c \in Timed : Alone(c) => InRange(c) \subseteq per_getter[c]

(* A script that is asked to stop stops, and the callback is called,        *)
(* however many events arrive meanwhile.                                    *)
StopsEventually == (stop = "sent") ~> (stop = "done" /\ task = "over")

-----------------------------------------------------------------------------
(* What comments and documentation of the code say, and the code does not   *)
(* do: see the README.                                                      *)

(* "A getter was removed. Its condition is therefore not met anymore."      *)
(* (run.rs:323)                                                             *)
RemovedNotCounted ==
  Quiet => \A c \in Condition : \A g \in sources[c] :
    world[c][g] = "absent" => g \notin per_getter[c]
=============================================================================
