-------------------------------- MODULE Clock --------------------------------
(***************************************************************************)
(* The clock adapter (src/adapters/clock/mod.rs): the time, the time of    *)
(* day, and watches on them.                                               *)
(*                                                                         *)
(* A watch never reads the clock again: register_watch turns the range     *)
(* into dates, at which timers send Enter or Exit.  The thread of the      *)
(* timers takes the earliest one that is due, and may be late; timers with *)
(* the same date go off in any order, for they are kept in a binary heap.  *)
(* The timers themselves are the crate `timer`, which is external.         *)
(*                                                                         *)
(* Time is counted in ticks, with Day ticks in a day.  Local time and UTC  *)
(* are the same, and the clock is never set.                               *)
(***************************************************************************)
EXTENDS HashMap, Integers, Sequences, FiniteSets

CONSTANTS
  Day,              \* ticks in a day
  MaxTime,          \* bound on the time
  MaxClockWatches,  \* bound on the number of watches
  ClockRanges       \* the ranges given to register_watch, one set for each getter

V == INSTANCE Values

ASSUME ClockAssumption ==
  /\ Day \in Nat \ {0} /\ MaxTime \in Nat /\ MaxClockWatches \in Nat
  /\ Day - 1 <= MaxTime
  /\ DOMAIN ClockRanges = {"timeofday", "timestamp", "interval"}
  /\ \A getter \in DOMAIN ClockRanges : \A range \in ClockRanges[getter] :
       /\ range.form \in V!Form
       /\ range.form \notin V!TwoBounds => range.min = range.max
       /\ \A v \in {range.min, range.max} :
            v.type \in {"Duration", "TimeStamp"} => v = V!Data(v.type, v.data) /\ v.data \in Nat

ClockGetter == DOMAIN ClockRanges
ClockKey == 0 .. MaxClockWatches - 1

VARIABLES
  now,         \* the time
  clockWatch,  \* key -> the getter and the range of a watch, and whether its guard lives
  timers,      \* the timers that are scheduled
  callback,    \* the events that the callback of a timer has yet to send
  (* History, read by no action:                                           *)
  clockTold    \* key -> the last event sent to the watcher, and the parity of their number

clockVars == <<now, clockWatch, timers, callback, clockTold>>

ClockUntold == [kind |-> "none", odd |-> FALSE]

ClockInit ==
  /\ now \in 0 .. Day - 1
  /\ clockWatch = EmptyMap
  /\ timers = {}
  /\ callback = <<>>
  /\ clockTold = EmptyMap

-----------------------------------------------------------------------------
(* `fetch_values`: {} for a getter that has no value.                       *)
TimeValue(getter, t) ==
  CASE getter = "timestamp" -> {V!Data("TimeStamp", t)}
    [] getter = "timeofday" -> {V!Data("Duration", t % Day)}
    [] OTHER -> {}

Movement(kinds, date) == [kinds |-> kinds, date |-> date]
Enter(date) == Movement(<<"Enter">>, date)
Exit(date) == Movement(<<"Exit">>, date)

(* When to send what during a day, from aux_register_watch_timeofday.  A    *)
(* duration of a day added to midnight is midnight again.                   *)
DailyThresholds(range) ==
  LET min == range.min.data % Day
      max == range.max.data % Day
  IN CASE range.form = "Leq" -> {Enter(0), Exit(max)}
       [] range.form = "Geq" -> {Enter(min), Exit(0)}
       [] range.form = "OutOfStrict" -> {Exit(min), Enter(max)}
       [] OTHER -> {Enter(min), Exit(max)}

(* `get_next_date`: today, or tomorrow when it has passed.                  *)
NextDate(t, timeofday) ==
  LET date == t - (t % Day) + timeofday
  IN IF date >= t THEN date ELSE date + Day

(* When to send what, once, from aux_register_watch_timestamp.              *)
DatedThresholds(range) ==
  CASE range.form = "Leq" -> {}
    [] range.form \in {"Geq", "Eq"} -> {Enter(range.min.data)}
    [] range.form = "OutOfStrict" -> {Exit(range.min.data), Enter(range.max.data)}
    [] range.form = "BetweenEq" -> {Enter(range.min.data), Exit(range.max.data)}

(* Mutant: the timers of a time of day go off once.                         *)
ScheduleOnce(getter, range, t) ==
  CASE getter = "timeofday" ->
         {[kinds |-> m.kinds, date |-> NextDate(t, m.date), every |-> 0] :
            m \in DailyThresholds(range)}
    [] getter = "timestamp" ->
         {[kinds |-> m.kinds, date |-> m.date, every |-> 0] :
            m \in {x \in DatedThresholds(range) : x.date >= t}}
    [] getter = "interval" ->
         {[kinds |-> <<"Enter", "Exit">>, date |-> t + range.min.data, every |-> range.min.data]}

(* The timers of a watch; `every` is 0 for those that do not repeat.        *)
Schedule(getter, range, t) ==
  CASE getter = "timeofday" ->
         {[kinds |-> m.kinds, date |-> NextDate(t, m.date), every |-> Day] :
            m \in DailyThresholds(range)}
    [] getter = "timestamp" ->
         {[kinds |-> m.kinds, date |-> m.date, every |-> 0] :
            m \in {x \in DatedThresholds(range) : x.date >= t}}
    [] getter = "interval" ->
         {[kinds |-> <<"Enter", "Exit">>, date |-> t + range.min.data, every |-> range.min.data]}

(* The type of the range must be that of the getter, and an interval has    *)
(* one bound; anything else is an error and leaves no timer.                *)
AcceptsRange(getter, range) ==
  /\ V!RangeType(range) = {IF getter = "timestamp" THEN "TimeStamp" ELSE "Duration"}
  /\ getter = "interval" => range.form \in {"Eq", "Geq"}

RegisterClockWatch(getter, range) ==
  LET k == Cardinality(DOMAIN clockWatch)
  IN /\ k \in ClockKey
     /\ AcceptsRange(getter, range)
     /\ clockWatch' = Put(clockWatch, k, [getter |-> getter, range |-> range, live |-> TRUE])
     /\ clockTold' = Put(clockTold, k, ClockUntold)
     /\ timers' = timers \cup
          {[key |-> k, kinds |-> s.kinds, date |-> s.date, every |-> s.every] :
             s \in Schedule(getter, range, now)}
     /\ UNCHANGED <<now, callback>>

(* The guard of a watch is dropped: the guards of its timers cancel them,   *)
(* not a callback that runs.                                                *)
DropClockGuard(k) ==
  /\ k \in DOMAIN clockWatch
  /\ clockWatch[k].live
  /\ clockWatch' = [clockWatch EXCEPT ![k].live = FALSE]
  /\ timers' = {t \in timers : t.key # k}
  /\ UNCHANGED <<now, callback, clockTold>>

-----------------------------------------------------------------------------
(* The thread of the timers.                                               *)

FireTimer(t) ==
  /\ callback = <<>>
  /\ t.date <= now
  /\ \A u \in timers : t.date <= u.date
  /\ timers' = (timers \ {t}) \cup
       (IF t.every = 0 THEN {} ELSE {[t EXCEPT !.date = @ + t.every]})
  /\ callback' = [i \in DOMAIN t.kinds |-> [key |-> t.key, kind |-> t.kinds[i]]]
  /\ UNCHANGED <<now, clockWatch, clockTold>>

(* Mutant: the callback of an interval forgets Exit.                        *)
SendClockEventOnce ==
  /\ callback # <<>>
  /\ LET event == Head(callback)
     IN clockTold' = [clockTold EXCEPT ![event.key] = [kind |-> event.kind, odd |-> ~@.odd]]
  /\ callback' = <<>>
  /\ UNCHANGED <<now, clockWatch, timers>>

SendClockEvent ==
  /\ callback # <<>>
  /\ LET event == Head(callback)
     IN clockTold' = [clockTold EXCEPT ![event.key] = [kind |-> event.kind, odd |-> ~@.odd]]
  /\ callback' = Tail(callback)
  /\ UNCHANGED <<now, clockWatch, timers>>

Tick ==
  /\ now < MaxTime
  /\ now' = now + 1
  /\ UNCHANGED <<clockWatch, timers, callback, clockTold>>

ClockNext ==
  \/ \E getter \in ClockGetter : \E range \in ClockRanges[getter] :
       RegisterClockWatch(getter, range)
  \/ \E k \in ClockKey : DropClockGuard(k)
  \/ \E t \in timers : FireTimer(t)
  \/ SendClockEvent
  \/ Tick

ClockSpec == ClockInit /\ [][ClockNext]_clockVars

-----------------------------------------------------------------------------
(* Properties.                                                             *)

ClockTypeOK ==
  /\ now \in 0 .. MaxTime
  /\ DOMAIN clockWatch \subseteq ClockKey
  /\ \A k \in DOMAIN clockWatch :
       clockWatch[k].getter \in ClockGetter /\ clockWatch[k].range \in ClockRanges[clockWatch[k].getter]
  /\ \A t \in timers : t.key \in DOMAIN clockWatch /\ t.date + t.every \in Nat
  /\ Len(callback) <= 2
  /\ \A i \in DOMAIN callback : callback[i] \in [key : DOMAIN clockWatch, kind : {"Enter", "Exit"}]
  /\ clockTold \in [DOMAIN clockWatch -> {ClockUntold} \cup [kind : {"Enter", "Exit"}, odd : BOOLEAN]]

Dates(w) ==
  {t.date : t \in IF w.getter = "timeofday" THEN DailyThresholds(w.range)
                  ELSE DatedThresholds(w.range)}

(* A range that the timers can follow: its bounds are in order and within a *)
(* day, and Enter and Exit are not due together.  Else see the README.      *)
Followed(w) ==
  /\ w.getter # "interval" /\ w.range.form # "Eq"
  /\ w.range.form \in V!TwoBounds => V!Lt(w.range.min, w.range.max)
  /\ w.getter = "timeofday" => w.range.max.data <= Day /\ Cardinality(Dates(w)) = 2

OnTime == callback = <<>> /\ \A t \in timers : t.date > now

(* The instant at which Exit, or Enter, is sent for the upper bound.        *)
AtUpperBound(w, v) ==
  /\ w.range.form # "Geq"
  /\ v.data = IF w.getter = "timeofday" THEN w.range.max.data % Day ELSE w.range.max.data

(* However late its timers were, a watch that has been told anything agrees *)
(* with the value that fetch_values returns, once nothing is due: it was    *)
(* last sent Enter exactly if the time is in its range.  The instant of the *)
(* upper bound is left aside.                                               *)
ClockFollowsRange ==
  \A k \in DOMAIN clockWatch :
    LET w == clockWatch[k]
    IN OnTime /\ w.live /\ Followed(w) /\ clockTold[k] # ClockUntold =>
         \A v \in TimeValue(w.getter, now) :
           ~AtUpperBound(w, v) =>
             ((clockTold[k].kind = "Enter") = V!Contains(w.range, v))

(* What adapter.rs promises, kept but to watches whose Enter and Exit are   *)
(* due together, and to those that are in their range when they start.      *)
Excused ==
  {k \in DOMAIN clockWatch :
     clockWatch[k].getter = "timeofday" /\ Cardinality(Dates(clockWatch[k])) < 2}

ClockPromise ==
  INSTANCE AdapterWatch WITH
    Watcher <- ClockKey, TellsFirst <- FALSE,
    told <- [k \in ClockKey |-> IF k \in DOMAIN clockTold THEN clockTold[k] ELSE ClockUntold],
    excused <- Excused

ClockKeepsPromise == ClockPromise!Promise
=============================================================================
