------------------------------ MODULE MCTaxonomy -----------------------------
(***************************************************************************)
(* What adapters, clients and the manager agree on by means of the         *)
(* taxonomy: watches and the ranges they were asked for, selectors, and    *)
(* the values that are fetched and sent.  The modules share no state: each *)
(* behaviour runs one of them, `part`; the others stay where they start.   *)
(***************************************************************************)
EXTENDS OpenZWave, Clock, Selectors, Exchange, RangeTrips, TLC

VARIABLE part

taxonomyVars == <<part, vars, clockVars, selectorVars, exchangeVars, tripVars>>

(* Watchers of the open position of a sensor, or of every position.         *)
OpenOrAny == {{{TRUE}}, None}

RangesOver(type, points) ==
  {RangeOf(f, Data(type, n), Data(type, n)) : f \in Form \ TwoBounds, n \in points}
    \cup {RangeOf(f, Data(type, m), Data(type, n)) : f \in TwoBounds, m, n \in points}

RangesOfClock ==
  [timeofday |-> RangesOver("Duration", 0 .. Day),
   timestamp |-> RangesOver("TimeStamp", {1, 3, 4}),
   interval  |-> RangesOver("Duration", {1, 2})]

ChannelOf(adapter, kind, setter) ==
  [adapter |-> adapter, kind |-> StandardKind(kind), setter |-> setter]
GetterOf(adapter, kind) == ChannelOf(adapter, kind, FALSE)
SetterOf(adapter, kind) == ChannelOf(adapter, kind, TRUE)

(* One adapter with getters of one type and of another, a second with one   *)
(* getter; a setter of each.                                                *)
ChannelsOfExchange ==
  [light |-> GetterOf("hue", "LightOn"), rule |-> GetterOf("hue", "ThinkerbellRuleOn"),
   log |-> GetterOf("hue", "Log"), lamp |-> GetterOf("zwave", "LightOn"),
   setLight |-> SetterOf("hue", "LightOn"), setLog |-> SetterOf("zwave", "Log")]

TwoOnOffs == [type : {"OnOff"}, nth : {1, 2}] \cup [type : {"String"}, nth : {1}]

(* Two values that tie differ in what is not compared.                      *)
Color(h, s, v) == Data("Color", [h |-> h, s |-> s, v |-> v])
Rule(name, source) == Data("ThinkerbellRule", [name |-> name, source |-> source])
Push(resource, message) == Data("WebPushNotify", [resource |-> resource, message |-> message])
Ext(vendor, kind, x) ==
  Data("ExtNumeric", [value |-> x, vendor |-> vendor, adapter |-> 1, kind |-> kind])
Bytes(mimetype, x) == Data("Binary", [data |-> x, mimetype |-> mimetype])

SampleChains ==
  <<<< <<Data("Unit", 0)>> >>,
    << <<Data("OnOff", "Off")>>, <<Data("OnOff", "On")>> >>,
    << <<Data("DoorLocked", "Unlocked")>>, <<Data("DoorLocked", "Locked")>> >>,
    << <<Data("Duration", 0)>>, <<Data("Duration", 1000)>>, <<Data("Duration", 1002)>>,
       <<Data("Duration", 2000)>> >>,
    << <<Data("TimeStamp", 1)>>, <<Data("TimeStamp", 2)>> >>,
    << <<Data("String", 1)>>, <<Data("String", 2)>> >>,
    << <<Color(0, 1000, 0)>>, <<Color(90, 0, 500)>>, <<Color(90, 10, 0)>> >>,
    << <<Rule(1, 1), Rule(1, 2)>>, <<Rule(2, 1)>> >>,
    << <<Push(1, 1), Push(1, 2)>>, <<Push(2, 1)>> >>,
    << <<Ext(1, 1, 0)>>, <<Ext(1, 1, 5)>> >>,
    << <<Ext(1, 2, 5)>> >>,
    << <<Bytes(1, 0)>>, <<Bytes(1, 5)>> >>,
    << <<Bytes(2, 5)>> >> >>

SampleExtensions ==
  {ExtensionKind("a", "x", "Ready", "ExtNumeric"), ExtensionKind("b", "x", "LightOn", "Binary")}

TaxonomyInit ==
  /\ part \in {"openzwave", "clock", "selectors", "exchange", "trips"}
  /\ Init
  /\ part # "clock" => now = 0
  /\ part # "selectors" => level = "getter"
  /\ part # "exchange" => present = {}
  /\ part # "trips" => /\ askedForm = "Eq" /\ askedMin = <<1, 1, 1>> /\ home = askedMin
                       /\ askedKind = StandardKind("Ready")
  /\ ClockInit /\ SelectorsInit /\ ExchangeInit /\ TripsInit

InOpenZWave ==
  /\ part = "openzwave"
  /\ UNCHANGED <<part, clockVars, selectorVars, exchangeVars, tripVars>>
InClock ==
  part = "clock" /\ UNCHANGED <<part, vars, selectorVars, exchangeVars, tripVars>>
InSelectors ==
  part = "selectors" /\ UNCHANGED <<part, vars, clockVars, exchangeVars, tripVars>>
InExchange ==
  part = "exchange" /\ UNCHANGED <<part, vars, clockVars, selectorVars, tripVars>>
InTrips ==
  part = "trips" /\ UNCHANGED <<part, vars, clockVars, selectorVars, exchangeVars>>

TaxonomyNext ==
  \/ InOpenZWave /\ Next
  \/ InClock /\ ClockNext
  \/ InSelectors /\ SelectorsNext
  \/ InExchange /\ ExchangeNext
  \/ InTrips /\ TripsNext

TaxonomySpec == TaxonomyInit /\ [][TaxonomyNext]_taxonomyVars

TaxonomyTypeOK ==
  TypeOK /\ ClockTypeOK /\ SelectorsTypeOK /\ ExchangeTypeOK /\ TripsTypeOK
=============================================================================
