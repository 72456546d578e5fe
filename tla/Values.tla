-------------------------------- MODULE Values -------------------------------
(***************************************************************************)
(* The values of channels, the ranges that watches compare them with, and  *)
(* how both are written to and read from JSON                              *)
(* (components/taxonomy/src/values.rs, services.rs, parse.rs).             *)
(*                                                                         *)
(* A value has a type and data: a constant of an enumeration, a number, or *)
(* the fields of a structure.  Names, texts, dates and bytes are numbers   *)
(* in their order, times are in milliseconds, the components of a colour   *)
(* in thousandths.  A JSON document keeps its shape: <<"null">>, or a pair *)
(* of "string", "number", "date", "array" or "object" and its contents (a  *)
(* date is a string).  A parser gives the set of its results, {} when it   *)
(* fails; errors are not told apart.                                       *)
(***************************************************************************)
EXTENDS Integers, Sequences

Data(type, data) == [type |-> type, data |-> data]

Numeric == {"Duration", "TimeStamp", "String"}
Extension == {"ExtBool", "ExtNumeric"}

(* The constants of the enumerations, with `as_bool`.                       *)
OnOff == [Off |-> 0, On |-> 1]
OpenClosed == [Closed |-> 0, Open |-> 1]
DoorLocked == [Unlocked |-> 0, Locked |-> 1]
Constants == [OnOff |-> OnOff, OpenClosed |-> OpenClosed, DoorLocked |-> DoorLocked]

(* The fields of the structures.                                            *)
ExtValue == {"value", "vendor", "adapter", "kind"}
Fields ==
  [Color           |-> {"h", "s", "v"},
   WebPushNotify   |-> {"resource", "message"},
   ThinkerbellRule |-> {"name", "source"},
   ExtBool         |-> ExtValue,
   ExtNumeric      |-> ExtValue,
   Binary          |-> {"data", "mimetype"}]

Type == {"Unit", "Temperature", "Json", "Range"} \cup Numeric
          \cup DOMAIN Constants \cup DOMAIN Fields

-----------------------------------------------------------------------------
(* Comparisons.                                                            *)

(* The adapter of an extension does not count.                              *)
ValueEq(a, b) ==
  /\ a.type = b.type
  /\ IF a.type \in Extension
     THEN \A f \in ExtValue \ {"adapter"} : a.data[f] = b.data[f]
     ELSE a.data = b.data

(* What orders the values of a type: a sequence of numbers.                 *)
SortKey(v) ==
  CASE v.type \in DOMAIN Constants -> <<Constants[v.type][v.data]>>
    [] v.type \in Numeric -> <<v.data>>
    [] v.type = "Color" -> <<v.data.h, v.data.s, v.data.v>>
    [] v.type = "ThinkerbellRule" -> <<v.data.name>>
    [] v.type = "WebPushNotify" -> <<v.data.resource>>
    [] v.type \in Extension -> <<v.data.value>>
    [] v.type = "Binary" -> <<v.data.data>>
    [] v.type = "Unit" -> <<>>

Comparable(a, b) ==
  /\ a.type = b.type
  /\ a.type \notin {"Json", "Range"}
  /\ a.type \in Extension => a.data.vendor = b.data.vendor /\ a.data.kind = b.data.kind
  /\ a.type = "Binary" => a.data.mimetype = b.data.mimetype

Precedes(s, t) ==
  \E i \in DOMAIN s : s[i] < t[i] /\ \A j \in 1 .. i - 1 : s[j] = t[j]

(* Temperatures are converted to be compared, and the conversion panics.    *)
CompareTemperatures == "panics"

PartialCmp(a, b) ==
  CASE ~Comparable(a, b) -> "none"
    [] Comparable(a, b) /\ a.type = "Temperature" -> CompareTemperatures
    [] OTHER -> CASE Precedes(SortKey(a), SortKey(b)) -> "less"
                  [] Precedes(SortKey(b), SortKey(a)) -> "greater"
                  [] OTHER -> "equal"

Lt(a, b) == PartialCmp(a, b) = "less"
Le(a, b) == PartialCmp(a, b) \in {"less", "equal"}

-----------------------------------------------------------------------------
(* Ranges.  Those of one value have it as both bounds.                     *)

Form == {"Leq", "Geq", "Eq", "BetweenEq", "OutOfStrict"}
TwoBounds == {"BetweenEq", "OutOfStrict"}
RangeOf(form, min, max) == [form |-> form, min |-> min, max |-> max]

Contains(range, v) ==
  CASE range.form = "Leq" -> Le(v, range.max)
    [] range.form = "Geq" -> Le(range.min, v)
    [] range.form = "BetweenEq" -> Le(range.min, v) /\ Le(v, range.max)
    [] range.form = "OutOfStrict" -> Lt(v, range.min) \/ Lt(range.max, v)
    [] range.form = "Eq" -> ValueEq(v, range.min)

(* {} when the bounds disagree, which is an error.                          *)
RangeType(range) ==
  IF range.form \in TwoBounds /\ range.min.type # range.max.type
  THEN {} ELSE {range.min.type}

-----------------------------------------------------------------------------
(* JSON.                                                                   *)

Null == <<"null">>
Is(json, shape) == json[1] = shape
Object(field, json) == <<"object", [f \in {field} |-> json]>>

(* `Parser::take` of a field; {} when the document has none.                *)
Take(json, f) == IF Is(json, "object") /\ f \in DOMAIN json[2] THEN {json[2][f]} ELSE {}

(* The number of seconds as f64 is multiplied by 1000 and truncated: unless *)
(* it is whole, a millisecond may be lost.                                  *)
ParseDuration(json) ==
  IF ~Is(json, "number") THEN {}
  ELSE IF json[2] % 1000 = 0 THEN {json[2]} ELSE {json[2], json[2] - 1}

ParseTimeStamp(json) == IF Is(json, "date") THEN {json[2]} ELSE {}

ParseConstant(type, json) ==
  IF Is(json, "string") /\ json[2] \in DOMAIN Constants[type] THEN {json[2]} ELSE {}

(* A unit, F before C, and a number.                                        *)
ParseTemperature(json) ==
  LET unit == IF Take(json, "F") # {} THEN "F" ELSE "C"
  IN {<<unit, n[2]>> : n \in {x \in Take(json, unit) : Is(x, "number")}}

(* Each field is taken in turn; fields nobody asks for are ignored.  The    *)
(* saturation and the value of a colour are between 0 and 1.                *)
ParseFields(type, json) ==
  IF \A f \in Fields[type] : Take(json, f) # {}
  THEN {d \in {[f \in Fields[type] |-> json[2][f][2]]} :
          type = "Color" => d.s \in 0 .. 1000 /\ d.v \in 0 .. 1000}
  ELSE {}

ParseString(json) == IF Is(json, "string") THEN {json[2]} ELSE {}

(* VALUE_PARSER: the parser of the data of each type but Range.             *)
ParseData(type, json) ==
  CASE type = "Unit" -> {0}
    [] type = "Duration" -> ParseDuration(json)
    [] type = "TimeStamp" -> ParseTimeStamp(json)
    [] type = "String" -> ParseString(json)
    [] type = "Json" -> {json}
    [] type = "Temperature" -> ParseTemperature(json)
    [] type \in DOMAIN Constants -> ParseConstant(type, json)
    [] type \in DOMAIN Fields -> ParseFields(type, json)

(* Nothing, "Unit", or an object of one field, named as the type.           *)
ParseValue(json) ==
  CASE Is(json, "null") -> {Data("Unit", 0)}
    [] Is(json, "string") -> IF json[2] = "Unit" THEN {Data("Unit", 0)} ELSE {}
    [] Is(json, "object") ->
         UNION {{Data(t, d) : d \in ParseData(t, json[2][t])} :
            t \in {x \in DOMAIN json[2] \cap (Type \ {"Range"}) : DOMAIN json[2] = {x}}}
    [] OTHER -> {}

DataToJson(v) ==
  CASE v.type = "Unit" -> Null
    [] v.type = "Json" -> v.data
    [] v.type = "Duration" -> <<"number", v.data>>
    [] v.type = "TimeStamp" -> <<"date", v.data>>
    [] v.type \in {"String"} \cup DOMAIN Constants -> <<"string", v.data>>
    [] v.type = "Temperature" -> Object(v.data[1], <<"number", v.data[2]>>)
    [] v.type \in DOMAIN Fields ->
         <<"object", [f \in Fields[v.type] |-> <<"number", v.data[f]>>]>>

ValueToJson(v) == Object(v.type, DataToJson(v))

RangeToJson(range) ==
  LET bounds == CASE range.form = "Leq" -> ValueToJson(range.max)
                  [] range.form \in {"Geq", "Eq"} -> ValueToJson(range.min)
                  [] OTHER -> <<"array", <<ValueToJson(range.min), ValueToJson(range.max)>>>>
  IN Object(range.form, bounds)

(* Mutant: the bounds are popped in the order they were pushed.             *)
ParseRangeSwapped(json) ==
  UNION {LET bounds == json[2][form]
         IN IF form \in TwoBounds
            THEN IF Is(bounds, "array") /\ Len(bounds[2]) = 2
                 THEN {RangeOf(form, min, max) :
                         min \in ParseValue(bounds[2][2]), max \in ParseValue(bounds[2][1])}
                 ELSE {}
            ELSE {RangeOf(form, v, v) : v \in ParseValue(bounds)} :
         form \in {x \in Form : Is(json, "object") /\ DOMAIN json[2] = {x}}}

(* One field, the form of the range, with one value or an array of two.     *)
ParseRange(json) ==
  UNION {LET bounds == json[2][form]
         IN IF form \in TwoBounds
            THEN IF Is(bounds, "array") /\ Len(bounds[2]) = 2
                 THEN {RangeOf(form, min, max) :
                         min \in ParseValue(bounds[2][1]), max \in ParseValue(bounds[2][2])}
                 ELSE {}
            ELSE {RangeOf(form, v, v) : v \in ParseValue(bounds)} :
         form \in {x \in Form : Is(json, "object") /\ DOMAIN json[2] = {x}}}

-----------------------------------------------------------------------------
(* What clients send beside a selection of channels.                       *)

(* A value to send: the field of an object, or the second of two elements.  *)
ParsePayload(json) ==
  LET payload == CASE Is(json, "object") -> Take(json, "value")
                   [] Is(json, "array") -> {json[2][i] : i \in {2} \cap {Len(json[2])}}
                   [] OTHER -> {}
  IN UNION {ParseValue(x) : x \in payload}

(* A range is a value, too; ranges of ranges, which compare nothing, are     *)
(* left out.                                                                *)
ParseRangeValue(json) ==
  IF Is(json, "object") /\ DOMAIN json[2] = {"Range"}
  THEN {Data("Range", r) : r \in ParseRange(json[2]["Range"])} ELSE {}

(* What a watch waits for: everything if there is no range, or null, no     *)
(* value at all if it is "Never", else a value or a range.                  *)
ParseFilter(json) ==
  LET given == Take(json, "range")
  IN CASE given \in {{}, {Null}} -> {[is |-> "Always"]}
       [] given = {<<"string", "Never">>} -> {[is |-> "Never"]}
       [] OTHER -> {[is |-> "Exactly", value |-> v] :
                      v \in UNION {ParseValue(x) \cup ParseRangeValue(x) : x \in given}}

-----------------------------------------------------------------------------
(* The kinds of channels: a standard kind has a name that gives the type of *)
(* its values, a kind of extension carries its type.                        *)
KindType ==
  [Ready |-> "Unit", LightOn |-> "OnOff", OpenClosed |-> "OpenClosed",
   DoorLocked |-> "DoorLocked", CurrentTime |-> "TimeStamp",
   CurrentTimeOfDay |-> "Duration", RemainingTime |-> "Duration",
   Countdown |-> "Duration", CountEveryInterval |-> "Duration",
   OvenTemperature |-> "Temperature", AddThinkerbellRule |-> "ThinkerbellRule",
   RemoveThinkerbellRule |-> "Unit", ThinkerbellRuleSource |-> "String",
   ThinkerbellRuleOn |-> "OnOff", Log |-> "String", TakeSnapshot |-> "Unit",
   Username |-> "String", Password |-> "String", WebPushNotify |-> "WebPushNotify"]

StandardKind(name) == [is |-> name]
ExtensionKind(vendor, adapter, kind, type) ==
  [is |-> "Extension", vendor |-> vendor, adapter |-> adapter, kind |-> kind, type |-> type]

TypeOfKind(kind) == IF kind.is = "Extension" THEN kind.type ELSE KindType[kind.is]

ParseType(json) == IF Is(json, "string") /\ json[2] \in Type THEN {json[2]} ELSE {}

(* A name, or an object with the four fields of an extension.               *)
ParseKind(json) ==
  CASE Is(json, "string") -> {StandardKind(name) : name \in {json[2]} \cap DOMAIN KindType}
    [] Is(json, "object") ->
         {ExtensionKind(v, a, k, t) :
            v \in UNION {ParseString(x) : x \in Take(json, "vendor")},
            a \in UNION {ParseString(x) : x \in Take(json, "adapter")},
            k \in UNION {ParseString(x) : x \in Take(json, "kind")},
            t \in UNION {ParseType(x) : x \in Take(json, "type")}}
    [] OTHER -> {}

KindToJson(kind) ==
  IF kind.is # "Extension" THEN <<"string", kind.is>>
  ELSE <<"object", [f \in DOMAIN kind \ {"is"} |-> <<"string", kind[f]>>]>>
=============================================================================
