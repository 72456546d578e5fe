------------------------------ MODULE Selectors ------------------------------
(***************************************************************************)
(* Selectors of channels and services                                      *)
(* (components/taxonomy/src/selector.rs): read from JSON or built call by  *)
(* call, joined with `and`, and then asked which channels they match.      *)
(*                                                                         *)
(* A behaviour builds one selector, of getters, setters or services; a     *)
(* second one may be put aside to be joined with.  What was asked is kept  *)
(* beside the selector, as a set of conditions: what the fields of a       *)
(* selector are documented to mean.                                        *)
(***************************************************************************)
EXTENDS Naturals, Sequences

CONSTANTS
  ChannelId, ServiceName, ChannelTag, Kind,  \* what channels are told apart by
  MaxCalls                                   \* bound on the conditions of a selector

ASSUME SelectorsAssumption == MaxCalls \in Nat

-----------------------------------------------------------------------------
(* `Exactly`: anything, one value, or nothing.                             *)

Always == [is |-> "Always"]
Never == [is |-> "Never"]
Exactly(x) == [is |-> "Exactly", value |-> x]

ExactlyAnd(a, b) ==
  CASE Never \in {a, b} -> Never
    [] a = Always -> b
    [] b = Always -> a
    [] OTHER -> IF a = b THEN b ELSE Never

ExactlyMatches(a, x) == a = Always \/ a = Exactly(x)

-----------------------------------------------------------------------------
(* Selectors of channels.                                                  *)

ExactFields == {"id", "parent", "kind"}
TagFields == {"tags", "service_tags"}
ChannelFields == ExactFields \cup TagFields

AnyChannel == [id |-> Always, parent |-> Always, kind |-> Always, tags |-> {}, service_tags |-> {}]

HasSelectedTags(selected, tags) == selected \subseteq tags

(* with_id, with_parent, with_kind, with_tags and with_service_tags.        *)
GetterWith(s, field, x) ==
  [s EXCEPT ![field] = IF field \in TagFields THEN @ \cup {x} ELSE ExactlyAnd(@, Exactly(x))]

SetterWith(s, field, x) ==
  [s EXCEPT ![field] = IF field \in TagFields THEN @ \cup {x} ELSE ExactlyAnd(@, Exactly(x))]

(* Mutant: the later kind replaces the earlier one.                         *)
GetterAndLater(a, b) ==
  [id |-> ExactlyAnd(a.id, b.id), parent |-> ExactlyAnd(a.parent, b.parent),
   kind |-> IF b.kind = Always THEN a.kind ELSE b.kind,
   tags |-> a.tags \cup b.tags, service_tags |-> a.service_tags \cup b.service_tags]

GetterAnd(a, b) ==
  [id |-> ExactlyAnd(a.id, b.id), parent |-> ExactlyAnd(a.parent, b.parent),
   kind |-> ExactlyAnd(a.kind, b.kind),
   tags |-> a.tags \cup b.tags, service_tags |-> a.service_tags \cup b.service_tags]

SetterAnd(a, b) ==
  [id |-> ExactlyAnd(a.id, b.id), parent |-> ExactlyAnd(a.parent, b.parent),
   kind |-> ExactlyAnd(a.kind, b.kind),
   tags |-> a.tags \cup b.tags, service_tags |-> a.service_tags \cup b.service_tags]

GetterMatches(s, serviceTags, channel) ==
  /\ ExactlyMatches(s.id, channel.id)
  /\ ExactlyMatches(s.parent, channel.service)
  /\ ExactlyMatches(s.kind, channel.kind)
  /\ HasSelectedTags(s.tags, channel.tags)
  /\ HasSelectedTags(s.service_tags, serviceTags)

SetterMatches(s, serviceTags, channel) ==
  /\ ExactlyMatches(s.id, channel.id)
  /\ ExactlyMatches(s.parent, channel.service)
  /\ ExactlyMatches(s.kind, channel.kind)
  /\ HasSelectedTags(s.tags, channel.tags)
  /\ HasSelectedTags(s.service_tags, serviceTags)

(* A document maps some of the fields to values; {} is an error.  The other *)
(* fields accept everything.                                                *)
ParseGetterSelector(doc) ==
  {[f \in ChannelFields |->
      IF f \in TagFields THEN (IF f \in DOMAIN doc THEN {doc[f]} ELSE {})
      ELSE IF f \in DOMAIN doc THEN Exactly(doc[f]) ELSE Always] : d \in {doc} \ {<<>>}}

ParseSetterSelector(doc) ==
  {[f \in ChannelFields |->
      IF f \in TagFields THEN (IF f \in DOMAIN doc THEN {doc[f]} ELSE {})
      ELSE IF f \in DOMAIN doc THEN Exactly(doc[f]) ELSE Always] : d \in {doc} \ {<<>>}}

-----------------------------------------------------------------------------
(* Selectors of services, with the list of the selectors of getters, and of *)
(* setters, that a service must have a channel for.                         *)

AnyService == [id |-> Always, tags |-> {}, getters |-> <<>>, setters |-> <<>>]

ServiceWith(s, field, x) ==
  [s EXCEPT ![field] =
     CASE field = "id" -> ExactlyAnd(@, Exactly(x))
       [] field = "tags" -> @ \cup {x}
       [] field \in {"getters", "setters"} -> Append(@, x)]

ServiceAnd(a, b) ==
  [id |-> ExactlyAnd(a.id, b.id), tags |-> a.tags \cup b.tags,
   getters |-> a.getters \o b.getters, setters |-> a.setters \o b.setters]

(* `ServiceLike::has_getters` and `has_setters`: the service has a channel  *)
(* that each of them accepts.  The selectors of channels are given the tags *)
(* of this selector as those of the service.                                *)
ServiceMatches(s, service) ==
  /\ ExactlyMatches(s.id, service.id)
  /\ HasSelectedTags(s.tags, service.tags)
  /\ \A i \in DOMAIN s.getters :
       \E c \in service.getters : GetterMatches(s.getters[i], s.tags, c)
  /\ \A i \in DOMAIN s.setters :
       \E c \in service.setters : SetterMatches(s.setters[i], s.tags, c)

ParseServiceSelector(doc) ==
  {[id |-> IF "id" \in DOMAIN doc THEN Exactly(doc.id) ELSE Always,
    tags |-> IF "tags" \in DOMAIN doc THEN {doc.tags} ELSE {},
    getters |-> IF "getters" \in DOMAIN doc THEN <<doc.getters>> ELSE <<>>,
    setters |-> IF "setters" \in DOMAIN doc THEN <<doc.setters>> ELSE <<>>] : d \in {doc} \ {<<>>}}

-----------------------------------------------------------------------------
(* Building a selector.                                                    *)

VARIABLES
  level,    \* what is selected: "getter", "setter" or "service"
  built,    \* the selector
  asked,    \* the conditions it was built with, as <<field, value>>
  aside,    \* the selector it may be joined with
  askedAside,
  calls     \* the number of conditions given so far

selectorVars == <<level, built, asked, aside, askedAside, calls>>

(* The values of a field; channels are selected by a tag of theirs or of    *)
(* their service.                                                           *)
ByTag == {GetterWith(AnyChannel, f, t) : f \in TagFields, t \in ChannelTag}
ValuesOf(field) ==
  CASE field = "id" -> IF level = "service" THEN ServiceName ELSE ChannelId
    [] field = "parent" -> ServiceName
    [] field = "kind" -> Kind
    [] field \in TagFields -> ChannelTag
    [] field \in {"getters", "setters"} -> ByTag

FieldsOf == IF level = "service" THEN DOMAIN AnyService ELSE ChannelFields
Anything == IF level = "service" THEN AnyService ELSE AnyChannel

With(s, field, x) ==
  CASE level = "getter" -> GetterWith(s, field, x)
    [] level = "setter" -> SetterWith(s, field, x)
    [] level = "service" -> ServiceWith(s, field, x)

Join(a, b) ==
  CASE level = "getter" -> GetterAnd(a, b)
    [] level = "setter" -> SetterAnd(a, b)
    [] level = "service" -> ServiceAnd(a, b)

ParseSelector(doc) ==
  CASE level = "getter" -> ParseGetterSelector(doc)
    [] level = "setter" -> ParseSetterSelector(doc)
    [] level = "service" -> ParseServiceSelector(doc)

SelectorsInit ==
  /\ level \in {"getter", "setter", "service"}
  /\ built = Anything /\ asked = {}
  /\ aside = Anything /\ askedAside = {}
  /\ calls = 0

(* A selector read from a document of two fields.                           *)
ReadSelector ==
  /\ asked = {}
  /\ calls + 2 <= MaxCalls
  /\ calls' = calls + 2
  /\ \E f, g \in FieldsOf : \E x \in ValuesOf(f), y \in ValuesOf(g) :
       LET doc == [h \in {f, g} |-> IF h = f THEN x ELSE y]
       IN /\ built' \in ParseSelector(doc)
          /\ asked' = {<<h, doc[h]>> : h \in DOMAIN doc}
  /\ UNCHANGED <<level, aside, askedAside>>

AskMore(f) ==
  \E x \in ValuesOf(f) :
    /\ calls < MaxCalls
    /\ calls' = calls + 1
    /\ built' = With(built, f, x)
    /\ asked' = asked \cup {<<f, x>>}
    /\ UNCHANGED <<level, aside, askedAside>>

PutAside ==
  /\ askedAside = {} /\ asked # {}
  /\ aside' = built /\ askedAside' = asked
  /\ built' = Anything /\ asked' = {}
  /\ UNCHANGED <<level, calls>>

JoinThem ==
  /\ askedAside # {}
  /\ built' = Join(aside, built) /\ asked' = askedAside \cup asked
  /\ aside' = Anything /\ askedAside' = {}
  /\ UNCHANGED <<level, calls>>

SelectorsNext ==
  \/ ReadSelector
  \/ \E f \in FieldsOf : AskMore(f)
  \/ PutAside
  \/ JoinThem

SelectorsSpec == SelectorsInit /\ [][SelectorsNext]_selectorVars

-----------------------------------------------------------------------------
(* Properties.                                                             *)

SelectorsTypeOK ==
  /\ level \in {"getter", "setter", "service"}
  /\ DOMAIN built = DOMAIN Anything /\ DOMAIN aside = DOMAIN Anything
  /\ \A a \in asked \cup askedAside : a[1] \in FieldsOf /\ a[2] \in ValuesOf(a[1])
  /\ calls \in 0 .. MaxCalls

SomeChannel ==
  [id : ChannelId, service : ServiceName, kind : Kind, tags : SUBSET ChannelTag]

(* Services with no channel, one, or one for each tag.                      *)
SomeChannels ==
  LET c == CHOOSE x \in SomeChannel : TRUE
      Tagged(tags) == [c EXCEPT !.tags = tags]
  IN {{}, {Tagged({t}) : t \in ChannelTag}} \cup {{Tagged(tags)} : tags \in SUBSET ChannelTag}
SomeService ==
  [id : ServiceName, tags : SUBSET ChannelTag, getters : SomeChannels, setters : SomeChannels]

(* What a condition is documented to mean, selector.rs:81-87, 294-300.      *)
ChannelMeets(field, x, serviceTags, channel) ==
  CASE field = "id" -> channel.id = x
    [] field = "parent" -> channel.service = x
    [] field = "kind" -> channel.kind = x
    [] field = "tags" -> x \in channel.tags
    [] field = "service_tags" -> x \in serviceTags

ServiceMeets(field, x, service) ==
  CASE field = "id" -> service.id = x
    [] field = "tags" -> x \in service.tags
    [] field = "getters" -> \E c \in service.getters : GetterMatches(x, service.tags, c)
    [] field = "setters" -> \E c \in service.setters : SetterMatches(x, service.tags, c)

SelectsByServiceTags(a) == a[1] \in {"getters", "setters"} /\ a[2].service_tags # {}

(* However a selector was read, built and joined, it matches exactly what   *)
(* meets each condition that was asked, alone: `and` is a conjunction.  For *)
(* services, only if no selector of a channel looks at the tags of the      *)
(* service.                                                                 *)
AndIsConjunction ==
  calls > 0 =>
  CASE level = "getter" ->
         \A c \in SomeChannel, tags \in SUBSET ChannelTag :
           GetterMatches(built, tags, c) <=> \A a \in asked : ChannelMeets(a[1], a[2], tags, c)
    [] level = "setter" ->
         \A c \in SomeChannel, tags \in SUBSET ChannelTag :
           SetterMatches(built, tags, c) <=> \A a \in asked : ChannelMeets(a[1], a[2], tags, c)
    [] level = "service" ->
         (\A a \in asked : ~SelectsByServiceTags(a)) =>
           \A s \in SomeService :
             ServiceMatches(built, s) <=> \A a \in asked : ServiceMeets(a[1], a[2], s)

-----------------------------------------------------------------------------
(* What the code says, and does not do: see the README.                     *)

(* selector.rs:298 "(optional) array of string `service_tags`: accept only  *)
(* channels of a service with all the tags in the array".                   *)
ServiceTagsOfTheService ==
  level = "service" =>
    \A s \in SomeService :
      ServiceMatches(built, s) <=> \A a \in asked : ServiceMeets(a[1], a[2], s)
=============================================================================
