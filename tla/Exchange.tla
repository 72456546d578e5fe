------------------------------- MODULE Exchange ------------------------------
(***************************************************************************)
(* fetch_values and send_values of the adapter manager                     *)
(* (components/taxonomy/src/manager.rs, backend.rs).                       *)
(*                                                                         *)
(* Both calls prepare a request for each adapter under the read lock, and  *)
(* then call the adapters one by one without it.  Channels come and go     *)
(* meanwhile.  One call is modelled: calls share nothing but the registry. *)
(*                                                                         *)
(* An adapter is external.  It answers for every channel it is asked for,  *)
(* with a value, which may be of the wrong type, with nothing, or with an  *)
(* error.  A value is its type and a number.                               *)
(***************************************************************************)
EXTENDS HashMap, Naturals, Sequences, FiniteSets

CONSTANTS
  ChannelAt,   \* channel -> its adapter, its kind, and whether it is a setter
  Payload,     \* the values that are sent, and fetched
  MaxTargets   \* bound on the selectors of one call of send_values

X == INSTANCE Values

Channel == DOMAIN ChannelAt
GetterId == {c \in Channel : ~ChannelAt[c].setter}
SetterId == Channel \ GetterId
TypeOf(c) == X!TypeOfKind(ChannelAt[c].kind)

ASSUME ExchangeAssumption ==
  /\ MaxTargets \in Nat
  /\ \A v \in Payload : v.type \in X!Type /\ DOMAIN v = {"type", "nth"}

VARIABLES
  present,   \* the channels that are registered
  exchange,  \* what runs: "idle", "fetch" or "send"
  request,   \* adapter -> the getters, or the values to send, that it is yet to be asked
  failures,  \* the setters that a value of another type was sent to
  results,   \* channel -> what the caller gets
  (* History, read by no action:                                           *)
  targets,   \* the targets of send_values
  prepared,  \* the channels it selected
  answers,   \* channel -> what the adapter answered
  delivered  \* setter -> the value its adapter was given

exchangeVars ==
  <<present, exchange, request, failures, results, targets, prepared, answers, delivered>>

Answer(is, v) == [is |-> is, value |-> v]
NoValue == <<>>
OkWith(v) == Answer("value", v)
OkEmpty == Answer("nothing", NoValue)
AdapterError == Answer("error", NoValue)
WrongType == Answer("type error", NoValue)

ExchangeInit ==
  /\ present \in SUBSET Channel
  /\ exchange = "idle"
  /\ request = EmptyMap /\ failures = {} /\ results = EmptyMap
  /\ targets = <<>> /\ prepared = {} /\ answers = EmptyMap /\ delivered = EmptyMap

(* Once the last adapter has answered it does not matter any more.          *)
ChannelComesOrGoes(c) ==
  /\ exchange # "idle" /\ request # EmptyMap
  /\ present' = IF c \in present THEN present \ {c} ELSE present \cup {c}
  /\ UNCHANGED <<exchange, request, failures, results, targets, prepared, answers, delivered>>

Finished == exchange # "idle" /\ request = EmptyMap

(* The channels of S, by adapter.                                           *)
ByAdapter(S) ==
  [a \in {ChannelAt[c].adapter : c \in S} |-> {c \in S : ChannelAt[c].adapter = a}]

-----------------------------------------------------------------------------
(* `fetch_values`.                                                         *)

PrepareFetch(selected) ==
  /\ exchange' = "fetch"
  /\ prepared' = selected \cap present
  /\ request' = ByAdapter(prepared')
  /\ UNCHANGED <<present, failures, results, targets, answers, delivered>>

(* Mutant: the results of an adapter replace those of the ones before.      *)
FetchFromReplacing(a, answer, position) ==
  LET ids == request[a]
  IN /\ results' = [c \in ids |->
          IF answer[c].is = "value" /\ answer[c].value.type # TypeOf(position[c])
          THEN WrongType ELSE answer[c]]
     /\ answers' = [c \in DOMAIN answers \cup ids |-> IF c \in ids THEN answer[c] ELSE answers[c]]
     /\ request' = Drop(request, {a})
     /\ UNCHANGED <<present, exchange, failures, targets, prepared, delivered>>

(* The results of an adapter, in the order of their map, are paired with    *)
(* the types of the getters, in the order of another map: the type a result *)
(* is checked against is that of the getter at the same position.           *)
FetchFrom(a, answer, position) ==
  LET ids == request[a]
  IN /\ results' = [c \in DOMAIN results \cup ids |->
          IF c \notin ids THEN results[c]
          ELSE IF answer[c].is = "value" /\ answer[c].value.type # TypeOf(position[c])
               THEN WrongType ELSE answer[c]]
     /\ answers' = [c \in DOMAIN answers \cup ids |-> IF c \in ids THEN answer[c] ELSE answers[c]]
     /\ request' = Drop(request, {a})
     /\ UNCHANGED <<present, exchange, failures, targets, prepared, delivered>>

Orders(ids) == {p \in [ids -> ids] : Cardinality(Range(p)) = Cardinality(ids)}

FetchNext ==
  \E a \in DOMAIN request :
    /\ exchange = "fetch"
    /\ \E position \in Orders(request[a]),
          answer \in [request[a] -> {OkEmpty, AdapterError} \cup {OkWith(v) : v \in Payload}] :
         /\ \A c \in request[a] \ present : answer[c] = AdapterError
         /\ FetchFrom(a, answer, position)

-----------------------------------------------------------------------------
(* `send_values`, for a list of targets: setters and a value.              *)

(* The targets that select a setter, and those of them that have a value   *)
(* of its type.                                                             *)
Sent(ts, c) == {i \in DOMAIN ts : c \in ts[i].select}
Typed(ts, c) == {i \in Sent(ts, c) : ts[i].value.type = TypeOf(c)}

(* `insert` replaces the value that an earlier target gave to the setter.   *)
ValueFor(ts, c) == ts[CHOOSE i \in Typed(ts, c) : \A j \in Typed(ts, c) : j <= i].value

(* A value of the right type goes to the adapter, any other is a failure.   *)
PrepareSend(ts) ==
  /\ exchange' = "send"
  /\ targets' = ts
  /\ prepared' = {c \in SetterId \cap present : Sent(ts, c) # {}}
  /\ LET sound == {c \in prepared' : Typed(ts, c) # {}}
     IN request' = [a \in DOMAIN ByAdapter(prepared') |->
                      [c \in {x \in sound : ChannelAt[x].adapter = a} |-> ValueFor(ts, c)]]
  /\ failures' = {c \in prepared' : Typed(ts, c) # Sent(ts, c)}
  /\ UNCHANGED <<present, results, answers, delivered>>

(* Mutant: failures are reported by the adapters that had any value to set. *)
SendToUnlessEmpty(a, answer) ==
  LET ids == DOMAIN request[a]
      failed == IF ids = {} THEN {} ELSE {c \in failures : ChannelAt[c].adapter = a}
  IN /\ results' = [c \in DOMAIN results \cup ids \cup failed |->
                      IF c \in failed THEN WrongType
                      ELSE IF c \in ids THEN answer[c] ELSE results[c]]
     /\ answers' = [c \in DOMAIN answers \cup ids |-> IF c \in ids THEN answer[c] ELSE answers[c]]
     /\ delivered' = [c \in DOMAIN delivered \cup ids |->
                        IF c \in ids THEN request[a][c] ELSE delivered[c]]
     /\ request' = Drop(request, {a})
     /\ UNCHANGED <<present, exchange, failures, targets, prepared>>

(* The adapter is given its values, even when it has none; the failures     *)
(* found before replace its answers.                                        *)
SendTo(a, answer) ==
  LET ids == DOMAIN request[a]
      failed == {c \in failures : ChannelAt[c].adapter = a}
  IN /\ results' = [c \in DOMAIN results \cup ids \cup failed |->
                      IF c \in failed THEN WrongType
                      ELSE IF c \in ids THEN answer[c] ELSE results[c]]
     /\ answers' = [c \in DOMAIN answers \cup ids |-> IF c \in ids THEN answer[c] ELSE answers[c]]
     /\ delivered' = [c \in DOMAIN delivered \cup ids |->
                        IF c \in ids THEN request[a][c] ELSE delivered[c]]
     /\ request' = Drop(request, {a})
     /\ UNCHANGED <<present, exchange, failures, targets, prepared>>

SendNext ==
  \E a \in DOMAIN request :
    /\ exchange = "send"
    /\ \E answer \in [DOMAIN request[a] -> {OkEmpty, AdapterError}] :
         /\ \A c \in DOMAIN request[a] \ present : answer[c] = AdapterError
         /\ SendTo(a, answer)

-----------------------------------------------------------------------------
Target == [select : (SUBSET SetterId) \ {{}}, value : Payload]
Targets == UNION {[1 .. n -> Target] : n \in 1 .. MaxTargets}

Call ==
  /\ exchange = "idle"
  /\ \/ \E selected \in SUBSET GetterId : PrepareFetch(selected)
     \/ \E ts \in Targets : PrepareSend(ts)

ExchangeNext ==
  \/ \E c \in Channel : ChannelComesOrGoes(c)
  \/ Call
  \/ FetchNext
  \/ SendNext

ExchangeSpec == ExchangeInit /\ [][ExchangeNext]_exchangeVars

-----------------------------------------------------------------------------
(* Properties.                                                             *)

ExchangeTypeOK ==
  /\ present \subseteq Channel
  /\ exchange \in {"idle", "fetch", "send"}
  /\ DOMAIN results \subseteq prepared /\ DOMAIN answers \subseteq prepared
  /\ DOMAIN delivered \subseteq SetterId
  /\ failures \subseteq prepared
  /\ \A a \in DOMAIN request : \E c \in prepared : ChannelAt[c].adapter = a

Siblings(c) == {d \in prepared : ChannelAt[d].adapter = ChannelAt[c].adapter}
Checked(c) ==
  IF answers[c].is = "value" /\ answers[c].value.type # TypeOf(c) THEN WrongType ELSE answers[c]

(* Channels come and go, adapters fail and answer in any order.  In the end *)
(* each getter that was selected has a result: what its adapter answered,   *)
(* but for a value of another type, if all the getters that are asked of    *)
(* this adapter are of one type; if not, the answer or a type error.        *)
FetchedAsAnswered ==
  Finished /\ exchange = "fetch" =>
    /\ DOMAIN results = prepared
    /\ \A c \in prepared :
         \/ results[c] = Checked(c)
         \/ \E d \in Siblings(c) : TypeOf(d) # TypeOf(c) /\ results[c] \in {WrongType, answers[c]}

(* No adapter is ever given a value of the wrong type.  In the end each     *)
(* setter that was selected has a result; those that report no type error   *)
(* were given the last value of all that were sent to them, and report      *)
(* what their adapter answered.                                             *)
SentAsReported ==
  /\ \A c \in DOMAIN delivered : delivered[c].type = TypeOf(c)
  /\ Finished /\ exchange = "send" =>
       /\ DOMAIN results = prepared
       /\ \A c \in prepared :
            LET mine == {i \in DOMAIN targets : c \in targets[i].select}
            IN IF results[c] = WrongType
               THEN \E i \in mine : targets[i].value.type # TypeOf(c)
               ELSE /\ results[c] = answers[c]
                    /\ \E i \in mine : delivered[c] = targets[i].value /\ \A j \in mine : j <= i
=============================================================================
