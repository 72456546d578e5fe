------------------------------ MODULE RangeTrips -----------------------------
(***************************************************************************)
(* A range, a value and a kind of channel on their way between clients and *)
(* the box: each is written to JSON and read back any number of times      *)
(* (components/taxonomy/src/values.rs, services.rs, api.rs).               *)
(***************************************************************************)
EXTENDS Values

CONSTANTS
  Chains,     \* sequences of ascending levels, each a sequence of values that tie;
              \* values of different chains do not compare
  Extensions  \* kinds of channels that are not standard

(* Where a value is in Chains: its chain, its level, and which one it is.   *)
Place ==
  UNION {UNION {{<<c, l, n>> : n \in DOMAIN Chains[c][l]} : l \in DOMAIN Chains[c]} :
         c \in DOMAIN Chains}
At(p) == Chains[p[1]][p[2]][p[3]]

(* A value that holds neither a value nor a document nor a range, and that  *)
(* is not a temperature, which cannot be compared.                          *)
IsPlain(v) ==
  /\ v = Data(v.type, v.data)
  /\ v.type \in {"Unit"} \cup Numeric \cup DOMAIN Constants \cup DOMAIN Fields
  /\ v.type = "Unit" => v.data = 0
  /\ v.type \in Numeric => v.data \in Nat
  /\ v.type \in DOMAIN Constants => v.data \in DOMAIN Constants[v.type]
  /\ v.type \in DOMAIN Fields => v.data \in [Fields[v.type] -> Int]
  /\ v.type = "Color" => v.data.s \in 0 .. 1000 /\ v.data.v \in 0 .. 1000

ASSUME TripsAssumption ==
  /\ \A p \in Place : p[2] \in Nat /\ IsPlain(At(p))
  /\ \A p, q \in Place :
       /\ PartialCmp(At(p), At(q)) =
            IF p[1] # q[1] THEN "none"
            ELSE IF p[2] < q[2] THEN "less"
            ELSE IF p[2] = q[2] THEN "equal" ELSE "greater"
       /\ ValueEq(At(p), At(q)) <=> p = q
  /\ \A k \in Extensions :
       k = ExtensionKind(k.vendor, k.adapter, k.kind, k.type) /\ k.type \in Type

VARIABLES
  askedForm, askedMin, askedMax,  \* the range that was asked: its form, the places of its bounds
  range,                          \* and what has become of it
  home,                           \* the place of the value
  visitor,                        \* and what has become of it
  askedKind,                      \* a kind of channels, of the type of the value or not
  channelKind                     \* and what has become of it

askedVars == <<askedForm, askedMin, askedMax, home, askedKind>>
tripVars == <<askedVars, range, visitor, channelKind>>

TripsInit ==
  /\ askedForm \in Form
  /\ askedMin \in Place
  /\ IF askedForm \in TwoBounds
     THEN askedMax \in {p \in Place : p[1] - askedMin[1] \in {0, 1}}  \* of one chain, or not
     ELSE askedMax = askedMin
  /\ range = RangeOf(askedForm, At(askedMin), At(askedMax))
  /\ home \in Place
  /\ visitor = At(home)
  /\ askedKind \in {k \in {StandardKind(name) : name \in DOMAIN KindType} \cup Extensions :
                     k = StandardKind("Ready") \/ TypeOfKind(k) = At(home).type}
  /\ channelKind = askedKind

(* As the filter of a watch.                                                *)
RangeTravels ==
  /\ \E f \in ParseFilter(Object("range", Object("Range", RangeToJson(range)))) :
       f.is = "Exactly" /\ range' = f.value.data
  /\ UNCHANGED <<askedVars, visitor, channelKind>>

(* As the payload of a target, in either form.                              *)
Payloads(v) == {Object("value", ValueToJson(v)), <<"array", <<Null, ValueToJson(v)>>>>}
ValueTravels ==
  /\ \E json \in Payloads(visitor) : visitor' \in ParsePayload(json)
  /\ UNCHANGED <<askedVars, range, channelKind>>

KindTravels ==
  /\ channelKind' \in ParseKind(KindToJson(channelKind))
  /\ UNCHANGED <<askedVars, range, visitor>>

TripsNext == RangeTravels \/ ValueTravels \/ KindTravels

TripsSpec == TripsInit /\ [][TripsNext]_tripVars

(* No trip is refused: a parser has at least one result.                    *)
TripsTypeOK ==
  /\ askedForm = range.form
  /\ {At(askedMin).type, At(askedMax).type, At(home).type}
       = {range.min.type, range.max.type, visitor.type}
  /\ ParseRange(RangeToJson(range)) # {}
  /\ \A json \in Payloads(visitor) : ParsePayload(json) # {}
  /\ ParseKind(KindToJson(channelKind)) # {}

-----------------------------------------------------------------------------
(* Properties.                                                             *)

Fractional(p) == At(p).type = "Duration" /\ At(p).data % 1000 # 0
SameSecond(v, p) == v.type = "Duration" => v.data \div 1000 = At(p).data \div 1000

Under(p, q) == p[1] = q[1] /\ p[2] < q[2]
UpTo(p, q) == p[1] = q[1] /\ p[2] <= q[2]

(* What the forms are documented to accept, values.rs:1760-1804.            *)
Accepts(form, min, max, p) ==
  CASE form = "Leq" -> UpTo(p, max)
    [] form = "Geq" -> UpTo(min, p)
    [] form = "BetweenEq" -> ~Under(max, min) /\ UpTo(min, p) /\ UpTo(p, max)
    [] form = "OutOfStrict" -> Under(p, min) \/ Under(max, p)
    [] form = "Eq" -> p = min

(* However often a range and a value were written and read, the range       *)
(* accepts the value exactly if it is documented to: bounds keep their      *)
(* sides, values of other types, vendors or MIME types are neither below    *)
(* nor above.  Only a duration with a fraction of a second may become       *)
(* shorter, and it never leaves its second.  The manager takes the value    *)
(* for a channel of the kind exactly if it would have before the trips.     *)
TravelsAsDocumented ==
  /\ SameSecond(range.min, askedMin) /\ SameSecond(range.max, askedMax)
  /\ SameSecond(visitor, home)
  /\ (visitor.type = TypeOfKind(channelKind)) = (At(home).type = TypeOfKind(askedKind))
  /\ (\A p \in {askedMin, askedMax, home} : ~Fractional(p)) =>
       (Contains(range, visitor) <=> Accepts(askedForm, askedMin, askedMax, home))
=============================================================================
