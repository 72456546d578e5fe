---------------------------- MODULE TaxonomyProofs -----------------------------
(***************************************************************************)
(* Proofs about what a client of the taxonomy says and is told: selectors  *)
(* conjoin, ranges and kinds survive their trips through JSON, the clock   *)
(* follows the ranges it watches and keeps its promise, and values are     *)
(* fetched and sent as they are reported, for any channels, values, ranges,*)
(* adapters and length of the day.  And about all of it together: the      *)
(* taxonomy of MCTaxonomy runs its parts, and keeps their types.           *)
(***************************************************************************)
EXTENDS MCTaxonomy, OpenZWaveProofs, WellFoundedInduction

-----------------------------------------------------------------------------
(* Selectors.  AndIsConjunction speaks of the selector that is built; the   *)
(* inductive invariant says the same of the one put aside, and of services  *)
(* what the list of selectors of channels holds.                            *)

(* `Exactly::and` is a conjunction, whatever its operands are.              *)
LEMMA ExactlyAndMatches ==
  ASSUME NEW a, NEW b, NEW x
  PROVE  ExactlyMatches(ExactlyAnd(a, b), x) <=> ExactlyMatches(a, x) /\ ExactlyMatches(b, x)
<1>1. Always # Never /\ Exactly(x) # Never /\ Exactly(x) # Always
  BY DEF Always, Never, Exactly
<1> QED  BY <1>1 DEF ExactlyAnd, ExactlyMatches

LEMMA ExactlyOneMatches ==
  ASSUME NEW x, NEW y
  PROVE  ExactlyMatches(Exactly(x), y) <=> y = x
  BY DEF Always, Exactly, ExactlyMatches

(* A selector of channels, and what one condition adds to it.               *)
IsChannelSelector(s) == DOMAIN s = ChannelFields /\ s = [f \in ChannelFields |-> s[f]]

ChannelSays(s, conditions) ==
  \A c \in SomeChannel : \A tags \in SUBSET ChannelTag :
    GetterMatches(s, tags, c) <=> \A a \in conditions : ChannelMeets(a[1], a[2], tags, c)

LEMMA SettersAlike ==
  ASSUME NEW s, NEW b
  PROVE  /\ \A f, x : SetterWith(s, f, x) = GetterWith(s, f, x)
         /\ SetterAnd(s, b) = GetterAnd(s, b)
         /\ \A tags, c : SetterMatches(s, tags, c) = GetterMatches(s, tags, c)
         /\ ParseSetterSelector(s) = ParseGetterSelector(s)
  BY DEF SetterWith, GetterWith, SetterAnd, GetterAnd, SetterMatches, GetterMatches,
         ParseSetterSelector, ParseGetterSelector

LEMMA AnyChannelSays == IsChannelSelector(AnyChannel) /\ ChannelSays(AnyChannel, {})
<1>1. IsChannelSelector(AnyChannel)
  BY DEF IsChannelSelector, AnyChannel, ChannelFields, ExactFields, TagFields
<1>2. \A c, tags : GetterMatches(AnyChannel, tags, c)
  BY DEF GetterMatches, AnyChannel, ExactlyMatches, HasSelectedTags
<1> QED  BY <1>1, <1>2 DEF ChannelSays

LEMMA ChannelWithSays ==
  ASSUME NEW s, IsChannelSelector(s), NEW conditions, ChannelSays(s, conditions),
         NEW f \in ChannelFields, NEW x
  PROVE  /\ IsChannelSelector(GetterWith(s, f, x))
         /\ ChannelSays(GetterWith(s, f, x), conditions \cup {<<f, x>>})
<1> DEFINE t == GetterWith(s, f, x)
<1>1. IsChannelSelector(t)
  BY DEF IsChannelSelector, GetterWith, ChannelFields, ExactFields, TagFields
<1>2. ASSUME NEW g \in ChannelFields, g # f
      PROVE  t[g] = s[g]
  BY <1>2 DEF IsChannelSelector, GetterWith
<1>3. t[f] = IF f \in TagFields THEN s[f] \cup {x} ELSE ExactlyAnd(s[f], Exactly(x))
  BY DEF IsChannelSelector, GetterWith
<1>4. ASSUME NEW c \in SomeChannel, NEW tags \in SUBSET ChannelTag
      PROVE  GetterMatches(t, tags, c) <=> GetterMatches(s, tags, c) /\ ChannelMeets(f, x, tags, c)
  <2>1. CASE f = "id"
    <3>1. t.id = ExactlyAnd(s.id, Exactly(x))  BY <1>3, <2>1 DEF TagFields
    <3>2. t.parent = s.parent /\ t.kind = s.kind /\ t.tags = s.tags /\ t.service_tags = s.service_tags
      BY <1>2, <2>1 DEF ChannelFields, ExactFields, TagFields
    <3>3. ExactlyMatches(t.id, c.id) <=> ExactlyMatches(s.id, c.id) /\ c.id = x
      BY <3>1, ExactlyAndMatches, ExactlyOneMatches
    <3>4. ChannelMeets(f, x, tags, c) <=> c.id = x  BY <2>1 DEF ChannelMeets
    <3> HIDE DEF t
    <3> QED  BY <3>2, <3>3, <3>4 DEF GetterMatches
  <2>2. CASE f = "parent"
    <3>1. t.parent = ExactlyAnd(s.parent, Exactly(x))  BY <1>3, <2>2 DEF TagFields
    <3>2. t.id = s.id /\ t.kind = s.kind /\ t.tags = s.tags /\ t.service_tags = s.service_tags
      BY <1>2, <2>2 DEF ChannelFields, ExactFields, TagFields
    <3>3. ExactlyMatches(t.parent, c.service) <=> ExactlyMatches(s.parent, c.service) /\ c.service = x
      BY <3>1, ExactlyAndMatches, ExactlyOneMatches
    <3>4. ChannelMeets(f, x, tags, c) <=> c.service = x  BY <2>2 DEF ChannelMeets
    <3> HIDE DEF t
    <3> QED  BY <3>2, <3>3, <3>4 DEF GetterMatches
  <2>3. CASE f = "kind"
    <3>1. t.kind = ExactlyAnd(s.kind, Exactly(x))  BY <1>3, <2>3 DEF TagFields
    <3>2. t.id = s.id /\ t.parent = s.parent /\ t.tags = s.tags /\ t.service_tags = s.service_tags
      BY <1>2, <2>3 DEF ChannelFields, ExactFields, TagFields
    <3>3. ExactlyMatches(t.kind, c.kind) <=> ExactlyMatches(s.kind, c.kind) /\ c.kind = x
      BY <3>1, ExactlyAndMatches, ExactlyOneMatches
    <3>4. ChannelMeets(f, x, tags, c) <=> c.kind = x  BY <2>3 DEF ChannelMeets
    <3> HIDE DEF t
    <3> QED  BY <3>2, <3>3, <3>4 DEF GetterMatches
  <2>4. CASE f = "tags"
    <3>1. t.tags = s.tags \cup {x}  BY <1>3, <2>4 DEF TagFields
    <3>2. t.id = s.id /\ t.parent = s.parent /\ t.kind = s.kind /\ t.service_tags = s.service_tags
      BY <1>2, <2>4 DEF ChannelFields, ExactFields, TagFields
    <3>3. HasSelectedTags(t.tags, c.tags) <=> HasSelectedTags(s.tags, c.tags) /\ x \in c.tags
      BY <3>1 DEF HasSelectedTags
    <3>4. ChannelMeets(f, x, tags, c) <=> x \in c.tags  BY <2>4 DEF ChannelMeets
    <3> HIDE DEF t
    <3> QED  BY <3>2, <3>3, <3>4 DEF GetterMatches
  <2>5. CASE f = "service_tags"
    <3>1. t.service_tags = s.service_tags \cup {x}  BY <1>3, <2>5 DEF TagFields
    <3>2. t.id = s.id /\ t.parent = s.parent /\ t.kind = s.kind /\ t.tags = s.tags
      BY <1>2, <2>5 DEF ChannelFields, ExactFields, TagFields
    <3>3. HasSelectedTags(t.service_tags, tags) <=> HasSelectedTags(s.service_tags, tags) /\ x \in tags
      BY <3>1 DEF HasSelectedTags
    <3>4. ChannelMeets(f, x, tags, c) <=> x \in tags  BY <2>5 DEF ChannelMeets
    <3> HIDE DEF t
    <3> QED  BY <3>2, <3>3, <3>4 DEF GetterMatches
  <2> QED  BY <2>1, <2>2, <2>3, <2>4, <2>5 DEF ChannelFields, ExactFields, TagFields
<1>5. <<f, x>>[1] = f /\ <<f, x>>[2] = x  OBVIOUS
<1> HIDE DEF t
<1>6. ChannelSays(t, conditions \cup {<<f, x>>})
  BY <1>4, <1>5 DEF ChannelSays
<1> QED  BY <1>1, <1>6 DEF t

LEMMA ChannelAndSays ==
  ASSUME NEW s, NEW t, NEW C, NEW D, ChannelSays(s, C), ChannelSays(t, D)
  PROVE  IsChannelSelector(GetterAnd(s, t)) /\ ChannelSays(GetterAnd(s, t), C \cup D)
<1> DEFINE u == GetterAnd(s, t)
<1>1. IsChannelSelector(u)
  BY DEF IsChannelSelector, GetterAnd, ChannelFields, ExactFields, TagFields
<1>2. /\ u.id = ExactlyAnd(s.id, t.id) /\ u.parent = ExactlyAnd(s.parent, t.parent)
      /\ u.kind = ExactlyAnd(s.kind, t.kind)
      /\ u.tags = s.tags \cup t.tags /\ u.service_tags = s.service_tags \cup t.service_tags
  BY DEF GetterAnd
<1> HIDE DEF u
<1>3. \A c, tags : GetterMatches(u, tags, c) <=> GetterMatches(s, tags, c) /\ GetterMatches(t, tags, c)
  BY <1>2, ExactlyAndMatches DEF GetterMatches, HasSelectedTags
<1>4. ChannelSays(u, C \cup D)  BY <1>3 DEF ChannelSays
<1> QED  BY <1>1, <1>4 DEF u

(* A document of fields is a selector with each of them in turn.            *)
LEMMA ChannelDocumentSays ==
  ASSUME NEW f \in ChannelFields, NEW g \in ChannelFields, NEW doc, DOMAIN doc = {f, g},
         NEW s \in ParseGetterSelector(doc)
  PROVE  /\ IsChannelSelector(s)
         /\ ChannelSays(s, {<<h, doc[h]>> : h \in DOMAIN doc})
<1>1. s = [h \in ChannelFields |->
             IF h \in TagFields THEN (IF h \in DOMAIN doc THEN {doc[h]} ELSE {})
             ELSE IF h \in DOMAIN doc THEN Exactly(doc[h]) ELSE Always]
  BY DEF ParseGetterSelector
<1>2. IsChannelSelector(s)  BY <1>1 DEF IsChannelSelector
<1>3. ASSUME NEW h \in ExactFields, NEW y
      PROVE  ExactlyMatches(s[h], y) <=> (h \in DOMAIN doc => y = doc[h])
  <2>1. h \notin TagFields /\ h \in ChannelFields  BY DEF ExactFields, TagFields, ChannelFields
  <2>2. s[h] = IF h \in DOMAIN doc THEN Exactly(doc[h]) ELSE Always  BY <1>1, <2>1
  <2>3. ExactlyMatches(Always, y)  BY DEF ExactlyMatches
  <2> QED  BY <2>2, <2>3, ExactlyOneMatches
<1>4. ASSUME NEW h \in TagFields, NEW tags
      PROVE  HasSelectedTags(s[h], tags) <=> (h \in DOMAIN doc => doc[h] \in tags)
  <2>1. s[h] = IF h \in DOMAIN doc THEN {doc[h]} ELSE {}  BY <1>1 DEF ChannelFields
  <2> QED  BY <2>1 DEF HasSelectedTags
<1>5. ASSUME NEW c \in SomeChannel, NEW tags \in SUBSET ChannelTag
      PROVE  GetterMatches(s, tags, c) <=> \A h \in DOMAIN doc : ChannelMeets(h, doc[h], tags, c)
  <2>1. GetterMatches(s, tags, c) <=>
          /\ "id" \in DOMAIN doc => c.id = doc["id"]
          /\ "parent" \in DOMAIN doc => c.service = doc["parent"]
          /\ "kind" \in DOMAIN doc => c.kind = doc["kind"]
          /\ "tags" \in DOMAIN doc => doc["tags"] \in c.tags
          /\ "service_tags" \in DOMAIN doc => doc["service_tags"] \in tags
    BY <1>3, <1>4 DEF GetterMatches, ExactFields, TagFields
  <2>2. \A h \in DOMAIN doc : h \in {"id", "parent", "kind", "tags", "service_tags"}
    BY DEF ChannelFields, ExactFields, TagFields
  <2> QED  BY <2>1, <2>2 DEF ChannelMeets
<1>6. ASSUME NEW c \in SomeChannel, NEW tags \in SUBSET ChannelTag
      PROVE  (\A a \in {<<h, doc[h]>> : h \in DOMAIN doc} : ChannelMeets(a[1], a[2], tags, c))
               <=> \A h \in DOMAIN doc : ChannelMeets(h, doc[h], tags, c)
  <2> DEFINE D == {<<h, doc[h]>> : h \in DOMAIN doc}
  <2>1. \A h : <<h, doc[h]>>[1] = h /\ <<h, doc[h]>>[2] = doc[h]  OBVIOUS
  <2>2. ASSUME \A a \in D : ChannelMeets(a[1], a[2], tags, c), NEW h \in DOMAIN doc
        PROVE  ChannelMeets(h, doc[h], tags, c)
    <3>1. <<h, doc[h]>> \in D  OBVIOUS
    <3>2. ChannelMeets(<<h, doc[h]>>[1], <<h, doc[h]>>[2], tags, c)  BY <2>2, <3>1
    <3> QED  BY <2>1, <3>2
  <2>3. ASSUME \A h \in DOMAIN doc : ChannelMeets(h, doc[h], tags, c), NEW a \in D
        PROVE  ChannelMeets(a[1], a[2], tags, c)
    <3>1. PICK h \in DOMAIN doc : a = <<h, doc[h]>>  OBVIOUS
    <3> QED  BY <2>1, <2>3, <3>1
  <2> QED  BY <2>2, <2>3
<1> QED  BY <1>2, <1>5, <1>6 DEF ChannelSays

(* The values that conditions give to one field.                            *)
Given(conditions, f) == {a[2] : a \in {b \in conditions : b[1] = f}}

LEMMA GivenTogether ==
  ASSUME NEW C, NEW D, NEW f
  PROVE  Given(C \cup D, f) = Given(C, f) \cup Given(D, f)
  BY DEF Given

LEMMA GivenOnce ==
  ASSUME NEW f, NEW g, NEW x
  PROVE  Given({<<f, x>>}, g) = IF f = g THEN {x} ELSE {}
<1>1. <<f, x>>[1] = f /\ <<f, x>>[2] = x  OBVIOUS
<1> QED  BY <1>1 DEF Given

(* A selector of services holds the values it was given, no more and no     *)
(* less: the names it accepts are those that equal each of them.            *)
IsServiceSelector(s) ==
  /\ DOMAIN s = DOMAIN AnyService /\ s = [f \in DOMAIN AnyService |-> s[f]]
  /\ s.getters \in Seq(ByTag) /\ s.setters \in Seq(ByTag)

ServiceSays(s, conditions) ==
  /\ \A name \in ServiceName :
       ExactlyMatches(s.id, name) <=> \A x \in Given(conditions, "id") : name = x
  /\ s.tags = Given(conditions, "tags")
  /\ Range(s.getters) = Given(conditions, "getters")
  /\ Range(s.setters) = Given(conditions, "setters")

LEMMA AnyServiceSays == IsServiceSelector(AnyService) /\ ServiceSays(AnyService, {})
<1>1. \A f : Given({}, f) = {}  BY DEF Given
<1>2. /\ AnyService.id = Always /\ AnyService.tags = {}
      /\ AnyService.getters = <<>> /\ AnyService.setters = <<>>
  BY DEF AnyService
<1>3. IsServiceSelector(AnyService)  BY DEF IsServiceSelector, AnyService
<1>4. Range(<<>>) = {}  BY DEF Range
<1>5. \A name : ExactlyMatches(Always, name)  BY DEF ExactlyMatches
<1> QED  BY <1>1, <1>2, <1>3, <1>4, <1>5 DEF ServiceSays

LEMMA RangeOfAppend ==
  ASSUME NEW S, NEW q \in Seq(S), NEW x \in S
  PROVE  Range(Append(q, x)) = Range(q) \cup {x}
<1>1. /\ DOMAIN Append(q, x) = 1 .. Len(q) + 1 /\ DOMAIN q = 1 .. Len(q) /\ Len(q) \in Nat
      /\ \A i \in 1 .. Len(q) + 1 : Append(q, x)[i] = IF i <= Len(q) THEN q[i] ELSE x
  OBVIOUS
<1>2. \A i \in 1 .. Len(q) : i \in 1 .. Len(q) + 1 /\ Append(q, x)[i] = q[i]  BY <1>1
<1>3. Append(q, x)[Len(q) + 1] = x /\ Len(q) + 1 \in 1 .. Len(q) + 1  BY <1>1
<1>4. \A i \in 1 .. Len(q) + 1 : i \in 1 .. Len(q) \/ i = Len(q) + 1  BY <1>1
<1> QED  BY <1>1, <1>2, <1>3, <1>4 DEF Range

LEMMA RangeOfConcat ==
  ASSUME NEW S, NEW p \in Seq(S), NEW q \in Seq(S)
  PROVE  Range(p \o q) = Range(p) \cup Range(q)
<1> DEFINE r == p \o q
<1>1. /\ DOMAIN r = 1 .. Len(p) + Len(q) /\ Len(p) \in Nat /\ Len(q) \in Nat
      /\ DOMAIN p = 1 .. Len(p) /\ DOMAIN q = 1 .. Len(q)
      /\ \A i \in 1 .. Len(p) + Len(q) : r[i] = IF i <= Len(p) THEN p[i] ELSE q[i - Len(p)]
  OBVIOUS
<1> HIDE DEF r
<1>2. \A i \in 1 .. Len(p) : i \in 1 .. Len(p) + Len(q) /\ r[i] = p[i]  BY <1>1
<1>3. \A i \in 1 .. Len(q) : i + Len(p) \in 1 .. Len(p) + Len(q) /\ r[i + Len(p)] = q[i]
  BY <1>1
<1>4. \A i \in 1 .. Len(p) + Len(q) :
        \/ i \in 1 .. Len(p)
        \/ i - Len(p) \in 1 .. Len(q) /\ r[i] = q[i - Len(p)]
  BY <1>1
<1>5. Range(r) \subseteq Range(p) \cup Range(q)  BY <1>1, <1>2, <1>4 DEF Range
<1>6. Range(p) \subseteq Range(r) /\ Range(q) \subseteq Range(r)
  BY <1>1, <1>2, <1>3 DEF Range
<1> QED  BY <1>5, <1>6 DEF r

LEMMA ServiceWithSays ==
  ASSUME NEW s, IsServiceSelector(s), NEW C, ServiceSays(s, C),
         NEW f \in DOMAIN AnyService, NEW x, f \in {"getters", "setters"} => x \in ByTag
  PROVE  /\ IsServiceSelector(ServiceWith(s, f, x))
         /\ ServiceSays(ServiceWith(s, f, x), C \cup {<<f, x>>})
<1> DEFINE t == ServiceWith(s, f, x)
<1> DEFINE D == C \cup {<<f, x>>}
<1>0. DOMAIN s = {"id", "tags", "getters", "setters"} /\ f \in DOMAIN s
  BY DEF IsServiceSelector, AnyService
<1>1. \A g : Given(D, g) = IF f = g THEN Given(C, g) \cup {x} ELSE Given(C, g)
  <2> TAKE g
  <2>1. Given(D, g) = Given(C, g) \cup Given({<<f, x>>}, g)  BY GivenTogether
  <2>2. Given({<<f, x>>}, g) = IF f = g THEN {x} ELSE {}  BY GivenOnce
  <2> QED  BY <2>1, <2>2
<1>2. \A g \in DOMAIN s : g # f => t[g] = s[g]  BY <1>0 DEF ServiceWith
<1>3. DOMAIN t = DOMAIN AnyService /\ t = [g \in DOMAIN AnyService |-> t[g]]
  BY <1>0 DEF ServiceWith, IsServiceSelector
<1>4. t[f] = CASE f = "id" -> ExactlyAnd(s[f], Exactly(x))
               [] f = "tags" -> s[f] \cup {x}
               [] f \in {"getters", "setters"} -> Append(s[f], x)
  BY <1>0 DEF ServiceWith
<1> HIDE DEF t, D
<1>5. CASE f = "id"
  <2>1. t.id = ExactlyAnd(s.id, Exactly(x))  BY <1>4, <1>5
  <2>2. t.tags = s.tags /\ t.getters = s.getters /\ t.setters = s.setters  BY <1>0, <1>2, <1>5
  <2>3. \A name : ExactlyMatches(t.id, name) <=> ExactlyMatches(s.id, name) /\ name = x
    BY <2>1, ExactlyAndMatches, ExactlyOneMatches
  <2>4. /\ Given(D, "id") = Given(C, "id") \cup {x} /\ Given(D, "tags") = Given(C, "tags")
        /\ Given(D, "getters") = Given(C, "getters") /\ Given(D, "setters") = Given(C, "setters")
    BY <1>1, <1>5
  <2>5. IsServiceSelector(t)  BY <1>3, <2>2 DEF IsServiceSelector
  <2>6. ServiceSays(t, D)  BY <2>2, <2>3, <2>4 DEF ServiceSays
  <2> QED  BY <2>5, <2>6 DEF t, D
<1>6. CASE f = "tags"
  <2>1. t.tags = s.tags \cup {x}  BY <1>4, <1>6
  <2>2. t.id = s.id /\ t.getters = s.getters /\ t.setters = s.setters  BY <1>0, <1>2, <1>6
  <2>4. /\ Given(D, "id") = Given(C, "id") /\ Given(D, "tags") = Given(C, "tags") \cup {x}
        /\ Given(D, "getters") = Given(C, "getters") /\ Given(D, "setters") = Given(C, "setters")
    BY <1>1, <1>6
  <2>5. IsServiceSelector(t)  BY <1>3, <2>2 DEF IsServiceSelector
  <2>6. ServiceSays(t, D)  BY <2>1, <2>2, <2>4 DEF ServiceSays
  <2> QED  BY <2>5, <2>6 DEF t, D
<1>7. CASE f = "getters"
  <2>1. t.getters = Append(s.getters, x) /\ x \in ByTag  BY <1>4, <1>7
  <2>2. t.id = s.id /\ t.tags = s.tags /\ t.setters = s.setters  BY <1>0, <1>2, <1>7
  <2>3. s.getters \in Seq(ByTag)  BY DEF IsServiceSelector
  <2>4. /\ Given(D, "id") = Given(C, "id") /\ Given(D, "tags") = Given(C, "tags")
        /\ Given(D, "getters") = Given(C, "getters") \cup {x}
        /\ Given(D, "setters") = Given(C, "setters")
    BY <1>1, <1>7
  <2>5. t.getters \in Seq(ByTag)  BY <2>1, <2>3
  <2>6. Range(t.getters) = Range(s.getters) \cup {x}  BY <2>1, <2>3, RangeOfAppend
  <2>7. IsServiceSelector(t)  BY <1>3, <2>2, <2>5 DEF IsServiceSelector
  <2>8. ServiceSays(t, D)  BY <2>2, <2>4, <2>6 DEF ServiceSays
  <2> QED  BY <2>7, <2>8 DEF t, D
<1>8. CASE f = "setters"
  <2>1. t.setters = Append(s.setters, x) /\ x \in ByTag  BY <1>4, <1>8
  <2>2. t.id = s.id /\ t.tags = s.tags /\ t.getters = s.getters  BY <1>0, <1>2, <1>8
  <2>3. s.setters \in Seq(ByTag)  BY DEF IsServiceSelector
  <2>4. /\ Given(D, "id") = Given(C, "id") /\ Given(D, "tags") = Given(C, "tags")
        /\ Given(D, "setters") = Given(C, "setters") \cup {x}
        /\ Given(D, "getters") = Given(C, "getters")
    BY <1>1, <1>8
  <2>5. t.setters \in Seq(ByTag)  BY <2>1, <2>3
  <2>6. Range(t.setters) = Range(s.setters) \cup {x}  BY <2>1, <2>3, RangeOfAppend
  <2>7. IsServiceSelector(t)  BY <1>3, <2>2, <2>5 DEF IsServiceSelector
  <2>8. ServiceSays(t, D)  BY <2>2, <2>4, <2>6 DEF ServiceSays
  <2> QED  BY <2>7, <2>8 DEF t, D
<1> QED  BY <1>0, <1>5, <1>6, <1>7, <1>8

LEMMA ServiceAndSays ==
  ASSUME NEW s, IsServiceSelector(s), NEW C, ServiceSays(s, C),
         NEW t, IsServiceSelector(t), NEW D, ServiceSays(t, D)
  PROVE  IsServiceSelector(ServiceAnd(s, t)) /\ ServiceSays(ServiceAnd(s, t), C \cup D)
<1> DEFINE u == ServiceAnd(s, t)
<1>1. /\ u.id = ExactlyAnd(s.id, t.id) /\ u.tags = s.tags \cup t.tags
      /\ u.getters = s.getters \o t.getters /\ u.setters = s.setters \o t.setters
      /\ DOMAIN u = DOMAIN AnyService /\ u = [f \in DOMAIN AnyService |-> u[f]]
  BY DEF ServiceAnd, AnyService
<1> HIDE DEF u
<1>2. /\ s.getters \in Seq(ByTag) /\ s.setters \in Seq(ByTag)
      /\ t.getters \in Seq(ByTag) /\ t.setters \in Seq(ByTag)
  BY DEF IsServiceSelector
<1>3. u.getters \in Seq(ByTag) /\ u.setters \in Seq(ByTag)  BY <1>1, <1>2
<1>4. IsServiceSelector(u)  BY <1>1, <1>3 DEF IsServiceSelector
<1>5. Range(u.getters) = Range(s.getters) \cup Range(t.getters)  BY <1>1, <1>2, RangeOfConcat
<1>6. Range(u.setters) = Range(s.setters) \cup Range(t.setters)  BY <1>1, <1>2, RangeOfConcat
<1>7. \A f : Given(C \cup D, f) = Given(C, f) \cup Given(D, f)  BY GivenTogether
<1>8. \A name : ExactlyMatches(u.id, name) <=> ExactlyMatches(s.id, name) /\ ExactlyMatches(t.id, name)
  BY <1>1, ExactlyAndMatches
<1>9. ServiceSays(u, C \cup D)
  BY <1>1, <1>5, <1>6, <1>7, <1>8 DEF ServiceSays
<1> QED  BY <1>4, <1>9 DEF u

(* Reading one field or two.                                                *)
LEMMA ServiceDocumentSays ==
  ASSUME NEW f \in DOMAIN AnyService, NEW g \in DOMAIN AnyService, NEW doc, DOMAIN doc = {f, g},
         NEW s \in ParseServiceSelector(doc),
         \A h \in DOMAIN doc : h \in {"getters", "setters"} => doc[h] \in ByTag
  PROVE  /\ IsServiceSelector(s)
         /\ ServiceSays(s, {<<h, doc[h]>> : h \in DOMAIN doc})
<1> DEFINE C == {<<h, doc[h]>> : h \in DOMAIN doc}
<1>1. /\ s.id = IF "id" \in DOMAIN doc THEN Exactly(doc["id"]) ELSE Always
      /\ s.tags = IF "tags" \in DOMAIN doc THEN {doc["tags"]} ELSE {}
      /\ s.getters = IF "getters" \in DOMAIN doc THEN <<doc["getters"]>> ELSE <<>>
      /\ s.setters = IF "setters" \in DOMAIN doc THEN <<doc["setters"]>> ELSE <<>>
      /\ DOMAIN s = DOMAIN AnyService /\ s = [h \in DOMAIN AnyService |-> s[h]]
  <2>1. s = [id |-> IF "id" \in DOMAIN doc THEN Exactly(doc.id) ELSE Always,
             tags |-> IF "tags" \in DOMAIN doc THEN {doc.tags} ELSE {},
             getters |-> IF "getters" \in DOMAIN doc THEN <<doc.getters>> ELSE <<>>,
             setters |-> IF "setters" \in DOMAIN doc THEN <<doc.setters>> ELSE <<>>]
    BY DEF ParseServiceSelector
  <2>2. DOMAIN s = {"id", "tags", "getters", "setters"}  BY <2>1
  <2>3. DOMAIN AnyService = {"id", "tags", "getters", "setters"}  BY DEF AnyService
  <2>4. s = [h \in DOMAIN s |-> s[h]]  BY <2>1
  <2>5. s.id = IF "id" \in DOMAIN doc THEN Exactly(doc["id"]) ELSE Always  BY <2>1
  <2>6. s.tags = IF "tags" \in DOMAIN doc THEN {doc["tags"]} ELSE {}  BY <2>1
  <2>7. s.getters = IF "getters" \in DOMAIN doc THEN <<doc["getters"]>> ELSE <<>>  BY <2>1
  <2>8. s.setters = IF "setters" \in DOMAIN doc THEN <<doc["setters"]>> ELSE <<>>  BY <2>1
  <2> QED  BY <2>2, <2>3, <2>4, <2>5, <2>6, <2>7, <2>8
<1>2. ASSUME NEW h
      PROVE  Given(C, h) = IF h \in DOMAIN doc THEN {doc[h]} ELSE {}
  <2>1. \A x : <<x, doc[x]>>[1] = x /\ <<x, doc[x]>>[2] = doc[x]  OBVIOUS
  <2>2. ASSUME NEW y \in Given(C, h)
        PROVE  h \in DOMAIN doc /\ y = doc[h]
    <3>1. PICK a \in C : a[1] = h /\ y = a[2]  BY DEF Given
    <3>2. PICK x \in DOMAIN doc : a = <<x, doc[x]>>  BY <3>1
    <3> QED  BY <2>1, <3>1, <3>2
  <2>3. ASSUME h \in DOMAIN doc
        PROVE  doc[h] \in Given(C, h)
    <3>1. <<h, doc[h]>> \in C  BY <2>3
    <3> QED  BY <2>1, <3>1 DEF Given
  <2> QED  BY <2>2, <2>3
<1>3. IsServiceSelector(s)  BY <1>1 DEF IsServiceSelector
<1>4. Range(<<>>) = {} /\ \A x : Range(<<x>>) = {x}  BY DEF Range
<1>5. \A name : ExactlyMatches(Always, name)  BY DEF ExactlyMatches
<1> HIDE DEF C
<1>6. \A name \in ServiceName : ExactlyMatches(s.id, name) <=> \A x \in Given(C, "id") : name = x
  <2>1. CASE "id" \in DOMAIN doc
    <3>1. s.id = Exactly(doc["id"]) /\ Given(C, "id") = {doc["id"]}  BY <1>1, <1>2, <2>1
    <3> QED  BY <3>1, ExactlyOneMatches
  <2>2. CASE "id" \notin DOMAIN doc
    <3>1. s.id = Always /\ Given(C, "id") = {}  BY <1>1, <1>2, <2>2
    <3> QED  BY <1>5, <3>1
  <2> QED  BY <2>1, <2>2
<1>7. /\ s.tags = Given(C, "tags")
      /\ Range(s.getters) = Given(C, "getters")
      /\ Range(s.setters) = Given(C, "setters")
  BY <1>1, <1>2, <1>4
<1> QED  BY <1>3, <1>6, <1>7 DEF ServiceSays, C

(* A service is selected as documented unless a selector of channels looks  *)
(* at the tags of its service: it is given others.                          *)
LEMMA ServiceSelected ==
  ASSUME NEW s, NEW C, ServiceSays(s, C),
         \A a \in C : a[1] \in DOMAIN AnyService /\ ~SelectsByServiceTags(a),
         NEW service \in SomeService
  PROVE  ServiceMatches(s, service) <=> \A a \in C : ServiceMeets(a[1], a[2], service)
<1>1. \A x \in Given(C, "getters") \cup Given(C, "setters") : x.service_tags = {}
  BY DEF Given, SelectsByServiceTags
<1>2. ASSUME NEW x, x.service_tags = {}, NEW tags, NEW others, NEW c
      PROVE  /\ GetterMatches(x, tags, c) <=> GetterMatches(x, others, c)
             /\ SetterMatches(x, tags, c) <=> SetterMatches(x, others, c)
  BY <1>2 DEF GetterMatches, SetterMatches, HasSelectedTags
<1>3. service.id \in ServiceName  BY DEF SomeService
<1>4. ServiceMatches(s, service) <=>
        /\ \A x \in Given(C, "id") : service.id = x
        /\ \A x \in Given(C, "tags") : x \in service.tags
        /\ \A x \in Given(C, "getters") : \E c \in service.getters : GetterMatches(x, service.tags, c)
        /\ \A x \in Given(C, "setters") : \E c \in service.setters : SetterMatches(x, service.tags, c)
  <2>1. ExactlyMatches(s.id, service.id) <=> \A x \in Given(C, "id") : service.id = x
    BY <1>3 DEF ServiceSays
  <2>2. HasSelectedTags(s.tags, service.tags) <=> \A x \in Given(C, "tags") : x \in service.tags
    BY DEF ServiceSays, HasSelectedTags
  <2>3. (\A i \in DOMAIN s.getters : \E c \in service.getters : GetterMatches(s.getters[i], s.tags, c))
          <=> \A x \in Given(C, "getters") : \E c \in service.getters : GetterMatches(x, s.tags, c)
    BY DEF ServiceSays, Range
  <2>4. (\A i \in DOMAIN s.setters : \E c \in service.setters : SetterMatches(s.setters[i], s.tags, c))
          <=> \A x \in Given(C, "setters") : \E c \in service.setters : SetterMatches(x, s.tags, c)
    BY DEF ServiceSays, Range
  <2>5. (\A x \in Given(C, "getters") : \E c \in service.getters : GetterMatches(x, s.tags, c))
          <=> \A x \in Given(C, "getters") : \E c \in service.getters : GetterMatches(x, service.tags, c)
    BY <1>1, <1>2
  <2>6. (\A x \in Given(C, "setters") : \E c \in service.setters : SetterMatches(x, s.tags, c))
          <=> \A x \in Given(C, "setters") : \E c \in service.setters : SetterMatches(x, service.tags, c)
    BY <1>1, <1>2
  <2> QED  BY <2>1, <2>2, <2>3, <2>4, <2>5, <2>6 DEF ServiceMatches
<1>5. ASSUME NEW a \in C
      PROVE  a[1] \in {"id", "tags", "getters", "setters"} /\ a[2] \in Given(C, a[1])
  BY DEF AnyService, Given
<1>6. \A f : \A x \in Given(C, f) : \E a \in C : a[1] = f /\ a[2] = x
  BY DEF Given
<1>7. (\A a \in C : ServiceMeets(a[1], a[2], service)) <=>
        \A f \in {"id", "tags", "getters", "setters"} :
          \A x \in Given(C, f) : ServiceMeets(f, x, service)
  BY <1>5, <1>6
<1> QED  BY <1>4, <1>7 DEF ServiceMeets

-----------------------------------------------------------------------------
(* The inductive invariant.                                                *)

Levels == {"getter", "setter", "service"}

Says(s, conditions) ==
  IF level = "service" THEN IsServiceSelector(s) /\ ServiceSays(s, conditions)
  ELSE IsChannelSelector(s) /\ ChannelSays(s, conditions)

SelectorsInv == Says(built, asked) /\ Says(aside, askedAside)

LEMMA AnythingSays == Says(Anything, {})
  BY AnyChannelSays, AnyServiceSays DEF Says, Anything

LEMMA WithSays ==
  ASSUME level \in Levels, NEW s, NEW C, Says(s, C), NEW f \in FieldsOf, NEW x \in ValuesOf(f)
  PROVE  Says(With(s, f, x), C \cup {<<f, x>>})
<1>1. CASE level = "service"
  <2>1. f \in DOMAIN AnyService  BY <1>1 DEF FieldsOf
  <2>2. f \in {"getters", "setters"} => x \in ByTag  BY DEF ValuesOf, TagFields
  <2>3. With(s, f, x) = ServiceWith(s, f, x)  BY <1>1 DEF With
  <2> QED  BY <1>1, <2>1, <2>2, <2>3, ServiceWithSays DEF Says
<1>2. CASE level # "service"
  <2>1. f \in ChannelFields  BY <1>2 DEF FieldsOf
  <2>2. With(s, f, x) = GetterWith(s, f, x)  BY <1>2, SettersAlike DEF With, Levels
  <2> QED  BY <1>2, <2>1, <2>2, ChannelWithSays DEF Says
<1> QED  BY <1>1, <1>2

LEMMA JoinSays ==
  ASSUME level \in Levels, NEW s, NEW C, Says(s, C), NEW t, NEW D, Says(t, D)
  PROVE  Says(Join(s, t), C \cup D)
<1>1. CASE level = "service"
  <2>1. Join(s, t) = ServiceAnd(s, t)  BY <1>1 DEF Join
  <2> QED  BY <1>1, <2>1, ServiceAndSays DEF Says
<1>2. CASE level # "service"
  <2>1. Join(s, t) = GetterAnd(s, t)  BY <1>2, SettersAlike DEF Join, Levels
  <2> QED  BY <1>2, <2>1, ChannelAndSays DEF Says
<1> QED  BY <1>1, <1>2

LEMMA DocumentSays ==
  ASSUME level \in Levels, NEW f \in FieldsOf, NEW g \in FieldsOf,
         NEW doc, DOMAIN doc = {f, g}, \A h \in DOMAIN doc : doc[h] \in ValuesOf(h),
         NEW s \in ParseSelector(doc)
  PROVE  Says(s, {<<h, doc[h]>> : h \in DOMAIN doc})
<1>1. CASE level = "service"
  <2>1. f \in DOMAIN AnyService /\ g \in DOMAIN AnyService  BY <1>1 DEF FieldsOf
  <2>2. \A h \in DOMAIN doc : h \in {"getters", "setters"} => doc[h] \in ByTag
    BY DEF ValuesOf, TagFields
  <2>3. s \in ParseServiceSelector(doc)  BY <1>1 DEF ParseSelector
  <2> QED  BY <1>1, <2>1, <2>2, <2>3, ServiceDocumentSays DEF Says
<1>2. CASE level # "service"
  <2>1. f \in ChannelFields /\ g \in ChannelFields  BY <1>2 DEF FieldsOf
  <2>2. s \in ParseGetterSelector(doc)  BY <1>2, SettersAlike DEF ParseSelector, Levels
  <2> QED  BY <1>2, <2>1, <2>2, ChannelDocumentSays DEF Says
<1> QED  BY <1>1, <1>2

(* The conditions that were asked are about fields of the level.            *)
SelectorsState == SelectorsTypeOK /\ SelectorsInv

LEMMA SaysShape ==
  ASSUME level \in Levels, NEW s, NEW C, Says(s, C)
  PROVE  DOMAIN s = DOMAIN Anything
  BY DEF Says, Anything, IsServiceSelector, IsChannelSelector, AnyChannel, ChannelFields,
         ExactFields, TagFields

LEMMA SelectorsStateInit == SelectorsInit => SelectorsState
<1> SUFFICES ASSUME SelectorsInit PROVE SelectorsState  OBVIOUS
<1>1. SelectorsInv  BY AnythingSays DEF SelectorsInit, SelectorsInv
<1>2. SelectorsTypeOK  BY SelectorsAssumption DEF SelectorsInit, SelectorsTypeOK
<1> QED  BY <1>1, <1>2 DEF SelectorsState

(* The level stays, so that the next state is spoken of as this one is.     *)
LEMMA NextSelectors ==
  ASSUME SelectorsState, level' = level,
         Says(built', asked'), Says(aside', askedAside'),
         \A a \in asked' \cup askedAside' : a[1] \in FieldsOf /\ a[2] \in ValuesOf(a[1]),
         calls' \in 0 .. MaxCalls
  PROVE  SelectorsState'
<1>1. level \in Levels  BY DEF SelectorsState, SelectorsTypeOK, Levels
<1>2. DOMAIN built' = DOMAIN Anything /\ DOMAIN aside' = DOMAIN Anything  BY <1>1, SaysShape
<1>3. SelectorsTypeOK'
  BY <1>1, <1>2 DEF SelectorsTypeOK, Levels, Anything, FieldsOf, ValuesOf
<1>4. SelectorsInv'  BY DEF SelectorsInv, Says
<1> QED  BY <1>3, <1>4 DEF SelectorsState

LEMMA SelectorsStateStep == SelectorsState /\ [SelectorsNext]_selectorVars => SelectorsState'
<1> SUFFICES ASSUME SelectorsState, [SelectorsNext]_selectorVars PROVE SelectorsState'
  OBVIOUS
<1>1. /\ level \in Levels /\ Says(built, asked) /\ Says(aside, askedAside)
      /\ \A a \in asked \cup askedAside : a[1] \in FieldsOf /\ a[2] \in ValuesOf(a[1])
      /\ calls \in 0 .. MaxCalls
  BY DEF SelectorsState, SelectorsInv, SelectorsTypeOK, Levels
<1>2. CASE ReadSelector
  <2>1. PICK f \in FieldsOf, g \in FieldsOf : \E x \in ValuesOf(f), y \in ValuesOf(g) :
          LET doc == [h \in {f, g} |-> IF h = f THEN x ELSE y]
          IN built' \in ParseSelector(doc) /\ asked' = {<<h, doc[h]>> : h \in DOMAIN doc}
    BY <1>2 DEF ReadSelector
  <2>2. PICK x \in ValuesOf(f), y \in ValuesOf(g) :
          LET doc == [h \in {f, g} |-> IF h = f THEN x ELSE y]
          IN built' \in ParseSelector(doc) /\ asked' = {<<h, doc[h]>> : h \in DOMAIN doc}
    BY <2>1
  <2> DEFINE doc == [h \in {f, g} |-> IF h = f THEN x ELSE y]
  <2>3. DOMAIN doc = {f, g} /\ \A h \in DOMAIN doc : h \in FieldsOf /\ doc[h] \in ValuesOf(h)
    OBVIOUS
  <2>4. built' \in ParseSelector(doc) /\ asked' = {<<h, doc[h]>> : h \in DOMAIN doc}
    BY <2>2
  <2> HIDE DEF doc
  <2>5. Says(built', asked')  BY <1>1, <2>3, <2>4, DocumentSays
  <2>6. \A h : <<h, doc[h]>>[1] = h /\ <<h, doc[h]>>[2] = doc[h]  OBVIOUS
  <2>7. \A a \in asked' : a[1] \in FieldsOf /\ a[2] \in ValuesOf(a[1])  BY <2>3, <2>4, <2>6
  <2>8. /\ calls' \in 0 .. MaxCalls /\ level' = level
        /\ aside' = aside /\ askedAside' = askedAside
    BY <1>1, <1>2, SelectorsAssumption DEF ReadSelector
  <2> QED  BY <1>1, <2>5, <2>7, <2>8, NextSelectors
<1>3. ASSUME NEW f \in FieldsOf, AskMore(f) PROVE SelectorsState'
  <2>1. PICK x \in ValuesOf(f) :
          /\ calls < MaxCalls /\ calls' = calls + 1
          /\ built' = With(built, f, x)
          /\ asked' = asked \cup {<<f, x>>}
          /\ UNCHANGED <<level, aside, askedAside>>
    BY <1>3 DEF AskMore
  <2>2. Says(built', asked')  BY <1>1, <2>1, WithSays
  <2>3. <<f, x>>[1] = f /\ <<f, x>>[2] = x  OBVIOUS
  <2>4. \A a \in asked' : a[1] \in FieldsOf /\ a[2] \in ValuesOf(a[1])  BY <1>1, <2>1, <2>3
  <2>5. calls' \in 0 .. MaxCalls  BY <1>1, <2>1, SelectorsAssumption
  <2> QED  BY <1>1, <2>1, <2>2, <2>4, <2>5, NextSelectors
<1>4. CASE PutAside
  BY <1>1, <1>4, AnythingSays, NextSelectors DEF PutAside
<1>5. CASE JoinThem
  <2>1. Says(built', asked')  BY <1>1, <1>5, JoinSays DEF JoinThem
  <2> QED  BY <1>1, <1>5, <2>1, AnythingSays, NextSelectors DEF JoinThem
<1>6. CASE UNCHANGED selectorVars
  BY <1>1, <1>6, NextSelectors DEF selectorVars
<1> QED  BY <1>2, <1>3, <1>4, <1>5, <1>6 DEF SelectorsNext

(* A selector keeps its fields, and what was asked are fields of its level. *)
THEOREM SelectorsTypeCorrect == SelectorsSpec => []SelectorsTypeOK
<1>1. SelectorsState => SelectorsTypeOK  BY DEF SelectorsState
<1> QED  BY <1>1, SelectorsStateInit, SelectorsStateStep, PTL DEF SelectorsSpec

(* Read, built and joined in any order, with any conditions, a selector     *)
(* matches what meets each of them.                                         *)
THEOREM SelectorsConjoin == SelectorsSpec => []AndIsConjunction
<1>1. SelectorsState => AndIsConjunction
  <2> SUFFICES ASSUME SelectorsState PROVE AndIsConjunction  OBVIOUS
  <2>1. /\ level \in Levels /\ Says(built, asked)
        /\ \A a \in asked : a[1] \in FieldsOf
    BY DEF SelectorsState, SelectorsInv, SelectorsTypeOK, Levels
  <2>2. CASE level = "service"
    <3>1. ServiceSays(built, asked) /\ \A a \in asked : a[1] \in DOMAIN AnyService
      BY <2>1, <2>2 DEF Says, FieldsOf
    <3> QED  BY <2>2, <3>1, ServiceSelected DEF AndIsConjunction
  <2>3. CASE level # "service"
    <3>1. ChannelSays(built, asked)  BY <2>1, <2>3 DEF Says
    <3>2. \A tags, c : SetterMatches(built, tags, c) = GetterMatches(built, tags, c)
      BY SettersAlike
    <3> QED  BY <2>1, <2>3, <3>1, <3>2 DEF AndIsConjunction, ChannelSays, Levels
  <2> QED  BY <2>2, <2>3
<1> QED  BY <1>1, SelectorsStateInit, SelectorsStateStep, PTL DEF SelectorsSpec

-----------------------------------------------------------------------------
(* Ranges, values and kinds that travel.  The inductive invariant: each of  *)
(* them is what was asked, but for a fraction of a second of a duration,    *)
(* which is only ever cut, never below its second.                          *)

(* What `Take` finds in a document of one field.                            *)
LEMMA ObjectFields ==
  ASSUME NEW f, NEW json
  PROVE  /\ Is(Object(f, json), "object")
         /\ \A shape : shape # "object" => ~Is(Object(f, json), shape)
         /\ DOMAIN Object(f, json)[2] = {f} /\ Object(f, json)[2][f] = json
         /\ Take(Object(f, json), f) = {json}
         /\ \A g : g # f => Take(Object(f, json), g) = {}
<1>1. /\ Object(f, json)[1] = "object"
      /\ Object(f, json)[2] = [x \in {f} |-> json]
  BY DEF Object
<1>2. DOMAIN Object(f, json)[2] = {f} /\ Object(f, json)[2][f] = json  BY <1>1
<1> QED  BY <1>1, <1>2 DEF Is, Take

LEMMA ClockTypes ==
  /\ DOMAIN Constants = {"OnOff", "OpenClosed", "DoorLocked"}
  /\ DOMAIN Fields = {"Color", "WebPushNotify", "ThinkerbellRule", "ExtBool", "ExtNumeric", "Binary"}
  /\ Type = {"Unit", "Temperature", "Json", "Range", "Duration", "TimeStamp", "String"}
              \cup DOMAIN Constants \cup DOMAIN Fields
  /\ Numeric = {"Duration", "TimeStamp", "String"}
  BY DEF Constants, Fields, Type, Numeric

(* A document of the data of a value is read as the data, or nearly.        *)
LEMMA DataReadBack ==
  ASSUME NEW v, IsPlain(v)
  PROVE  ParseData(v.type, DataToJson(v)) =
           IF v.type = "Duration" THEN ParseDuration(<<"number", v.data>>) ELSE {v.data}
<1> DEFINE t == v.type
<1> DEFINE json == DataToJson(v)
<1>1. t \in {"Unit"} \cup Numeric \cup DOMAIN Constants \cup DOMAIN Fields  BY DEF IsPlain
<1>2. CASE t = "Unit"
  <2>1. ParseData(t, json) = {0}  BY <1>2, ClockTypes DEF ParseData
  <2> QED  BY <1>2, <2>1 DEF IsPlain
<1>3. CASE t = "Duration"
  <2>1. json = <<"number", v.data>>  BY <1>3, ClockTypes DEF DataToJson
  <2> HIDE DEF json
  <2>2. ParseData(t, json) = ParseDuration(json)  BY <1>3, ClockTypes DEF ParseData
  <2> QED  BY <1>3, <2>1, <2>2 DEF json
<1>4. CASE t = "TimeStamp"
  <2>1. json = <<"date", v.data>>  BY <1>4, ClockTypes DEF DataToJson
  <2> HIDE DEF json
  <2>2. ParseData(t, json) = ParseTimeStamp(json)  BY <1>4, ClockTypes DEF ParseData
  <2> QED  BY <1>4, <2>1, <2>2 DEF json, ParseTimeStamp, Is
<1>5. CASE t = "String"
  <2>1. json = <<"string", v.data>>  BY <1>5, ClockTypes DEF DataToJson
  <2> HIDE DEF json
  <2>2. ParseData(t, json) = ParseString(json)  BY <1>5, ClockTypes DEF ParseData
  <2> QED  BY <1>5, <2>1, <2>2 DEF json, ParseString, Is
<1>6. CASE t \in DOMAIN Constants
  <2>1. json = <<"string", v.data>>  BY <1>6, ClockTypes DEF DataToJson
  <2> HIDE DEF json
  <2>2. ParseData(t, json) = ParseConstant(t, json)  BY <1>6, ClockTypes DEF ParseData
  <2>3. v.data \in DOMAIN Constants[t]  BY <1>6 DEF IsPlain
  <2>4. ParseConstant(t, json) = {v.data}  BY <2>1, <2>3 DEF ParseConstant, Is
  <2> QED  BY <1>6, <2>2, <2>4, ClockTypes DEF json
<1>7. CASE t \in DOMAIN Fields
  <2>1. json = <<"object", [f \in Fields[t] |-> <<"number", v.data[f]>>]>>
    BY <1>7, ClockTypes DEF DataToJson
  <2>2. /\ json[1] = "object" /\ DOMAIN json[2] = Fields[t]
        /\ \A f \in Fields[t] : json[2][f] = <<"number", v.data[f]>>
    BY <2>1
  <2> HIDE DEF json
  <2>3. ParseData(t, json) = ParseFields(t, json)  BY <1>7, ClockTypes DEF ParseData
  <2>4. \A f \in Fields[t] : json[2][f][2] = v.data[f]  BY <2>2
  <2>5. \A f \in Fields[t] : Take(json, f) # {}  BY <2>2 DEF Take, Is
  <2>6. v.data \in [Fields[t] -> Int]  BY <1>7 DEF IsPlain
  <2>7. [f \in Fields[t] |-> json[2][f][2]] = v.data  BY <2>4, <2>6
  <2>8. t = "Color" => v.data.s \in 0 .. 1000 /\ v.data.v \in 0 .. 1000  BY DEF IsPlain
  <2>9. ParseFields(t, json) = {v.data}
    <3> DEFINE InRange(d) == t = "Color" => d.s \in 0 .. 1000 /\ d.v \in 0 .. 1000
    <3>1. ParseFields(t, json) = {d \in {[f \in Fields[t] |-> json[2][f][2]]} : InRange(d)}
      BY <2>5 DEF ParseFields
    <3>2. InRange(v.data)  BY <2>8
    <3> HIDE DEF InRange
    <3> QED  BY <2>7, <3>1, <3>2
  <2> QED  BY <1>7, <2>3, <2>9, ClockTypes DEF json
<1> QED  BY <1>1, <1>2, <1>3, <1>4, <1>5, <1>6, <1>7, ClockTypes

(* A value is read back from the document written for it, a duration        *)
(* perhaps a millisecond shorter.                                           *)
LEMMA ValueReadBack ==
  ASSUME NEW v, IsPlain(v)
  PROVE  ParseValue(ValueToJson(v)) =
           IF v.type = "Duration" THEN {Data("Duration", d) : d \in ParseDuration(<<"number", v.data>>)}
           ELSE {v}
<1>1. v.type \in Type \ {"Range"} /\ v = Data(v.type, v.data)
  <2>1. v = Data(v.type, v.data)  BY DEF IsPlain
  <2>5. v.type \in {"Unit"} \cup Numeric \cup DOMAIN Constants \cup DOMAIN Fields
    BY DEF IsPlain
  <2>2. "Unit" \in Type \ {"Range"} /\ \A t \in Numeric : t \in Type /\ t # "Range"
    BY DEF Type, Numeric
  <2>3. DOMAIN Constants \subseteq Type \ {"Range"}  BY ClockTypes
  <2>4. DOMAIN Fields \subseteq Type \ {"Range"}  BY ClockTypes
  <2> QED  BY <2>1, <2>2, <2>3, <2>4, <2>5
<1> DEFINE json == ValueToJson(v)
<1>2. /\ Is(json, "object") /\ ~Is(json, "null") /\ ~Is(json, "string")
      /\ DOMAIN json[2] = {v.type} /\ json[2][v.type] = DataToJson(v)
  BY ObjectFields DEF ValueToJson
<1> HIDE DEF json
<1>3. {x \in DOMAIN json[2] \cap (Type \ {"Range"}) : DOMAIN json[2] = {x}} = {v.type}
  BY <1>1, <1>2
<1>4. ParseValue(json) = {Data(v.type, d) : d \in ParseData(v.type, DataToJson(v))}
  BY <1>2, <1>3 DEF ParseValue
<1> QED  BY <1>1, <1>4, DataReadBack DEF json

LEMMA PlainDuration ==
  ASSUME NEW v, IsPlain(v), v.type = "Duration"
  PROVE  v = Data("Duration", v.data) /\ v.data \in Nat
<1>1. "Duration" \in Numeric  BY DEF Numeric
<1>2. v = Data(v.type, v.data) /\ (v.type \in Numeric => v.data \in Nat)  BY DEF IsPlain
<1> QED  BY <1>1, <1>2

(* A plain value, or one that has lost a fraction of its last second.       *)
Near(v, p) ==
  IF At(p).type = "Duration"
  THEN /\ v = Data("Duration", v.data) /\ v.data \in Nat
       /\ v.data <= At(p).data /\ v.data \div 1000 = At(p).data \div 1000
  ELSE v = At(p)

LEMMA NearIsPlain ==
  ASSUME NEW p \in Place, NEW v, Near(v, p)
  PROVE  IsPlain(v) /\ v.type = At(p).type
<1>1. IsPlain(At(p))  BY TripsAssumption
<1>2. CASE At(p).type = "Duration"
  <2>1. v = Data("Duration", v.data) /\ v.data \in Nat  BY <1>2 DEF Near
  <2>2. v.type = "Duration"  BY <2>1 DEF Data
  <2> QED  BY <1>2, <2>1, <2>2, ClockTypes DEF IsPlain
<1>3. CASE At(p).type # "Duration"
  BY <1>1, <1>3 DEF Near
<1> QED  BY <1>2, <1>3

LEMMA DurationReadBack ==
  ASSUME NEW n \in Nat
  PROVE  /\ ParseDuration(<<"number", n>>) # {}
         /\ \A d \in ParseDuration(<<"number", n>>) :
              d \in Nat /\ d <= n /\ d \div 1000 = n \div 1000
<1>1. ParseDuration(<<"number", n>>) = IF n % 1000 = 0 THEN {n} ELSE {n, n - 1}
  BY DEF ParseDuration, Is
<1>2. n % 1000 # 0 => n - 1 \in Nat /\ (n - 1) \div 1000 = n \div 1000
  OBVIOUS
<1> QED  BY <1>1, <1>2

(* A trip leaves a value as near as it was.                                 *)
LEMMA NearReadBack ==
  ASSUME NEW p \in Place, NEW v, Near(v, p)
  PROVE  /\ ParseValue(ValueToJson(v)) # {}
         /\ \A w \in ParseValue(ValueToJson(v)) : Near(w, p)
<1>1. IsPlain(v) /\ v.type = At(p).type  BY NearIsPlain
<1>2. CASE v.type = "Duration"
  <2> DEFINE D == ParseDuration(<<"number", v.data>>)
  <2>1. ParseValue(ValueToJson(v)) = {Data("Duration", d) : d \in D}
    BY <1>1, <1>2, ValueReadBack
  <2>2. v.data \in Nat /\ v.data <= At(p).data /\ v.data \div 1000 = At(p).data \div 1000
    BY <1>1, <1>2 DEF Near
  <2>3. D # {} /\ \A d \in D : d \in Nat /\ d <= v.data /\ d \div 1000 = v.data \div 1000
    BY <2>2, DurationReadBack
  <2> HIDE DEF D
  <2>4. At(p).data \in Nat
    BY <1>1, <1>2, TripsAssumption, PlainDuration
  <2>5. ASSUME NEW d \in D PROVE Near(Data("Duration", d), p)
    <3>1. d \in Nat /\ d <= At(p).data /\ d \div 1000 = At(p).data \div 1000
      BY <2>2, <2>3, <2>4
    <3>2. Data("Duration", d).data = d  BY DEF Data
    <3> QED  BY <1>1, <1>2, <3>1, <3>2 DEF Near
  <2> QED  BY <2>1, <2>3, <2>5
<1>3. CASE v.type # "Duration"
  <2>1. ParseValue(ValueToJson(v)) = {v}  BY <1>1, <1>3, ValueReadBack
  <2> QED  BY <2>1
<1> QED  BY <1>2, <1>3

(* The bounds of a range keep their sides.                                  *)
RangeNear(r, form, p, q) ==
  /\ r = RangeOf(form, r.min, r.max)
  /\ Near(r.min, p) /\ Near(r.max, q)

LEMMA RangeReadBack ==
  ASSUME NEW form \in Form, NEW p \in Place, NEW q \in Place, form \notin TwoBounds => p = q,
         NEW r, RangeNear(r, form, p, q)
  PROVE  /\ ParseRange(RangeToJson(r)) # {}
         /\ \A s \in ParseRange(RangeToJson(r)) : RangeNear(s, form, p, q)
<1>1. r.form = form /\ Near(r.min, p) /\ Near(r.max, q)  BY DEF RangeNear, RangeOf
<1> DEFINE json == RangeToJson(r)
<1>2. CASE form \in TwoBounds
  <2> DEFINE bounds == <<"array", <<ValueToJson(r.min), ValueToJson(r.max)>>>>
  <2>1. json = Object(form, bounds)  BY <1>1, <1>2 DEF RangeToJson, TwoBounds
  <2>2. Is(json, "object") /\ DOMAIN json[2] = {form} /\ json[2][form] = bounds
    BY <2>1, ObjectFields
  <2>3. /\ Is(bounds, "array") /\ Len(bounds[2]) = 2
        /\ bounds[2][1] = ValueToJson(r.min) /\ bounds[2][2] = ValueToJson(r.max)
    BY DEF Is
  <2> HIDE DEF json, bounds
  <2>4. {x \in Form : Is(json, "object") /\ DOMAIN json[2] = {x}} = {form}  BY <2>2
  <2>5. ParseRange(json) = {RangeOf(form, min, max) :
          min \in ParseValue(ValueToJson(r.min)), max \in ParseValue(ValueToJson(r.max))}
    BY <1>2, <2>2, <2>3, <2>4 DEF ParseRange
  <2>6. /\ ParseValue(ValueToJson(r.min)) # {} /\ ParseValue(ValueToJson(r.max)) # {}
        /\ \A v \in ParseValue(ValueToJson(r.min)) : Near(v, p)
        /\ \A v \in ParseValue(ValueToJson(r.max)) : Near(v, q)
    BY <1>1, NearReadBack
  <2>7. ASSUME NEW v, Near(v, p), NEW w, Near(w, q) PROVE RangeNear(RangeOf(form, v, w), form, p, q)
    BY <2>7 DEF RangeNear, RangeOf
  <2>8. ASSUME NEW s \in ParseRange(json) PROVE RangeNear(s, form, p, q)
    <3>1. PICK v \in ParseValue(ValueToJson(r.min)), w \in ParseValue(ValueToJson(r.max)) :
            s = RangeOf(form, v, w)
      BY <2>5
    <3> QED  BY <2>6, <2>7, <3>1
  <2>9. ParseRange(json) # {}
    <3>1. PICK v, w : v \in ParseValue(ValueToJson(r.min)) /\ w \in ParseValue(ValueToJson(r.max))
      BY <2>6
    <3>2. RangeOf(form, v, w) \in ParseRange(json)  BY <2>5, <3>1
    <3> QED  BY <3>2
  <2> QED  BY <2>8, <2>9 DEF json
<1>3. CASE form \notin TwoBounds
  <2> DEFINE v == IF form = "Leq" THEN r.max ELSE r.min
  <2>1. json = Object(form, ValueToJson(v))  BY <1>1, <1>3 DEF RangeToJson, TwoBounds, Form
  <2>2. Is(json, "object") /\ DOMAIN json[2] = {form} /\ json[2][form] = ValueToJson(v)
    BY <2>1, ObjectFields
  <2>3. Near(v, p) /\ p = q  BY <1>1, <1>3
  <2> HIDE DEF json, v
  <2>4. {x \in Form : Is(json, "object") /\ DOMAIN json[2] = {x}} = {form}  BY <2>2
  <2>5. ParseRange(json) = {RangeOf(form, w, w) : w \in ParseValue(ValueToJson(v))}
    BY <1>3, <2>2, <2>4 DEF ParseRange
  <2>6. /\ ParseValue(ValueToJson(v)) # {}
        /\ \A w \in ParseValue(ValueToJson(v)) : Near(w, p)
    BY <2>3, NearReadBack
  <2>7. ASSUME NEW w, Near(w, p) PROVE RangeNear(RangeOf(form, w, w), form, p, q)
    BY <2>3, <2>7 DEF RangeNear, RangeOf
  <2> QED  BY <2>5, <2>6, <2>7 DEF json
<1> QED  BY <1>2, <1>3

(* As a filter it is read back as itself, and not as a value.               *)
LEMMA FilterReadBack ==
  ASSUME NEW json, NEW f \in ParseFilter(Object("range", Object("Range", json))), f.is = "Exactly"
  PROVE  f.value.data \in ParseRange(json)
<1> DEFINE R == Object("Range", json)
<1>1. Take(Object("range", R), "range") = {R}  BY ObjectFields
<1>2. Is(R, "object") /\ ~Is(R, "null") /\ ~Is(R, "string")
      /\ DOMAIN R[2] = {"Range"} /\ R[2]["Range"] = json
  BY ObjectFields
<1> HIDE DEF R
<1>3. R # Null /\ R # <<"string", "Never">>  BY <1>2 DEF Is, Null
<1>4. ParseValue(R) = {}
  <2>1. {x \in DOMAIN R[2] \cap (Type \ {"Range"}) : DOMAIN R[2] = {x}} = {}  BY <1>2
  <2> QED  BY <1>2, <2>1 DEF ParseValue
<1>5. ParseRangeValue(R) = {Data("Range", r) : r \in ParseRange(json)}
  BY <1>2 DEF ParseRangeValue
<1>6. {R} \notin {{}, {Null}} /\ {R} # {<<"string", "Never">>}  BY <1>3
<1>7. ParseFilter(Object("range", R)) =
        {[is |-> "Exactly", value |-> v] : v \in UNION {ParseValue(x) \cup ParseRangeValue(x) : x \in {R}}}
  BY <1>1, <1>6 DEF ParseFilter
<1>8. UNION {ParseValue(x) \cup ParseRangeValue(x) : x \in {R}} = ParseRangeValue(R)  BY <1>4
<1>9. PICK r \in ParseRange(json) : f.value = Data("Range", r)  BY <1>5, <1>7, <1>8 DEF R
<1> QED  BY <1>9 DEF Data

LEMMA PayloadReadBack ==
  ASSUME NEW v, NEW json \in Payloads(v)
  PROVE  ParsePayload(json) = ParseValue(ValueToJson(v))
<1> DEFINE J == ValueToJson(v)
<1>1. CASE json = Object("value", J)
  <2>1. Is(json, "object") /\ ~Is(json, "array") /\ Take(json, "value") = {J}  BY <1>1, ObjectFields
  <2> HIDE DEF J
  <2> QED  BY <2>1 DEF ParsePayload, J
<1>2. CASE json = <<"array", <<Null, J>>>>
  <2>1. /\ Is(json, "array") /\ ~Is(json, "object")
        /\ Len(json[2]) = 2 /\ json[2][2] = J
    BY <1>2 DEF Is
  <2> HIDE DEF J
  <2>2. {json[2][i] : i \in {2} \cap {Len(json[2])}} = {J}  BY <2>1
  <2> QED  BY <2>1, <2>2 DEF ParsePayload, J
<1> QED  BY <1>1, <1>2 DEF Payloads

(* Kinds of channels are read back as they were.                            *)
IsKind(k) ==
  \/ \E name \in DOMAIN KindType : k = StandardKind(name)
  \/ k = ExtensionKind(k.vendor, k.adapter, k.kind, k.type) /\ k.type \in Type

LEMMA KindReadBack ==
  ASSUME NEW k, IsKind(k)
  PROVE  ParseKind(KindToJson(k)) = {k}
<1>1. ASSUME NEW name \in DOMAIN KindType, k = StandardKind(name) PROVE ParseKind(KindToJson(k)) = {k}
  <2>1. k.is = name /\ name # "Extension"  BY <1>1 DEF StandardKind, KindType
  <2>2. KindToJson(k) = <<"string", name>>  BY <2>1 DEF KindToJson
  <2> QED  BY <1>1, <2>2 DEF ParseKind, Is
<1>2. CASE k = ExtensionKind(k.vendor, k.adapter, k.kind, k.type) /\ k.type \in Type
  <2> DEFINE F == {"vendor", "adapter", "kind", "type"}
  <2> DEFINE json == KindToJson(k)
  <2>1. k.is = "Extension" /\ DOMAIN k = {"is", "vendor", "adapter", "kind", "type"}
    BY <1>2 DEF ExtensionKind
  <2>2. json = <<"object", [f \in DOMAIN k \ {"is"} |-> <<"string", k[f]>>]>>
    BY <2>1 DEF KindToJson
  <2>3. DOMAIN k \ {"is"} = F  BY <2>1
  <2>4. /\ Is(json, "object") /\ ~Is(json, "string")
        /\ DOMAIN json[2] = F /\ \A f \in F : json[2][f] = <<"string", k[f]>>
    BY <2>2, <2>3 DEF Is
  <2> HIDE DEF json
  <2>5. \A f \in F : Take(json, f) = {<<"string", k[f]>>}  BY <2>4 DEF Take
  <2>6. \A x : ParseString(<<"string", x>>) = {x}  BY DEF ParseString, Is
  <2>7. ParseType(<<"string", k.type>>) = {k.type}  BY <1>2 DEF ParseType, Is
  <2>8. ASSUME NEW f \in F
        PROVE  UNION {ParseString(x) : x \in Take(json, f)} = {k[f]}
    <3>1. Take(json, f) = {<<"string", k[f]>>}  BY <2>5
    <3> QED  BY <2>6, <3>1
  <2>9. UNION {ParseType(x) : x \in Take(json, "type")} = {k["type"]}
    <3>1. Take(json, "type") = {<<"string", k["type"]>>}  BY <2>5
    <3> QED  BY <2>7, <3>1
  <2>10. /\ UNION {ParseString(x) : x \in Take(json, "vendor")} = {k["vendor"]}
         /\ UNION {ParseString(x) : x \in Take(json, "adapter")} = {k["adapter"]}
         /\ UNION {ParseString(x) : x \in Take(json, "kind")} = {k["kind"]}
    BY <2>8
  <2>11. ParseKind(json) = {ExtensionKind(k["vendor"], k["adapter"], k["kind"], k["type"])}
    BY <2>4, <2>9, <2>10 DEF ParseKind
  <2> QED  BY <1>2, <2>11 DEF json
<1> QED  BY <1>1, <1>2 DEF IsKind

-----------------------------------------------------------------------------
(* The inductive invariant.                                                *)

TripsInv ==
  /\ askedForm \in Form /\ askedMin \in Place /\ askedMax \in Place /\ home \in Place
  /\ askedForm \notin TwoBounds => askedMin = askedMax
  /\ RangeNear(range, askedForm, askedMin, askedMax)
  /\ Near(visitor, home)
  /\ IsKind(askedKind) /\ channelKind = askedKind

LEMMA AsAsked ==
  ASSUME NEW p \in Place
  PROVE  Near(At(p), p)
<1>1. IsPlain(At(p))  BY TripsAssumption
<1>2. CASE At(p).type = "Duration"
  <2>1. At(p) = Data("Duration", At(p).data) /\ At(p).data \in Nat  BY <1>1, <1>2, PlainDuration
  <2>2. At(p).data <= At(p).data  BY <2>1
  <2> QED  BY <1>2, <2>1, <2>2 DEF Near
<1>3. CASE At(p).type # "Duration"  BY <1>3 DEF Near
<1> QED  BY <1>2, <1>3

LEMMA TripsInvInit == TripsInit => TripsInv
<1> SUFFICES ASSUME TripsInit PROVE TripsInv  OBVIOUS
<1>1. /\ askedForm \in Form /\ askedMin \in Place /\ askedMax \in Place /\ home \in Place
      /\ askedForm \notin TwoBounds => askedMin = askedMax
  BY DEF TripsInit
<1>2. RangeNear(range, askedForm, askedMin, askedMax)
  BY <1>1, AsAsked DEF TripsInit, RangeNear, RangeOf
<1>3. Near(visitor, home)  BY <1>1, AsAsked DEF TripsInit
<1>4. IsKind(askedKind) /\ channelKind = askedKind
  BY TripsAssumption DEF TripsInit, IsKind
<1> QED  BY <1>1, <1>2, <1>3, <1>4 DEF TripsInv

LEMMA TripsInvStep == TripsInv /\ [TripsNext]_tripVars => TripsInv'
<1> SUFFICES ASSUME TripsInv, [TripsNext]_tripVars PROVE TripsInv'  OBVIOUS
<1>1. UNCHANGED askedVars
  BY DEF TripsNext, RangeTravels, ValueTravels, KindTravels, tripVars
<1>2. /\ askedForm \in Form /\ askedMin \in Place /\ askedMax \in Place /\ home \in Place
      /\ askedForm \notin TwoBounds => askedMin = askedMax
      /\ RangeNear(range, askedForm, askedMin, askedMax) /\ Near(visitor, home)
      /\ IsKind(askedKind) /\ channelKind = askedKind
  BY DEF TripsInv
<1> SUFFICES RangeNear(range', askedForm, askedMin, askedMax) /\ Near(visitor', home)
             /\ channelKind' = askedKind
  BY <1>1, <1>2 DEF TripsInv, askedVars
<1>3. CASE RangeTravels
  <2>1. PICK f \in ParseFilter(Object("range", Object("Range", RangeToJson(range)))) :
          f.is = "Exactly" /\ range' = f.value.data
    BY <1>3 DEF RangeTravels
  <2>2. range' \in ParseRange(RangeToJson(range))  BY <2>1, FilterReadBack
  <2>3. RangeNear(range', askedForm, askedMin, askedMax)  BY <1>2, <2>2, RangeReadBack
  <2> QED  BY <1>2, <1>3, <2>3 DEF RangeTravels
<1>4. CASE ValueTravels
  <2>1. PICK json \in Payloads(visitor) : visitor' \in ParsePayload(json)
    BY <1>4 DEF ValueTravels
  <2>2. visitor' \in ParseValue(ValueToJson(visitor))  BY <2>1, PayloadReadBack
  <2>3. Near(visitor', home)  BY <1>2, <2>2, NearReadBack
  <2> QED  BY <1>2, <1>4, <2>3 DEF ValueTravels
<1>5. CASE KindTravels
  <2>1. channelKind' = channelKind  BY <1>2, <1>5, KindReadBack DEF KindTravels
  <2> QED  BY <1>2, <1>5, <2>1 DEF KindTravels
<1>6. CASE UNCHANGED tripVars  BY <1>2, <1>6 DEF tripVars
<1> QED  BY <1>3, <1>4, <1>5, <1>6 DEF TripsNext

(* No document that is written is refused when it is read.                  *)
THEOREM TripsTypeCorrect == TripsSpec => []TripsTypeOK
<1>1. TripsInv => TripsTypeOK
  <2> SUFFICES ASSUME TripsInv PROVE TripsTypeOK  OBVIOUS
  <2>1. askedForm = range.form /\ Near(range.min, askedMin) /\ Near(range.max, askedMax)
    BY DEF TripsInv, RangeNear, RangeOf
  <2>2. /\ range.min.type = At(askedMin).type /\ range.max.type = At(askedMax).type
        /\ visitor.type = At(home).type
    BY <2>1, NearIsPlain DEF TripsInv
  <2>3. ParseRange(RangeToJson(range)) # {}  BY RangeReadBack DEF TripsInv
  <2>4. ASSUME NEW json \in Payloads(visitor) PROVE ParsePayload(json) # {}
    BY PayloadReadBack, NearReadBack DEF TripsInv
  <2>5. ParseKind(KindToJson(channelKind)) # {}  BY KindReadBack DEF TripsInv
  <2> QED  BY <2>1, <2>2, <2>3, <2>4, <2>5 DEF TripsTypeOK
<1> QED  BY <1>1, TripsInvInit, TripsInvStep, PTL DEF TripsSpec

LEMMA NotFractional ==
  ASSUME NEW p \in Place, ~Fractional(p), NEW v, Near(v, p)
  PROVE  v = At(p)
<1>1. CASE At(p).type = "Duration"
  <2>1. IsPlain(At(p))  BY TripsAssumption
  <2>2. At(p) = Data("Duration", At(p).data) /\ At(p).data \in Nat
    BY <1>1, <2>1, PlainDuration
  <2>3. /\ v = Data("Duration", v.data) /\ v.data \in Nat
        /\ v.data <= At(p).data /\ v.data \div 1000 = At(p).data \div 1000
    BY <1>1 DEF Near
  <2>4. At(p).data % 1000 = 0  BY <1>1 DEF Fractional
  <2>5. v.data = At(p).data  BY <2>2, <2>3, <2>4
  <2> QED  BY <2>2, <2>3, <2>5
<1>2. CASE At(p).type # "Duration"  BY <1>2 DEF Near
<1> QED  BY <1>1, <1>2

LEMMA Compared ==
  ASSUME NEW p \in Place, NEW q \in Place
  PROVE  /\ Lt(At(p), At(q)) <=> Under(p, q)
         /\ Le(At(p), At(q)) <=> UpTo(p, q)
         /\ ValueEq(At(p), At(q)) <=> p = q
<1>1. /\ PartialCmp(At(p), At(q)) =
           IF p[1] # q[1] THEN "none"
           ELSE IF p[2] < q[2] THEN "less"
           ELSE IF p[2] = q[2] THEN "equal" ELSE "greater"
      /\ ValueEq(At(p), At(q)) <=> p = q
      /\ p[2] \in Nat /\ q[2] \in Nat
  BY TripsAssumption
<1> QED  BY <1>1 DEF Lt, Le, Under, UpTo

(* A range accepts a value as documented, `Range` of                        *)
(* src/components/taxonomy/src/values.rs, after any number of trips of      *)
(* either; durations keep their second, and kinds are read back as written. *)
THEOREM TripsAsDocumented == TripsSpec => []TravelsAsDocumented
<1>1. TripsInv => TravelsAsDocumented
  <2> SUFFICES ASSUME TripsInv PROVE TravelsAsDocumented  OBVIOUS
  <2>1. /\ askedForm \in Form /\ askedMin \in Place /\ askedMax \in Place /\ home \in Place
        /\ range = RangeOf(askedForm, range.min, range.max)
        /\ Near(range.min, askedMin) /\ Near(range.max, askedMax) /\ Near(visitor, home)
        /\ channelKind = askedKind
    BY DEF TripsInv, RangeNear
  <2>2. ASSUME NEW p \in Place, NEW v, Near(v, p) PROVE SameSecond(v, p)
    BY <2>2, NearIsPlain DEF Near, SameSecond
  <2>3. visitor.type = At(home).type  BY <2>1, NearIsPlain
  <2>4. ASSUME ~Fractional(askedMin), ~Fractional(askedMax), ~Fractional(home)
        PROVE  Contains(range, visitor) <=> Accepts(askedForm, askedMin, askedMax, home)
    <3>1. visitor = At(home) /\ range = RangeOf(askedForm, At(askedMin), At(askedMax))
      BY <2>1, <2>4, NotFractional
    <3>2. /\ range.form = askedForm /\ range.min = At(askedMin) /\ range.max = At(askedMax)
      BY <3>1 DEF RangeOf
    <3>3. \A p \in Place : p[2] \in Nat  BY TripsAssumption
    <3>4. UpTo(askedMin, home) /\ UpTo(home, askedMax) => ~Under(askedMax, askedMin)
      BY <2>1, <3>3 DEF UpTo, Under
    <3> QED  BY <2>1, <3>1, <3>2, <3>4, Compared DEF Contains, Accepts, Form
  <2> QED  BY <2>1, <2>2, <2>3, <2>4 DEF TravelsAsDocumented
<1> QED  BY <1>1, TripsInvInit, TripsInvStep, PTL DEF TripsSpec

-----------------------------------------------------------------------------
(* The clock.  First the arithmetic of the time of day.                    *)

TimeOfDay(t) == t % Day

LEMMA DivMod ==
  ASSUME NEW x \in Int
  PROVE  /\ TimeOfDay(x) \in 0 .. Day - 1
         /\ x \div Day \in Int /\ x = Day * (x \div Day) + TimeOfDay(x)
  BY ClockAssumption DEF TimeOfDay

LEMMA ModUnique ==
  ASSUME NEW q \in Int, NEW r \in 0 .. Day - 1, NEW y, y = Day * q + r
  PROVE  TimeOfDay(y) = r
<1>1. Day \in Nat /\ Day > 0 /\ r \in Int /\ y \in Int  BY ClockAssumption
<1>2. PICK p \in Int, s \in 0 .. Day - 1 : y = Day * p + s /\ s = TimeOfDay(y)
  BY <1>1, DivMod
<1>3. s \in Int  BY <1>1
<1>4. ASSUME NEW k \in Int, NEW l \in Int, k < l
      PROVE  Day * k + Day <= Day * l
  <2>1. l - k - 1 \in Nat  BY <1>4
  <2>2. Day * (l - k - 1) \in Nat  BY <1>1, <2>1
  <2>3. Day * (l - k - 1) = Day * l - Day * k - Day  BY <1>1
  <2>4. Day * l \in Int /\ Day * k \in Int  BY <1>1
  <2> QED  BY <1>1, <2>2, <2>3, <2>4
<1>5. Day * p \in Int /\ Day * q \in Int  BY <1>1
<1>6. ~ (p < q)
  <2> SUFFICES ASSUME p < q PROVE FALSE  OBVIOUS
  <2>1. Day * p + Day <= Day * q  BY <1>4
  <2> QED  BY <1>1, <1>2, <1>3, <1>5, <2>1
<1>7. ~ (q < p)
  <2> SUFFICES ASSUME q < p PROVE FALSE  OBVIOUS
  <2>1. Day * q + Day <= Day * p  BY <1>4
  <2> QED  BY <1>1, <1>2, <1>3, <1>5, <2>1
<1>8. p = q  BY <1>6, <1>7
<1> DEFINE whole == Day * q
<1>9. Day * p = whole  BY <1>8
<1> HIDE DEF whole
<1>10. whole \in Int  BY <1>5 DEF whole
<1>11. y = whole + s /\ y = whole + r  BY <1>2, <1>9 DEF whole
<1>12. s = r  BY <1>1, <1>3, <1>10, <1>11
<1> QED  BY <1>2, <1>12

(* The time of day of an instant, from a midnight m near it.                *)
LEMMA FromMidnight ==
  ASSUME NEW m \in Int, TimeOfDay(m) = 0, NEW y \in Int
  PROVE  /\ y - m \in 0 .. Day - 1 => TimeOfDay(y) = y - m
         /\ y - m \in Day .. Day + Day - 1 => TimeOfDay(y) = y - m - Day
         /\ y - m \in - Day .. - 1 => TimeOfDay(y) = y - m + Day
<1>0. Day \in Int /\ 0 < Day  BY ClockAssumption
<1> DEFINE q == m \div Day
<1>1. q \in Int /\ m = Day * q
  <2>1. q \in Int /\ m = Day * q + TimeOfDay(m)  BY DivMod
  <2> HIDE DEF q
  <2>2. Day * q + 0 = Day * q  BY <1>0, <2>1
  <2> QED  BY <2>1, <2>2
<1> HIDE DEF q
<1>2. Day * (q + 1) = m + Day /\ Day * (q - 1) = m - Day /\ q + 1 \in Int /\ q - 1 \in Int
  BY <1>0, <1>1
<1>3. ASSUME y - m \in 0 .. Day - 1 PROVE TimeOfDay(y) = y - m
  <2>1. y = Day * q + (y - m)  BY <1>0, <1>1
  <2> QED  BY <1>1, <1>3, <2>1, ModUnique
<1>4. ASSUME y - m \in Day .. Day + Day - 1 PROVE TimeOfDay(y) = y - m - Day
  <2>1. y - m - Day \in 0 .. Day - 1  BY <1>0, <1>4
  <2>2. y = Day * (q + 1) + (y - m - Day)  BY <1>0, <1>2
  <2> QED  BY <1>2, <2>1, <2>2, ModUnique
<1>5. ASSUME y - m \in - Day .. - 1 PROVE TimeOfDay(y) = y - m + Day
  <2>1. y - m + Day \in 0 .. Day - 1  BY <1>0, <1>5
  <2>2. y = Day * (q - 1) + (y - m + Day)  BY <1>0, <1>2
  <2> QED  BY <1>2, <2>1, <2>2, ModUnique
<1> QED  BY <1>3, <1>4, <1>5

LEMMA MidnightBefore ==
  ASSUME NEW x \in Int
  PROVE  /\ TimeOfDay(x) \in 0 .. Day - 1
         /\ x - TimeOfDay(x) \in Int /\ TimeOfDay(x - TimeOfDay(x)) = 0
<1>0. Day \in Int /\ 0 < Day  BY ClockAssumption
<1>1. TimeOfDay(x) \in 0 .. Day - 1 /\ x \div Day \in Int  BY DivMod
<1>2. x - TimeOfDay(x) = Day * (x \div Day) + 0  BY <1>0, <1>1, DivMod
<1>3. 0 \in 0 .. Day - 1  BY <1>0
<1> QED  BY <1>1, <1>2, <1>3, ModUnique

(* A day later it is the same time.                                         *)
LEMMA DayLater ==
  ASSUME NEW x \in Int
  PROVE  TimeOfDay(x + Day) = TimeOfDay(x)
<1> DEFINE m == x - TimeOfDay(x)
<1>0. Day \in Int /\ 0 < Day  BY ClockAssumption
<1>1. TimeOfDay(x) \in 0 .. Day - 1 /\ m \in Int /\ TimeOfDay(m) = 0  BY MidnightBefore
<1>2. x - m = TimeOfDay(x)  BY <1>1
<1> HIDE DEF m
<1>3. x + Day \in Int /\ (x + Day) - m \in Day .. Day + Day - 1  BY <1>0, <1>1, <1>2
<1>4. TimeOfDay(x + Day) = (x + Day) - m - Day  BY <1>1, <1>3, FromMidnight
<1> QED  BY <1>0, <1>1, <1>2, <1>4

(* From an instant b to the next instant a of another time of day, it is    *)
(* later than b and earlier than a, unless midnight is between them.        *)
LEMMA Between ==
  ASSUME NEW a \in Int, NEW b \in Int, NEW n \in Int,
         a < b, b < a + Day, b - Day <= n, n < a
  PROVE  LET A == TimeOfDay(a)  B == TimeOfDay(b)  N == TimeOfDay(n)
         IN /\ A # B
            /\ B < A => B <= N /\ N < A
            /\ A < B => B <= N \/ N < A
<1> DEFINE A == TimeOfDay(a)
<1> DEFINE m == a - A
<1>0. Day \in Int /\ 0 < Day  BY ClockAssumption
<1>1. A \in 0 .. Day - 1 /\ m \in Int /\ TimeOfDay(m) = 0  BY MidnightBefore
<1>2. a = m + A /\ A \in Int /\ 0 <= A /\ A < Day  BY <1>0, <1>1
<1> HIDE DEF A, m
<1>3. /\ b - m \in 0 .. Day - 1 => TimeOfDay(b) = b - m
      /\ b - m \in Day .. Day + Day - 1 => TimeOfDay(b) = b - m - Day
      /\ n - m \in 0 .. Day - 1 => TimeOfDay(n) = n - m
      /\ n - m \in - Day .. - 1 => TimeOfDay(n) = n - m + Day
  BY <1>1, FromMidnight
<1>4. b - m > A /\ b - m < A + Day /\ b - m \in 0 .. Day + Day - 1  BY <1>0, <1>1, <1>2
<1>5. n - m < A /\ n - m >= b - m - Day /\ n - m \in - Day .. Day - 1  BY <1>0, <1>1, <1>2, <1>4
<1>6. CASE b - m < Day
  <2>1. TimeOfDay(b) = b - m /\ b - m > A  BY <1>0, <1>1, <1>3, <1>4, <1>6
  <2>2. CASE n - m >= 0
    <3>1. TimeOfDay(n) = n - m  BY <1>0, <1>1, <1>3, <1>5, <2>2
    <3> QED  BY <1>0, <1>1, <1>2, <1>5, <2>1, <3>1 DEF A
  <2>3. CASE n - m < 0
    <3>1. TimeOfDay(n) = n - m + Day  BY <1>0, <1>1, <1>3, <1>5, <2>3
    <3> QED  BY <1>0, <1>1, <1>2, <1>5, <2>1, <3>1 DEF A
  <2> QED  BY <1>1, <2>2, <2>3
<1>7. CASE b - m >= Day
  <2>1. TimeOfDay(b) = b - m - Day /\ b - m - Day < A  BY <1>0, <1>1, <1>3, <1>4, <1>7
  <2>2. n - m >= 0 /\ n - m \in 0 .. Day - 1  BY <1>0, <1>1, <1>4, <1>5, <1>7
  <2>3. TimeOfDay(n) = n - m  BY <1>3, <2>2
  <2> QED  BY <1>0, <1>1, <1>2, <1>5, <2>1, <2>3 DEF A
<1> QED  BY <1>0, <1>1, <1>6, <1>7

(* `get_next_date` is today or tomorrow, at the time of day it is given.    *)
LEMMA NextDateIsNext ==
  ASSUME NEW t \in Nat, NEW c \in 0 .. Day - 1
  PROVE  /\ NextDate(t, c) \in t .. t + Day - 1
         /\ TimeOfDay(NextDate(t, c)) = c
<1> DEFINE m == t - TimeOfDay(t)
<1>0. Day \in Int /\ 0 < Day  BY ClockAssumption
<1>1. TimeOfDay(t) \in 0 .. Day - 1 /\ m \in Int /\ TimeOfDay(m) = 0  BY MidnightBefore
<1>2. m <= t /\ t < m + Day  BY <1>0, <1>1
<1>3. NextDate(t, c) = IF m + c >= t THEN m + c ELSE m + c + Day  BY DEF NextDate, TimeOfDay
<1> HIDE DEF m
<1> DEFINE d == NextDate(t, c)
<1>4. CASE m + c >= t
  <2>1. d \in t .. t + Day - 1 /\ d \in Int /\ d - m = c  BY <1>0, <1>1, <1>2, <1>3, <1>4
  <2> QED  BY <1>1, <2>1, FromMidnight
<1>5. CASE m + c < t
  <2>1. d \in t .. t + Day - 1 /\ d \in Int /\ d - m = c + Day
    BY <1>0, <1>1, <1>2, <1>3, <1>5
  <2>2. d - m \in Day .. Day + Day - 1 /\ d - m - Day = c  BY <1>0, <2>1
  <2> HIDE DEF d
  <2>3. TimeOfDay(d) = c  BY <1>1, <2>1, <2>2, FromMidnight
  <2> QED  BY <2>1, <2>3 DEF d
<1> QED  BY <1>0, <1>1, <1>4, <1>5

-----------------------------------------------------------------------------
(* What register_watch accepts, and the thresholds it makes of it.          *)

Accepted(getter, bounds) ==
  /\ getter \in ClockGetter /\ bounds \in ClockRanges[getter]
  /\ AcceptsRange(getter, bounds)

TypeOfGetter(getter) == IF getter = "timestamp" THEN "TimeStamp" ELSE "Duration"

LEMMA RangeAccepted ==
  ASSUME NEW getter, NEW bounds, Accepted(getter, bounds)
  PROVE  /\ getter \in {"timeofday", "timestamp", "interval"}
         /\ bounds.form \in {"Leq", "Geq", "Eq", "BetweenEq", "OutOfStrict"}
         /\ bounds.form \notin {"BetweenEq", "OutOfStrict"} => bounds.min = bounds.max
         /\ bounds.min.data \in Nat /\ bounds.max.data \in Nat
         /\ bounds.min = V!Data(TypeOfGetter(getter), bounds.min.data)
         /\ bounds.max = V!Data(TypeOfGetter(getter), bounds.max.data)
         /\ getter = "interval" => bounds.form \in {"Eq", "Geq"}
<1>1. /\ getter \in {"timeofday", "timestamp", "interval"}
      /\ bounds.form \in V!Form
      /\ bounds.form \notin V!TwoBounds => bounds.min = bounds.max
      /\ \A v \in {bounds.min, bounds.max} :
           v.type \in {"Duration", "TimeStamp"} => v = V!Data(v.type, v.data) /\ v.data \in Nat
  BY ClockAssumption DEF Accepted, ClockGetter
<1>2. /\ V!RangeType(bounds) = {TypeOfGetter(getter)}
      /\ getter = "interval" => bounds.form \in {"Eq", "Geq"}
  BY DEF Accepted, AcceptsRange, TypeOfGetter
<1>3. /\ bounds.min.type = TypeOfGetter(getter)
      /\ bounds.form \in V!TwoBounds => bounds.max.type = TypeOfGetter(getter)
  BY <1>2 DEF V!RangeType
<1>4. bounds.max.type = TypeOfGetter(getter)  BY <1>1, <1>3
<1>5. TypeOfGetter(getter) \in {"Duration", "TimeStamp"}  BY DEF TypeOfGetter
<1>6. /\ V!Form = {"Leq", "Geq", "Eq", "BetweenEq", "OutOfStrict"}
      /\ V!TwoBounds = {"BetweenEq", "OutOfStrict"}
  BY DEF V!Form, V!TwoBounds
<1> QED  BY <1>1, <1>2, <1>3, <1>4, <1>5, <1>6

(* Durations, and dates, are compared as numbers.                           *)
LEMMA ComparedAsNumbers ==
  ASSUME NEW T \in {"Duration", "TimeStamp"}, NEW a \in Int, NEW b \in Int
  PROVE  /\ V!Lt(V!Data(T, a), V!Data(T, b)) <=> a < b
         /\ V!Le(V!Data(T, a), V!Data(T, b)) <=> a <= b
<1> DEFINE v == V!Data(T, a)
<1> DEFINE w == V!Data(T, b)
<1>1. v.type = T /\ v.data = a /\ w.type = T /\ w.data = b  BY DEF V!Data
<1> HIDE DEF v, w
<1>2. DOMAIN V!Constants = {"OnOff", "OpenClosed", "DoorLocked"}  BY DEF V!Constants
<1>3. V!SortKey(v) = <<a>> /\ V!SortKey(w) = <<b>>
  <2>1. ASSUME NEW u, u.type \in {"Duration", "TimeStamp"}
        PROVE  V!SortKey(u) = <<u.data>>
    BY <1>2, <2>1 DEF V!SortKey, V!Numeric, V!Extension
  <2> QED  BY <1>1, <1>2, <2>1
<1>4. ASSUME NEW x \in Int, NEW y \in Int
      PROVE  V!Precedes(<<x>>, <<y>>) <=> x < y
  <2>1. \A i : i \in DOMAIN <<x>> <=> i = 1  OBVIOUS
  <2>2. <<x>>[1] = x /\ <<y>>[1] = y  OBVIOUS
  <2>3. \A j : j \notin 1 .. 1 - 1  OBVIOUS
  <2> QED  BY <2>1, <2>2, <2>3 DEF V!Precedes
<1>5. V!Comparable(v, w)  BY <1>1 DEF V!Comparable, V!Extension
<1>6. V!PartialCmp(v, w) = IF a < b THEN "less" ELSE IF b < a THEN "greater" ELSE "equal"
  BY <1>1, <1>3, <1>4, <1>5 DEF V!PartialCmp
<1> QED  BY <1>6 DEF V!Lt, V!Le, v, w

(* A daily range is entered, and left, at one time of day.                  *)
EnterAt(bounds) ==
  IF bounds.form = "Leq" THEN 0
  ELSE IF bounds.form = "OutOfStrict" THEN TimeOfDay(bounds.max.data) ELSE TimeOfDay(bounds.min.data)

ExitAt(bounds) ==
  IF bounds.form = "Geq" THEN 0
  ELSE IF bounds.form = "OutOfStrict" THEN TimeOfDay(bounds.min.data) ELSE TimeOfDay(bounds.max.data)

LEMMA DailyThresholdsAre ==
  ASSUME NEW bounds, Accepted("timeofday", bounds)
  PROVE  /\ EnterAt(bounds) \in 0 .. Day - 1 /\ ExitAt(bounds) \in 0 .. Day - 1
         /\ DailyThresholds(bounds) = {Enter(EnterAt(bounds)), Exit(ExitAt(bounds))}
<1>0. Day \in Int /\ 0 < Day  BY ClockAssumption
<1>1. /\ bounds.form \in {"Leq", "Geq", "Eq", "BetweenEq", "OutOfStrict"}
      /\ bounds.min.data \in Int /\ bounds.max.data \in Int
  BY RangeAccepted
<1>2. /\ TimeOfDay(bounds.min.data) \in 0 .. Day - 1 /\ TimeOfDay(bounds.max.data) \in 0 .. Day - 1
      /\ 0 \in 0 .. Day - 1
  <2>1. \A x \in Int : TimeOfDay(x) \in 0 .. Day - 1  BY DivMod
  <2> QED  BY <1>0, <1>1, <2>1
<1>3. EnterAt(bounds) \in 0 .. Day - 1 /\ ExitAt(bounds) \in 0 .. Day - 1
  BY <1>0, <1>2 DEF EnterAt, ExitAt
<1>4. DailyThresholds(bounds) = {Enter(EnterAt(bounds)), Exit(ExitAt(bounds))}
  BY <1>1 DEF DailyThresholds, EnterAt, ExitAt, TimeOfDay
<1> QED  BY <1>3, <1>4

(* Nothing is promised when both are at the same time.                      *)
Promised(w) == w.getter = "timeofday" => EnterAt(w.range) # ExitAt(w.range)

LEMMA PromisedDates ==
  ASSUME NEW w, Accepted(w.getter, w.range), w.getter = "timeofday"
  PROVE  /\ Dates(w) = {EnterAt(w.range), ExitAt(w.range)}
         /\ Cardinality(Dates(w)) < 2 <=> ~Promised(w)
         /\ Cardinality(Dates(w)) = 2 <=> Promised(w)
<1> DEFINE e == EnterAt(w.range)
<1> DEFINE x == ExitAt(w.range)
<1>1. DailyThresholds(w.range) = {Enter(e), Exit(x)}  BY DailyThresholdsAre
<1>2. Enter(e).date = e /\ Exit(x).date = x  BY DEF Enter, Exit, Movement
<1> HIDE DEF e, x
<1>3. Dates(w) = {e, x}  BY <1>1, <1>2 DEF Dates
<1>4. Cardinality({e}) = 1
  BY FS_Singleton
<1>5. e # x => Cardinality({e, x}) = 2
  <2> SUFFICES ASSUME e # x PROVE Cardinality({e, x}) = 2  OBVIOUS
  <2>1. IsFiniteSet({x}) /\ Cardinality({x}) = 1 /\ e \notin {x}  BY FS_Singleton
  <2>2. Cardinality({x} \cup {e}) = Cardinality({x}) + 1  BY <2>1, FS_AddElement
  <2>3. {x} \cup {e} = {e, x}  OBVIOUS
  <2> QED  BY <2>1, <2>2, <2>3
<1>6. e = x => {e, x} = {e}  OBVIOUS
<1> QED  BY <1>3, <1>4, <1>5, <1>6 DEF Promised, e, x

(* A dated range is entered, and left, at most once.                        *)
LEMMA DatedThresholdsAre ==
  ASSUME NEW bounds, Accepted("timestamp", bounds)
  PROVE  /\ \A m \in DatedThresholds(bounds) :
              /\ m = Movement(m.kinds, m.date) /\ m.date \in Nat
              /\ m.kinds \in {<<"Enter">>, <<"Exit">>}
         /\ \A m, o \in DatedThresholds(bounds) : m.kinds = o.kinds => m = o
<1>1. /\ bounds.form \in {"Leq", "Geq", "Eq", "BetweenEq", "OutOfStrict"}
      /\ bounds.min.data \in Nat /\ bounds.max.data \in Nat
  BY RangeAccepted
<1>2. \A d : /\ Enter(d).kinds = <<"Enter">> /\ Enter(d).date = d
             /\ Exit(d).kinds = <<"Exit">> /\ Exit(d).date = d
             /\ Enter(d) = Movement(<<"Enter">>, d) /\ Exit(d) = Movement(<<"Exit">>, d)
  BY DEF Enter, Exit, Movement
<1>3. <<"Enter">> # <<"Exit">>  OBVIOUS
<1>4. \/ DatedThresholds(bounds) = {}
      \/ DatedThresholds(bounds) = {Enter(bounds.min.data)}
      \/ DatedThresholds(bounds) = {Exit(bounds.min.data), Enter(bounds.max.data)}
      \/ DatedThresholds(bounds) = {Enter(bounds.min.data), Exit(bounds.max.data)}
  BY <1>1 DEF DatedThresholds
<1> QED  BY <1>1, <1>2, <1>3, <1>4

-----------------------------------------------------------------------------
(* What is known of a watch w, from its timers T, the last event s that was *)
(* or is about to be sent to its watcher, and the time n.                   *)

Kinds == {<<"Enter">>, <<"Exit">>, <<"Enter", "Exit">>}

IsTimer(t) ==
  /\ t = [key |-> t.key, kinds |-> t.kinds, date |-> t.date, every |-> t.every]
  /\ t.kinds \in Kinds /\ t.date \in Nat /\ t.every \in Nat

(* A time of day has two timers, less than a day apart.  The later one is   *)
(* that which went off last.                                                *)
DailyState(bounds, T, s, n) ==
  \E a, b \in T :
    /\ T = {a, b}
    /\ a.date < b.date /\ b.date < a.date + Day
    /\ a.every = Day /\ b.every = Day
    /\ {Movement(a.kinds, TimeOfDay(a.date)), Movement(b.kinds, TimeOfDay(b.date))}
         = DailyThresholds(bounds)
    /\ s # "none" => b.kinds = <<s>> /\ b.date - Day <= n

(* A date has the timers of the thresholds to come.                         *)
DatedState(bounds, T, s, n) ==
  LET ToCome(m) == \E t \in T : t.kinds = m.kinds
  IN /\ \A t \in T :
          /\ t.every = 0 /\ Movement(t.kinds, t.date) \in DatedThresholds(bounds)
          /\ \A m \in DatedThresholds(bounds) : m.date > t.date => ToCome(m)
     /\ s # "none" =>
          \E m \in DatedThresholds(bounds) :
            /\ m.kinds = <<s>> /\ m.date <= n
            /\ \A t \in T : t.date >= m.date /\ t.kinds # m.kinds
            /\ \A o \in DatedThresholds(bounds) : o.date > m.date => ToCome(o)

(* An interval is entered and left at once.                                 *)
IntervalState(T, s) ==
  /\ \A t \in T : t.kinds = <<"Enter", "Exit">>
  /\ s \in {"none", "Exit"}

WatchState(w, T, s, n) ==
  CASE w.getter = "timeofday" -> Promised(w) => DailyState(w.range, T, s, n)
    [] w.getter = "timestamp" -> DatedState(w.range, T, s, n)
    [] w.getter = "interval" -> IntervalState(T, s)

(* The timers of a new watch, the time that passes, and a timer going off.  *)
Scheduled(k, w, t) ==
  {[key |-> k, kinds |-> x.kinds, date |-> x.date, every |-> x.every] :
     x \in Schedule(w.getter, w.range, t)}

LEMMA NewTimers ==
  ASSUME NEW k, NEW w, Accepted(w.getter, w.range), NEW n \in Nat
  PROVE  /\ \A t \in Scheduled(k, w, n) : IsTimer(t) /\ t.key = k
         /\ WatchState(w, Scheduled(k, w, n), "none", n)
<1> DEFINE T == Scheduled(k, w, n)
<1>0. Day \in Nat /\ 0 < Day  BY ClockAssumption
<1>1. ASSUME NEW x \in Schedule(w.getter, w.range, n),
             x.kinds \in Kinds, x.date \in Nat, x.every \in Nat
      PROVE  LET t == [key |-> k, kinds |-> x.kinds, date |-> x.date, every |-> x.every]
             IN IsTimer(t) /\ t.key = k
  BY <1>1 DEF IsTimer
<1>2. CASE w.getter = "timeofday"
  <2> DEFINE e == EnterAt(w.range)
  <2> DEFINE x == ExitAt(w.range)
  <2> DEFINE a == [key |-> k, kinds |-> <<"Enter">>, date |-> NextDate(n, e), every |-> Day]
  <2> DEFINE b == [key |-> k, kinds |-> <<"Exit">>, date |-> NextDate(n, x), every |-> Day]
  <2>1. /\ e \in 0 .. Day - 1 /\ x \in 0 .. Day - 1
        /\ DailyThresholds(w.range) = {Enter(e), Exit(x)}
    BY <1>2, DailyThresholdsAre
  <2>2. /\ Enter(e) = Movement(<<"Enter">>, e) /\ Exit(x) = Movement(<<"Exit">>, x)
        /\ Enter(e).kinds = <<"Enter">> /\ Enter(e).date = e
        /\ Exit(x).kinds = <<"Exit">> /\ Exit(x).date = x
    BY DEF Enter, Exit, Movement
  <2>3. T = {a, b}
    <3> DEFINE u == [kinds |-> <<"Enter">>, date |-> NextDate(n, e), every |-> Day]
    <3> DEFINE v == [kinds |-> <<"Exit">>, date |-> NextDate(n, x), every |-> Day]
    <3>1. Schedule(w.getter, w.range, n) =
            {[kinds |-> m.kinds, date |-> NextDate(n, m.date), every |-> Day] : m \in {Enter(e), Exit(x)}}
      BY <1>2, <2>1 DEF Schedule
    <3>2. Schedule(w.getter, w.range, n) = {u, v}  BY <2>2, <3>1
    <3>3. T = {[key |-> k, kinds |-> y.kinds, date |-> y.date, every |-> y.every] : y \in {u, v}}
      BY <3>2 DEF Scheduled
    <3>4. /\ u.kinds = <<"Enter">> /\ u.date = NextDate(n, e) /\ u.every = Day
          /\ v.kinds = <<"Exit">> /\ v.date = NextDate(n, x) /\ v.every = Day
      OBVIOUS
    <3> QED  BY <3>3, <3>4
  <2>4. /\ NextDate(n, e) \in n .. n + Day - 1 /\ TimeOfDay(NextDate(n, e)) = e
        /\ NextDate(n, x) \in n .. n + Day - 1 /\ TimeOfDay(NextDate(n, x)) = x
    BY <2>1, NextDateIsNext
  <2>5. /\ a.key = k /\ a.kinds = <<"Enter">> /\ a.date = NextDate(n, e) /\ a.every = Day
        /\ b.key = k /\ b.kinds = <<"Exit">> /\ b.date = NextDate(n, x) /\ b.every = Day
        /\ a = [key |-> a.key, kinds |-> a.kinds, date |-> a.date, every |-> a.every]
        /\ b = [key |-> b.key, kinds |-> b.kinds, date |-> b.date, every |-> b.every]
    OBVIOUS
  <2> HIDE DEF a, b, e, x, T
  <2>6. /\ a.date \in Nat /\ b.date \in Nat
        /\ a.date < b.date + Day /\ b.date < a.date + Day
    BY <1>0, <2>4, <2>5
  <2>7. IsTimer(a) /\ IsTimer(b)  BY <1>0, <2>5, <2>6 DEF IsTimer, Kinds
  <2>8. ASSUME Promised(w) PROVE DailyState(w.range, T, "none", n)
    <3>1. e # x  BY <1>2, <2>8 DEF Promised, e, x
    <3>2. a.date # b.date  BY <2>4, <2>5, <3>1
    <3>3. {Movement(a.kinds, TimeOfDay(a.date)), Movement(b.kinds, TimeOfDay(b.date))}
            = DailyThresholds(w.range)
      BY <2>1, <2>2, <2>4, <2>5
    <3>4. CASE a.date < b.date
      BY <2>3, <2>5, <2>6, <3>3, <3>4 DEF DailyState
    <3>5. CASE b.date < a.date
      <4>1. {Movement(b.kinds, TimeOfDay(b.date)), Movement(a.kinds, TimeOfDay(a.date))}
              = DailyThresholds(w.range) /\ T = {b, a}
        BY <2>3, <3>3
      <4> QED  BY <2>5, <2>6, <3>5, <4>1 DEF DailyState
    <3> QED  BY <2>6, <3>2, <3>4, <3>5
  <2>9. \A t \in T : IsTimer(t) /\ t.key = k  BY <2>3, <2>5, <2>7
  <2>10. WatchState(w, T, "none", n)  BY <1>2, <2>8 DEF WatchState
  <2> QED  BY <2>9, <2>10 DEF T
<1>3. CASE w.getter = "timestamp"
  <2> DEFINE ms == {m \in DatedThresholds(w.range) : m.date >= n}
  <2>1. /\ \A m \in DatedThresholds(w.range) :
             m = Movement(m.kinds, m.date) /\ m.date \in Nat /\ m.kinds \in Kinds
    BY <1>3, DatedThresholdsAre DEF Kinds
  <2>2. T = {[key |-> k, kinds |-> m.kinds, date |-> m.date, every |-> 0] : m \in ms}
    <3> DEFINE F(m) == [kinds |-> m.kinds, date |-> m.date, every |-> 0]
    <3>1. Schedule(w.getter, w.range, n) = {F(m) : m \in ms}  BY <1>3 DEF Schedule
    <3>2. T = {[key |-> k, kinds |-> y.kinds, date |-> y.date, every |-> y.every] :
                 y \in {F(m) : m \in ms}}
      BY <3>1 DEF Scheduled
    <3>3. \A m : F(m).kinds = m.kinds /\ F(m).date = m.date /\ F(m).every = 0  OBVIOUS
    <3> HIDE DEF F, ms, T
    <3>4. T = {[key |-> k, kinds |-> F(m).kinds, date |-> F(m).date, every |-> F(m).every] : m \in ms}
      BY <3>2
    <3> QED  BY <3>3, <3>4
  <2>3. ASSUME NEW t \in T
        PROVE  /\ IsTimer(t) /\ t.key = k /\ t.every = 0 /\ t.date >= n
               /\ Movement(t.kinds, t.date) \in DatedThresholds(w.range)
    <3>1. PICK m \in ms : t = [key |-> k, kinds |-> m.kinds, date |-> m.date, every |-> 0]
      BY <2>2
    <3>2. t.key = k /\ t.kinds = m.kinds /\ t.date = m.date /\ t.every = 0  BY <3>1
    <3>3. t = [key |-> t.key, kinds |-> t.kinds, date |-> t.date, every |-> t.every]  BY <3>1
    <3> QED  BY <2>1, <3>2, <3>3 DEF IsTimer
  <2>4. ASSUME NEW m \in ms PROVE \E t \in T : t.kinds = m.kinds
    <3>1. [key |-> k, kinds |-> m.kinds, date |-> m.date, every |-> 0] \in T  BY <2>2
    <3> QED  BY <3>1
  <2> HIDE DEF T
  <2>5. ASSUME NEW t \in T, NEW m \in DatedThresholds(w.range), m.date > t.date
        PROVE  m \in ms
    <3>1. t.date \in Nat /\ m.date \in Nat /\ t.date >= n  BY <2>1, <2>3 DEF IsTimer
    <3> QED  BY <2>5, <3>1
  <2>6. DatedState(w.range, T, "none", n)
    BY <2>3, <2>4, <2>5 DEF DatedState
  <2>7. WatchState(w, T, "none", n)  BY <1>3, <2>6 DEF WatchState
  <2> QED  BY <2>3, <2>7 DEF T
<1>4. CASE w.getter = "interval"
  <2> DEFINE d == w.range.min.data
  <2> DEFINE t == [key |-> k, kinds |-> <<"Enter", "Exit">>, date |-> n + d, every |-> d]
  <2>1. d \in Nat  BY RangeAccepted
  <2>2. T = {t}  BY <1>4 DEF Scheduled, Schedule
  <2>3. /\ t.key = k /\ t.kinds = <<"Enter", "Exit">> /\ t.date = n + d /\ t.every = d
        /\ t = [key |-> t.key, kinds |-> t.kinds, date |-> t.date, every |-> t.every]
    OBVIOUS
  <2> HIDE DEF d, t, T
  <2>4. IsTimer(t)  BY <2>1, <2>3 DEF IsTimer, Kinds
  <2>5. WatchState(w, T, "none", n)  BY <1>4, <2>2, <2>3 DEF WatchState, IntervalState
  <2> QED  BY <2>2, <2>3, <2>4, <2>5 DEF T
<1>5. w.getter \in {"timeofday", "timestamp", "interval"}  BY RangeAccepted
<1> QED  BY <1>2, <1>3, <1>4, <1>5

LEMMA TimePasses ==
  ASSUME NEW w, Accepted(w.getter, w.range), NEW T, \A t \in T : IsTimer(t), NEW s,
         NEW n \in Nat, NEW later \in Nat, n <= later, WatchState(w, T, s, n)
  PROVE  WatchState(w, T, s, later)
<1>1. CASE w.getter = "timeofday"
  <2>1. ASSUME DailyState(w.range, T, s, n) PROVE DailyState(w.range, T, s, later)
    <3>1. PICK a, b \in T :
            /\ T = {a, b}
            /\ a.date < b.date /\ b.date < a.date + Day
            /\ a.every = Day /\ b.every = Day
            /\ {Movement(a.kinds, TimeOfDay(a.date)), Movement(b.kinds, TimeOfDay(b.date))}
                 = DailyThresholds(w.range)
            /\ s # "none" => b.kinds = <<s>> /\ b.date - Day <= n
      BY <2>1 DEF DailyState
    <3>2. b.date \in Nat /\ Day \in Nat  BY <3>1, ClockAssumption DEF IsTimer
    <3>3. s # "none" => b.date - Day <= later  BY <3>1, <3>2
    <3> QED  BY <3>1, <3>3 DEF DailyState
  <2> QED  BY <1>1, <2>1 DEF WatchState
<1>2. CASE w.getter = "timestamp"
  <2>1. \A m \in DatedThresholds(w.range) : m.date \in Nat  BY <1>2, DatedThresholdsAre
  <2>2. \A m \in DatedThresholds(w.range) : m.date <= n => m.date <= later  BY <2>1
  <2>3. DatedState(w.range, T, s, later)  BY <1>2, <2>2 DEF WatchState, DatedState
  <2> QED  BY <1>2, <2>3 DEF WatchState
<1>3. CASE w.getter = "interval"  BY <1>3 DEF WatchState
<1>4. w.getter \in {"timeofday", "timestamp", "interval"}  BY RangeAccepted
<1> QED  BY <1>1, <1>2, <1>3, <1>4

(* The timers of a watch once one of them went off.                         *)
Again(t) == IF t.every = 0 THEN {} ELSE {[t EXCEPT !.date = @ + t.every]}
Without(T, t) == (T \ {t}) \cup Again(t)

LastOf(t) == t.kinds[Len(t.kinds)]

LEMMA AgainIsTimer ==
  ASSUME NEW t, IsTimer(t)
  PROVE  \A u \in Again(t) : /\ IsTimer(u) /\ u.key = t.key /\ u.kinds = t.kinds
                             /\ u.every = t.every /\ u.date = t.date + t.every
<1> DEFINE u == [t EXCEPT !.date = @ + t.every]
<1>1. /\ t = [key |-> t.key, kinds |-> t.kinds, date |-> t.date, every |-> t.every]
      /\ t.kinds \in Kinds /\ t.date \in Nat /\ t.every \in Nat
  BY DEF IsTimer
<1>2. u = [key |-> t.key, kinds |-> t.kinds, date |-> t.date + t.every, every |-> t.every]
  BY <1>1
<1>3. /\ u.key = t.key /\ u.kinds = t.kinds /\ u.date = t.date + t.every /\ u.every = t.every
      /\ u = [key |-> u.key, kinds |-> u.kinds, date |-> u.date, every |-> u.every]
  BY <1>2
<1> HIDE DEF u
<1>4. IsTimer(u)  BY <1>1, <1>3 DEF IsTimer
<1> QED  BY <1>3, <1>4 DEF Again, u

LEMMA DailyGoesOff ==
  ASSUME NEW bounds, Accepted("timeofday", bounds), NEW T, \A u \in T : IsTimer(u),
         NEW s, NEW n \in Nat, DailyState(bounds, T, s, n),
         NEW t \in T, t.date <= n, \A u \in T : t.date <= u.date
  PROVE  /\ t.kinds[1] # s
         /\ DailyState(bounds, Without(T, t), LastOf(t), n)
<1>0. Day \in Nat /\ 0 < Day  BY ClockAssumption
<1>1. PICK a, b \in T :
        /\ T = {a, b}
        /\ a.date < b.date /\ b.date < a.date + Day
        /\ a.every = Day /\ b.every = Day
        /\ {Movement(a.kinds, TimeOfDay(a.date)), Movement(b.kinds, TimeOfDay(b.date))}
             = DailyThresholds(bounds)
        /\ s # "none" => b.kinds = <<s>> /\ b.date - Day <= n
  BY DEF DailyState
<1>2. a.date \in Nat /\ b.date \in Nat /\ IsTimer(a) /\ IsTimer(b)  BY <1>1 DEF IsTimer
<1>3. t = a
  <2>1. t = b => b.date <= a.date  BY <1>1
  <2> QED  BY <1>1, <1>2, <2>1
<1>4. PICK e, x : DailyThresholds(bounds) = {Enter(e), Exit(x)}  BY DailyThresholdsAre
<1>5. /\ \A d, y : Movement(d, y).kinds = d
      /\ Enter(e).kinds = <<"Enter">> /\ Exit(x).kinds = <<"Exit">>
  BY DEF Movement, Enter, Exit
<1>6. {a.kinds, b.kinds} = {<<"Enter">>, <<"Exit">>}
  <2> DEFINE p == Movement(a.kinds, TimeOfDay(a.date))
  <2> DEFINE q == Movement(b.kinds, TimeOfDay(b.date))
  <2>1. p.kinds = a.kinds /\ q.kinds = b.kinds  BY <1>5
  <2>2. {p, q} = {Enter(e), Exit(x)}  BY <1>1, <1>4
  <2> HIDE DEF p, q
  <2>3. \/ p = Enter(e) /\ q = Exit(x)
        \/ p = Exit(x) /\ q = Enter(e)
    BY <1>5, <2>2
  <2> QED  BY <1>5, <2>1, <2>3
<1>7. /\ <<"Enter">>[1] = "Enter" /\ <<"Enter">>[Len(<<"Enter">>)] = "Enter"
      /\ <<"Exit">>[1] = "Exit" /\ <<"Exit">>[Len(<<"Exit">>)] = "Exit"
      /\ <<"Enter">> # <<"Exit">>
  OBVIOUS
<1>8. a.kinds # b.kinds /\ a.kinds = <<a.kinds[1]>> /\ LastOf(a) = a.kinds[1] /\ a.kinds[1] # "none"
  <2> DEFINE E == <<"Enter">>
  <2> DEFINE F == <<"Exit">>
  <2> DEFINE p == a.kinds
  <2> DEFINE q == b.kinds
  <2>1. /\ E # F
        /\ E = <<E[1]>> /\ E[Len(E)] = E[1] /\ E[1] # "none"
        /\ F = <<F[1]>> /\ F[Len(F)] = F[1] /\ F[1] # "none"
    BY <1>7
  <2>2. {p, q} = {E, F}  BY <1>6
  <2>3. LastOf(a) = p[Len(p)]  BY DEF LastOf
  <2> HIDE DEF E, F, p, q
  <2>4. p # q /\ (p = E \/ p = F)  BY <2>1, <2>2
  <2>5. p = <<p[1]>> /\ p[Len(p)] = p[1] /\ p[1] # "none"  BY <2>1, <2>4
  <2> QED  BY <2>3, <2>4, <2>5 DEF p, q
<1>9. t.kinds[1] # s
  <2>1. s # "none" => b.kinds = <<s>>  BY <1>1
  <2>2. a.kinds[1] = s => a.kinds = <<s>>  BY <1>8
  <2> QED  BY <1>3, <1>8, <2>1, <2>2
<1>10. DailyState(bounds, Without(T, t), LastOf(t), n)
  <2> DEFINE c == [a EXCEPT !.date = @ + a.every]
  <2>1. Again(a) = {c}  BY <1>0, <1>1 DEF Again
  <2>2. c.kinds = a.kinds /\ c.every = Day /\ c.date = a.date + Day  BY <1>1, <1>2, <2>1, AgainIsTimer
  <2> HIDE DEF c
  <2>3. Without(T, t) = {b, c}
    <3>1. a # b  BY <1>1, <1>2
    <3> QED  BY <1>1, <1>3, <2>1, <3>1 DEF Without
  <2>4. TimeOfDay(c.date) = TimeOfDay(a.date)  BY <1>2, <2>2, DayLater
  <2>5. {Movement(b.kinds, TimeOfDay(b.date)), Movement(c.kinds, TimeOfDay(c.date))}
          = DailyThresholds(bounds)
    BY <1>1, <2>2, <2>4
  <2>6. b.date < c.date /\ c.date < b.date + Day  BY <1>0, <1>1, <1>2, <2>2
  <2>7. c.kinds = <<LastOf(t)>> /\ c.date - Day <= n  BY <1>0, <1>2, <1>3, <1>8, <2>2
  <2> QED  BY <1>1, <2>2, <2>3, <2>5, <2>6, <2>7 DEF DailyState
<1> QED  BY <1>9, <1>10

LEMMA DatedGoesOff ==
  ASSUME NEW bounds, Accepted("timestamp", bounds),
         NEW k, NEW T, \A u \in T : IsTimer(u) /\ u.key = k,
         NEW s, NEW n \in Nat, DatedState(bounds, T, s, n),
         NEW t \in T, t.date <= n, \A u \in T : t.date <= u.date
  PROVE  /\ t.kinds[1] # s
         /\ DatedState(bounds, Without(T, t), LastOf(t), n)
<1> DEFINE ms == DatedThresholds(bounds)
<1> DEFINE m == Movement(t.kinds, t.date)
<1> DEFINE S == T \ {t}
<1>1. /\ \A o \in ms : /\ o = Movement(o.kinds, o.date) /\ o.date \in Nat
                       /\ o.kinds \in {<<"Enter">>, <<"Exit">>}
      /\ \A o, p \in ms : o.kinds = p.kinds => o = p
  BY DatedThresholdsAre
<1>2. \A u \in T : /\ u.every = 0 /\ Movement(u.kinds, u.date) \in ms
                   /\ \A o \in ms : o.date > u.date => \E v \in T : v.kinds = o.kinds
  BY DEF DatedState
<1>3. s # "none" =>
        \E o \in ms : o.kinds = <<s>> /\ \A u \in T : u.kinds # o.kinds
  BY DEF DatedState
<1>4. \A x, y : Movement(x, y).kinds = x /\ Movement(x, y).date = y  BY DEF Movement
<1>5. m \in ms /\ m.kinds = t.kinds /\ m.date = t.date  BY <1>2, <1>4
<1> HIDE DEF ms, m
<1>6. t.kinds \in {<<"Enter">>, <<"Exit">>}  BY <1>1, <1>5
<1>7. t.kinds = <<t.kinds[1]>> /\ LastOf(t) = t.kinds[1] /\ t.kinds[1] \in {"Enter", "Exit"}
  BY <1>6 DEF LastOf
<1>8. t.kinds[1] # s  BY <1>3, <1>7
<1>9. Without(T, t) = S  BY <1>2 DEF Without, Again
<1>10. ASSUME NEW u \in S PROVE u.date >= t.date /\ u.kinds # t.kinds
  <2>1. u.date \in Nat /\ t.date \in Nat /\ t.date <= u.date  BY DEF IsTimer
  <2>2. ASSUME u.kinds = t.kinds PROVE FALSE
    <3>1. Movement(u.kinds, u.date) \in ms  BY <1>2
    <3>2. Movement(u.kinds, u.date) = m  BY <1>1, <1>4, <1>5, <2>2, <3>1
    <3>3. u.date = t.date  BY <1>4, <1>5, <3>2
    <3>4. /\ u.key = t.key /\ u.every = t.every
          /\ u = [key |-> u.key, kinds |-> u.kinds, date |-> u.date, every |-> u.every]
          /\ t = [key |-> t.key, kinds |-> t.kinds, date |-> t.date, every |-> t.every]
      BY <1>2 DEF IsTimer
    <3>5. u = t  BY <2>2, <3>3, <3>4
    <3> QED  BY <3>5
  <2> QED  BY <2>1, <2>2
<1>11. ASSUME NEW o \in ms, NEW u \in T, o.date > u.date
       PROVE  \E v \in S : v.kinds = o.kinds
  <2>1. PICK v \in T : v.kinds = o.kinds  BY <1>2, <1>11
  <2>2. ASSUME v = t PROVE FALSE
    <3>1. o = m  BY <1>1, <1>5, <2>1, <2>2
    <3>2. u.date \in Nat /\ t.date \in Nat /\ t.date <= u.date  BY DEF IsTimer
    <3> QED  BY <1>5, <1>11, <3>1, <3>2
  <2> QED  BY <2>1, <2>2
<1>12. DatedState(bounds, S, LastOf(t), n)
  <2> HIDE DEF S
  <2>1. S \subseteq T  BY DEF S
  <2>2. \A u \in S : /\ u.every = 0 /\ Movement(u.kinds, u.date) \in ms
                     /\ \A o \in ms : o.date > u.date => \E v \in S : v.kinds = o.kinds
    BY <1>2, <1>11, <2>1
  <2>3. /\ m.kinds = <<LastOf(t)>> /\ m.date <= n
        /\ \A u \in S : u.date >= m.date /\ u.kinds # m.kinds
        /\ \A o \in ms : o.date > m.date => \E v \in S : v.kinds = o.kinds
    BY <1>5, <1>7, <1>10, <1>11
  <2> QED  BY <1>5, <2>2, <2>3 DEF DatedState, ms
<1> QED  BY <1>8, <1>9, <1>12

LEMMA GoesOff ==
  ASSUME NEW w, Accepted(w.getter, w.range),
         NEW k, NEW T, \A u \in T : IsTimer(u) /\ u.key = k,
         NEW s, NEW n \in Nat, WatchState(w, T, s, n),
         NEW t \in T, t.date <= n, \A u \in T : t.date <= u.date
  PROVE  /\ Promised(w) => t.kinds[1] # s
         /\ WatchState(w, Without(T, t), LastOf(t), n)
<1>1. CASE w.getter = "timeofday"
  BY <1>1, DailyGoesOff DEF WatchState
<1>2. CASE w.getter = "timestamp"
  <2>1. Accepted("timestamp", w.range) /\ DatedState(w.range, T, s, n)  BY <1>2 DEF WatchState
  <2>2. t.kinds[1] # s /\ DatedState(w.range, Without(T, t), LastOf(t), n)
    BY <2>1, DatedGoesOff
  <2> QED  BY <1>2, <2>2 DEF WatchState
<1>3. CASE w.getter = "interval"
  <2>1. (\A u \in T : u.kinds = <<"Enter", "Exit">>) /\ s \in {"none", "Exit"}
    BY <1>3 DEF WatchState, IntervalState
  <2>2. t.kinds[1] = "Enter" /\ LastOf(t) = "Exit"
    <3> DEFINE both == <<"Enter", "Exit">>
    <3>1. both[1] = "Enter" /\ both[2] = "Exit" /\ Len(both) = 2  OBVIOUS
    <3>2. t.kinds = both  BY <2>1
    <3> HIDE DEF both
    <3> QED  BY <3>1, <3>2 DEF LastOf
  <2>3. \A u \in Without(T, t) : u.kinds = <<"Enter", "Exit">>
    BY <2>1, AgainIsTimer DEF Without
  <2> QED  BY <1>3, <2>1, <2>2, <2>3 DEF WatchState, IntervalState
<1>4. w.getter \in {"timeofday", "timestamp", "interval"}  BY RangeAccepted
<1> QED  BY <1>1, <1>2, <1>3, <1>4

-----------------------------------------------------------------------------
(* The inductive invariant of the clock.                                    *)

TimersOf(k) == {t \in timers : t.key = k}

(* The last event that was, or is about to be, sent to a watcher.           *)
ClockSent(k) ==
  IF callback # <<>> /\ callback[1].key = k THEN callback[Len(callback)].kind
  ELSE clockTold[k].kind

EventOf(k, kind) == [key |-> k, kind |-> kind]

Callbacks(k) ==
  {<<EventOf(k, "Enter")>>, <<EventOf(k, "Exit")>>, <<EventOf(k, "Enter"), EventOf(k, "Exit")>>}

ToldClock == {ClockUntold} \cup [kind : {"Enter", "Exit"}, odd : BOOLEAN]

(* Keys are given in order, hence a new one is free.                        *)
KeysInv == \E n \in 0 .. MaxClockWatches : DOMAIN clockWatch = 0 .. n - 1

WatchInv(k) ==
  LET w == clockWatch[k]
  IN /\ w = [getter |-> w.getter, range |-> w.range, live |-> w.live]
     /\ w.live \in BOOLEAN /\ Accepted(w.getter, w.range)
     /\ w.live => WatchState(w, TimersOf(k), ClockSent(k), now)

TimersInv ==
  \A t \in timers : IsTimer(t) /\ t.key \in DOMAIN clockWatch /\ clockWatch[t.key].live

CallbackInv ==
  callback # <<>> =>
    \E k \in DOMAIN clockWatch :
      /\ callback \in Callbacks(k)
      /\ Promised(clockWatch[k]) => callback[1].kind # clockTold[k].kind

ClockInv ==
  /\ now \in 0 .. MaxTime
  /\ KeysInv
  /\ clockWatch = [k \in DOMAIN clockWatch |-> clockWatch[k]]
  /\ clockTold \in [DOMAIN clockWatch -> ToldClock]
  /\ TimersInv
  /\ CallbackInv
  /\ \A k \in DOMAIN clockWatch : WatchInv(k)

LEMMA CallbackParts ==
  ASSUME NEW k, NEW events \in Callbacks(k)
  PROVE  /\ events # <<>> /\ Head(events) = events[1]
         /\ events[1] = EventOf(k, events[1].kind) /\ events[1].kind \in {"Enter", "Exit"}
         /\ events[1].key = k
         /\ \/ Tail(events) = <<>> /\ events[Len(events)].kind = events[1].kind
            \/ /\ Tail(events) # <<>> /\ Tail(events) \in Callbacks(k)
               /\ Tail(events)[Len(Tail(events))].kind = events[Len(events)].kind
               /\ Tail(events)[1].kind # events[1].kind /\ Tail(events)[1].key = k
<1> DEFINE e == EventOf(k, "Enter")
<1> DEFINE x == EventOf(k, "Exit")
<1>1. /\ e = EventOf(k, e.kind) /\ e.kind = "Enter" /\ e.key = k
      /\ x = EventOf(k, x.kind) /\ x.kind = "Exit" /\ x.key = k
  BY DEF EventOf
<1>2. Callbacks(k) = {<<e>>, <<x>>, <<e, x>>}  BY DEF Callbacks
<1> HIDE DEF e, x
<1>3. ASSUME NEW y, events = <<y>>
      PROVE  /\ events # <<>> /\ Head(events) = y /\ events[1] = y /\ Tail(events) = <<>>
             /\ events[Len(events)] = y
  BY <1>3
<1>4. ASSUME events = <<e, x>>
      PROVE  /\ events # <<>> /\ Head(events) = e /\ events[1] = e /\ Tail(events) = <<x>>
             /\ events[Len(events)] = x /\ <<x>> # <<>> /\ <<x>>[Len(<<x>>)] = x /\ <<x>>[1] = x
  BY <1>4
<1>5. CASE events = <<e>>  BY <1>1, <1>3, <1>5
<1>6. CASE events = <<x>>  BY <1>1, <1>3, <1>6
<1>7. CASE events = <<e, x>>
  <2>1. Tail(events) = <<x>> /\ Tail(events) \in Callbacks(k)  BY <1>2, <1>4, <1>7
  <2> QED  BY <1>1, <1>4, <1>7, <2>1
<1> QED  BY <1>2, <1>5, <1>6, <1>7

LEMMA CallbackOf ==
  ASSUME NEW t, IsTimer(t),
         NEW events, events = [i \in DOMAIN t.kinds |-> [key |-> t.key, kind |-> t.kinds[i]]]
  PROVE  /\ events \in Callbacks(t.key) /\ events # <<>> /\ events[1].key = t.key
         /\ events[1].kind = t.kinds[1] /\ events[Len(events)].kind = LastOf(t)
<1> DEFINE F(kinds) == [i \in DOMAIN kinds |-> EventOf(t.key, kinds[i])]
<1>1. events = F(t.kinds)  BY DEF EventOf
<1>2. ASSUME NEW kind
      PROVE  /\ F(<<kind>>) = <<EventOf(t.key, kind)>>
             /\ <<kind>>[1] = kind /\ <<kind>>[Len(<<kind>>)] = kind
  OBVIOUS
<1>3. ASSUME NEW kind, NEW other
      PROVE  /\ F(<<kind, other>>) = <<EventOf(t.key, kind), EventOf(t.key, other)>>
             /\ <<kind, other>>[1] = kind /\ <<kind, other>>[Len(<<kind, other>>)] = other
  OBVIOUS
<1> HIDE DEF F
<1>4. ASSUME NEW kind PROVE EventOf(t.key, kind).kind = kind  BY DEF EventOf
<1>5. ASSUME NEW kind, t.kinds = <<kind>>
      PROVE  /\ events = <<EventOf(t.key, kind)>> /\ events[1].kind = t.kinds[1]
             /\ events[Len(events)].kind = LastOf(t)
  BY <1>1, <1>2, <1>4, <1>5 DEF LastOf
<1>6. ASSUME NEW kind, NEW other, t.kinds = <<kind, other>>
      PROVE  /\ events = <<EventOf(t.key, kind), EventOf(t.key, other)>>
             /\ events[1].kind = t.kinds[1] /\ events[Len(events)].kind = LastOf(t)
  BY <1>1, <1>3, <1>4, <1>6 DEF LastOf
<1>7. t.kinds = <<"Enter">> \/ t.kinds = <<"Exit">> \/ t.kinds = <<"Enter", "Exit">>
  BY DEF IsTimer, Kinds
<1>8. /\ events \in Callbacks(t.key)
      /\ events[1].kind = t.kinds[1] /\ events[Len(events)].kind = LastOf(t)
  BY <1>5, <1>6, <1>7 DEF Callbacks
<1>9. events # <<>> /\ events[1].key = t.key
  <2>1. events \in Callbacks(t.key)  BY <1>8
  <2> QED  BY <2>1, CallbackParts
<1> QED  BY <1>8, <1>9

LEMMA ClockInvInit ==
  ASSUME ClockInit
  PROVE  ClockInv
<1>1. DOMAIN EmptyMap = {} /\ EmptyMap = [k \in DOMAIN EmptyMap |-> EmptyMap[k]]
  BY DEF EmptyMap
<1>2. now \in 0 .. MaxTime  BY ClockAssumption DEF ClockInit
<1>3. 0 .. 0 - 1 = {} /\ 0 \in 0 .. MaxClockWatches  BY ClockAssumption
<1>4. KeysInv  BY <1>1, <1>3 DEF KeysInv, ClockInit
<1> QED  BY <1>1, <1>2, <1>4 DEF ClockInit, ClockInv, TimersInv, CallbackInv

(* What a watch looks like is of no concern to another.                     *)
LEMMA WatchUnaffected ==
  ASSUME NEW k, WatchInv(k), clockWatch'[k] = clockWatch[k], TimersOf(k)' = TimersOf(k),
         ClockSent(k)' = ClockSent(k), now' = now
  PROVE  WatchInv(k)'
  BY DEF WatchInv

LEMMA KeysInOrder ==
  ASSUME ClockInv
  PROVE  /\ Cardinality(DOMAIN clockWatch) \in Nat
         /\ DOMAIN clockWatch = 0 .. Cardinality(DOMAIN clockWatch) - 1
         /\ Cardinality(DOMAIN clockWatch) <= MaxClockWatches
<1>1. PICK n \in 0 .. MaxClockWatches : DOMAIN clockWatch = 0 .. n - 1  BY DEF ClockInv, KeysInv
<1>2. n \in Nat /\ n <= MaxClockWatches /\ 0 \in Int /\ n - 1 \in Int  BY <1>1, ClockAssumption
<1>3. Cardinality(0 .. n - 1) = IF 0 > n - 1 THEN 0 ELSE (n - 1) - 0 + 1  BY <1>2, FS_Interval
<1>4. Cardinality(0 .. n - 1) = n  BY <1>2, <1>3
<1> QED  BY <1>1, <1>2, <1>4

LEMMA RegisterKeepsInv ==
  ASSUME ClockInv, NEW getter \in ClockGetter, NEW bounds \in ClockRanges[getter],
         RegisterClockWatch(getter, bounds)
  PROVE  ClockInv'
<1>0. PICK k : k = Cardinality(DOMAIN clockWatch)  OBVIOUS
<1> DEFINE w == [getter |-> getter, range |-> bounds, live |-> TRUE]
<1>1. /\ k \in Nat /\ DOMAIN clockWatch = 0 .. k - 1 /\ k \in ClockKey
      /\ k < MaxClockWatches
  BY <1>0, KeysInOrder, ClockAssumption DEF RegisterClockWatch, ClockKey
<1>2. /\ w.getter = getter /\ w.range = bounds /\ w.live = TRUE
      /\ w = [getter |-> w.getter, range |-> w.range, live |-> w.live]
      /\ Accepted(w.getter, w.range)
  BY DEF RegisterClockWatch, Accepted
<1>3. /\ clockWatch' = Put(clockWatch, k, w) /\ clockTold' = Put(clockTold, k, ClockUntold)
      /\ timers' = timers \cup Scheduled(k, w, now)
      /\ now' = now /\ callback' = callback
  BY <1>0, <1>2 DEF RegisterClockWatch, Scheduled
<1> HIDE DEF w
<1>4. /\ DOMAIN clockWatch' = DOMAIN clockWatch \cup {k}
      /\ clockWatch' = [j \in DOMAIN clockWatch' |-> clockWatch'[j]]
      /\ clockWatch'[k] = w
      /\ \A j \in DOMAIN clockWatch : j # k => clockWatch'[j] = clockWatch[j]
  BY <1>3 DEF Put
<1>5. k \notin DOMAIN clockWatch  BY <1>1
<1>6. KeysInv'
  <2>1. DOMAIN clockWatch' = 0 .. (k + 1) - 1  BY <1>1, <1>4
  <2>2. k + 1 \in 0 .. MaxClockWatches  BY <1>1, ClockAssumption
  <2> QED  BY <2>1, <2>2 DEF KeysInv
<1>7. /\ clockTold' \in [DOMAIN clockWatch' -> ToldClock]
      /\ clockTold'[k] = ClockUntold
      /\ \A j \in DOMAIN clockWatch : clockTold'[j] = clockTold[j]
  <2>1. clockTold \in [DOMAIN clockWatch -> ToldClock] /\ ClockUntold \in ToldClock
    BY DEF ClockInv, ToldClock
  <2>2. DOMAIN clockTold = DOMAIN clockWatch  BY <2>1
  <2>3. clockTold' = [j \in DOMAIN clockWatch \cup {k} |->
                       IF j = k THEN ClockUntold ELSE clockTold[j]]
    BY <1>3, <2>2 DEF Put
  <2> QED  BY <1>4, <1>5, <2>1, <2>3
<1>8. /\ \A t \in Scheduled(k, w, now) : IsTimer(t) /\ t.key = k
      /\ WatchState(w, Scheduled(k, w, now), "none", now)
  <2>1. now \in Nat  BY ClockAssumption DEF ClockInv
  <2> QED  BY <1>2, <2>1, NewTimers
<1>9. TimersInv'
  <2>1. ASSUME NEW t \in timers
        PROVE  IsTimer(t) /\ t.key \in DOMAIN clockWatch' /\ clockWatch'[t.key].live
    BY <1>4, <1>5 DEF ClockInv, TimersInv
  <2>2. ASSUME NEW t \in Scheduled(k, w, now)
        PROVE  IsTimer(t) /\ t.key \in DOMAIN clockWatch' /\ clockWatch'[t.key].live
    BY <1>2, <1>4, <1>8
  <2> QED  BY <1>3, <2>1, <2>2 DEF TimersInv
<1>10. CallbackInv'
  BY <1>3, <1>4, <1>5, <1>7 DEF ClockInv, CallbackInv
<1>11. ASSUME NEW j \in DOMAIN clockWatch PROVE WatchInv(j)'
  <2>1. TimersOf(j)' = TimersOf(j)  BY <1>3, <1>5, <1>8 DEF TimersOf
  <2>2. ClockSent(j)' = ClockSent(j)  BY <1>3, <1>7 DEF ClockSent
  <2> QED  BY <1>3, <1>4, <1>5, <2>1, <2>2, WatchUnaffected DEF ClockInv
<1>12. WatchInv(k)'
  <2>1. TimersOf(k)' = Scheduled(k, w, now)
    <3>1. \A t \in timers : t.key # k  BY <1>5 DEF ClockInv, TimersInv
    <3> QED  BY <1>3, <1>8, <3>1 DEF TimersOf
  <2>2. ClockSent(k)' = "none"
    <3>1. callback # <<>> => callback[1].key # k
      <4> SUFFICES ASSUME callback # <<>> PROVE callback[1].key # k  OBVIOUS
      <4>1. PICK j \in DOMAIN clockWatch : callback \in Callbacks(j)  BY DEF ClockInv, CallbackInv
      <4>2. callback[1].key = j  BY <4>1, CallbackParts
      <4> QED  BY <1>5, <4>1, <4>2
    <3>2. ClockUntold.kind = "none"  BY DEF ClockUntold
    <3> QED  BY <1>3, <1>7, <3>1, <3>2 DEF ClockSent
  <2> QED  BY <1>2, <1>3, <1>4, <1>8, <2>1, <2>2 DEF WatchInv
<1> QED
  BY <1>3, <1>4, <1>6, <1>7, <1>9, <1>10, <1>11, <1>12 DEF ClockInv

LEMMA DropKeepsInv ==
  ASSUME ClockInv, NEW k \in ClockKey, DropClockGuard(k)
  PROVE  ClockInv'
<1> DEFINE w == clockWatch[k]
<1>1. /\ k \in DOMAIN clockWatch
      /\ clockWatch' = [clockWatch EXCEPT ![k].live = FALSE]
      /\ timers' = {t \in timers : t.key # k}
      /\ now' = now /\ callback' = callback /\ clockTold' = clockTold
  BY DEF DropClockGuard
<1>2. /\ w = [getter |-> w.getter, range |-> w.range, live |-> w.live]
      /\ Accepted(w.getter, w.range)
  BY <1>1 DEF ClockInv, WatchInv
<1>3. /\ DOMAIN clockWatch' = DOMAIN clockWatch
      /\ clockWatch' = [j \in DOMAIN clockWatch' |-> clockWatch'[j]]
      /\ clockWatch'[k] = [clockWatch[k] EXCEPT !.live = FALSE]
      /\ \A j \in DOMAIN clockWatch : j # k => clockWatch'[j] = clockWatch[j]
  BY <1>1
<1>4. clockWatch'[k] = [getter |-> w.getter, range |-> w.range, live |-> FALSE]
  BY <1>2, <1>3
<1>5. /\ clockWatch'[k].getter = w.getter /\ clockWatch'[k].range = w.range
      /\ clockWatch'[k].live = FALSE
  BY <1>4
<1>6. KeysInv'  BY <1>3 DEF ClockInv, KeysInv
<1>7. TimersInv'  BY <1>1, <1>3 DEF ClockInv, TimersInv
<1>8. CallbackInv'
  <2>1. \A j \in DOMAIN clockWatch : Promised(clockWatch'[j]) => Promised(clockWatch[j])
    BY <1>3, <1>5 DEF Promised
  <2> QED  BY <1>1, <1>3, <2>1 DEF ClockInv, CallbackInv
<1>9. ASSUME NEW j \in DOMAIN clockWatch, j # k PROVE WatchInv(j)'
  <2>1. TimersOf(j)' = TimersOf(j)  BY <1>1, <1>9 DEF TimersOf
  <2>2. ClockSent(j)' = ClockSent(j)  BY <1>1 DEF ClockSent
  <2> QED  BY <1>1, <1>3, <1>9, <2>1, <2>2, WatchUnaffected DEF ClockInv
<1>10. WatchInv(k)'  BY <1>2, <1>4, <1>5 DEF WatchInv
<1> QED
  BY <1>1, <1>3, <1>6, <1>7, <1>8, <1>9, <1>10 DEF ClockInv

LEMMA FireKeepsInv ==
  ASSUME ClockInv, NEW t \in timers, FireTimer(t)
  PROVE  ClockInv'
<1> DEFINE k == t.key
<1> DEFINE w == clockWatch[k]
<1>1. /\ callback = <<>> /\ t.date <= now /\ \A u \in timers : t.date <= u.date
      /\ timers' = Without(timers, t)
      /\ callback' = [i \in DOMAIN t.kinds |-> [key |-> t.key, kind |-> t.kinds[i]]]
      /\ now' = now /\ clockWatch' = clockWatch /\ clockTold' = clockTold
  BY DEF FireTimer, Without, Again
<1>2. IsTimer(t) /\ k \in DOMAIN clockWatch /\ w.live  BY DEF ClockInv, TimersInv
<1>3. /\ callback' \in Callbacks(k) /\ callback' # <<>> /\ callback'[1].key = k
      /\ callback'[1].kind = t.kinds[1] /\ callback'[Len(callback')].kind = LastOf(t)
  BY <1>1, <1>2, CallbackOf
<1>4. \A u \in Again(t) : IsTimer(u) /\ u.key = k  BY <1>2, AgainIsTimer
<1>5. /\ Accepted(w.getter, w.range) /\ now \in Nat
      /\ WatchState(w, TimersOf(k), clockTold[k].kind, now)
      /\ \A u \in TimersOf(k) : IsTimer(u) /\ u.key = k
      /\ t \in TimersOf(k)
  <2>1. now \in Nat  BY ClockAssumption DEF ClockInv
  <2>2. WatchInv(k)  BY <1>2 DEF ClockInv
  <2>3. ClockSent(k) = clockTold[k].kind  BY <1>1 DEF ClockSent
  <2>4. Accepted(w.getter, w.range) /\ WatchState(w, TimersOf(k), ClockSent(k), now)
    BY <1>2, <2>2 DEF WatchInv
  <2>5. t \in TimersOf(k) /\ \A u \in TimersOf(k) : IsTimer(u) /\ u.key = k
    BY DEF ClockInv, TimersInv, TimersOf
  <2> QED  BY <2>1, <2>3, <2>4, <2>5
<1>6. TimersOf(k)' = Without(TimersOf(k), t)
  BY <1>1, <1>4 DEF TimersOf, Without
<1>7. /\ Promised(w) => t.kinds[1] # clockTold[k].kind
      /\ WatchState(w, Without(TimersOf(k), t), LastOf(t), now)
  <2>1. \A u \in TimersOf(k) : t.date <= u.date  BY <1>1 DEF TimersOf
  <2> HIDE DEF k, w
  <2> QED  BY <1>1, <1>5, <2>1, GoesOff
<1>8. TimersInv'
  <2>1. \A u \in timers \cup Again(t) : IsTimer(u) /\ u.key \in DOMAIN clockWatch /\ clockWatch[u.key].live
    BY <1>2, <1>4 DEF ClockInv, TimersInv
  <2> QED  BY <1>1, <2>1 DEF TimersInv, Without
<1>9. CallbackInv'  BY <1>1, <1>2, <1>3, <1>7 DEF CallbackInv
<1>10. ASSUME NEW j \in DOMAIN clockWatch, j # k PROVE WatchInv(j)'
  <2>1. TimersOf(j)' = TimersOf(j)  BY <1>1, <1>4, <1>10 DEF TimersOf, Without
  <2>2. ClockSent(j)' = ClockSent(j)  BY <1>1, <1>3, <1>10 DEF ClockSent
  <2> QED  BY <1>1, <2>1, <2>2, WatchUnaffected DEF ClockInv
<1>11. WatchInv(k)'
  <2>1. ClockSent(k)' = LastOf(t)  BY <1>3 DEF ClockSent
  <2>2. /\ w = [getter |-> w.getter, range |-> w.range, live |-> w.live]
        /\ w.live \in BOOLEAN
    BY <1>2 DEF ClockInv, WatchInv
  <2> QED  BY <1>1, <1>5, <1>6, <1>7, <2>1, <2>2 DEF WatchInv
<1>12. KeysInv'  BY <1>1 DEF ClockInv, KeysInv
<1> QED
  BY <1>1, <1>8, <1>9, <1>10, <1>11, <1>12 DEF ClockInv

(* An event is sent: what remains to be sent, and what the watcher has been *)
(* told.                                                                    *)
LEMMA EventSent ==
  ASSUME ClockInv, SendClockEvent
  PROVE  \E k \in DOMAIN clockWatch : \E kind \in {"Enter", "Exit"} :
           /\ clockTold' = [clockTold EXCEPT ![k] = [kind |-> kind, odd |-> ~clockTold[k].odd]]
           /\ Promised(clockWatch[k]) => kind # clockTold[k].kind
           /\ clockTold'[k] \in ToldClock /\ clockTold'[k].kind = kind
           /\ ClockSent(k)' = ClockSent(k)
           /\ callback # <<>> /\ callback[1].key = k
           /\ callback' # <<>> =>
                callback' \in Callbacks(k) /\ callback'[1].kind # kind /\ callback'[1].key = k
<1>1. /\ callback # <<>> /\ callback' = Tail(callback)
      /\ clockTold' = [clockTold EXCEPT ![Head(callback).key] =
                         [kind |-> Head(callback).kind, odd |-> ~@.odd]]
  BY DEF SendClockEvent
<1>2. PICK k \in DOMAIN clockWatch :
        /\ callback \in Callbacks(k)
        /\ Promised(clockWatch[k]) => callback[1].kind # clockTold[k].kind
  BY <1>1 DEF ClockInv, CallbackInv
<1>3. PICK kind \in {"Enter", "Exit"} : kind = callback[1].kind
  <2>1. callback[1].kind \in {"Enter", "Exit"}  BY <1>2, CallbackParts
  <2> QED  BY <2>1
<1>4. /\ Head(callback).key = k /\ Head(callback).kind = kind /\ callback[1].key = k
      /\ kind \in {"Enter", "Exit"}
      /\ \/ callback' = <<>> /\ callback[Len(callback)].kind = kind
         \/ /\ callback' # <<>> /\ callback' \in Callbacks(k)
            /\ callback'[Len(callback')].kind = callback[Len(callback)].kind
            /\ callback'[1].kind # kind /\ callback'[1].key = k
  <2>1. /\ Head(callback) = callback[1] /\ kind \in {"Enter", "Exit"}
        /\ callback[1].key = k
    BY <1>2, <1>3, CallbackParts
  <2>2. \/ Tail(callback) = <<>> /\ callback[Len(callback)].kind = callback[1].kind
        \/ /\ Tail(callback) # <<>> /\ Tail(callback) \in Callbacks(k)
           /\ Tail(callback)[Len(Tail(callback))].kind = callback[Len(callback)].kind
           /\ Tail(callback)[1].kind # callback[1].kind /\ Tail(callback)[1].key = k
    BY <1>2, CallbackParts
  <2> QED  BY <1>1, <1>3, <2>1, <2>2, Zenon
<1>5. clockTold \in [DOMAIN clockWatch -> ToldClock]  BY DEF ClockInv
<1>6. clockTold' = [clockTold EXCEPT ![k] = [kind |-> kind, odd |-> ~clockTold[k].odd]]
  BY <1>1, <1>4
<1>7. /\ clockTold'[k] = [kind |-> kind, odd |-> ~clockTold[k].odd]
      /\ clockTold[k].odd \in BOOLEAN
  <2>1. clockTold[k] = ClockUntold \/ clockTold[k] \in [kind : {"Enter", "Exit"}, odd : BOOLEAN]
    BY <1>5 DEF ToldClock
  <2>2. ClockUntold.odd \in BOOLEAN  BY DEF ClockUntold
  <2>3. clockTold[k].odd \in BOOLEAN  BY <2>1, <2>2
  <2> QED  BY <1>5, <1>6, <2>3
<1>8. clockTold'[k] \in ToldClock /\ clockTold'[k].kind = kind
  BY <1>4, <1>7 DEF ToldClock
<1>9. ClockSent(k)' = ClockSent(k)
  <2>1. ClockSent(k) = callback[Len(callback)].kind  BY <1>1, <1>4 DEF ClockSent
  <2>2. ClockSent(k)' = IF callback' # <<>> /\ callback'[1].key = k THEN callback'[Len(callback')].kind
                   ELSE clockTold'[k].kind
    BY DEF ClockSent
  <2> QED  BY <1>4, <1>8, <2>1, <2>2
<1>10. /\ clockTold' = [clockTold EXCEPT ![k] = [kind |-> kind, odd |-> ~clockTold[k].odd]]
       /\ Promised(clockWatch[k]) => kind # clockTold[k].kind
       /\ clockTold'[k] \in ToldClock /\ clockTold'[k].kind = kind
       /\ ClockSent(k)' = ClockSent(k)
       /\ callback # <<>> /\ callback[1].key = k
       /\ callback' # <<>> =>
            callback' \in Callbacks(k) /\ callback'[1].kind # kind /\ callback'[1].key = k
  <2>1. Promised(clockWatch[k]) => kind # clockTold[k].kind  BY <1>2, <1>3
  <2>2. callback' # <<>> =>
          callback' \in Callbacks(k) /\ callback'[1].kind # kind /\ callback'[1].key = k
    BY <1>4
  <2> QED  BY <1>1, <1>4, <1>6, <1>8, <1>9, <2>1, <2>2
<1> WITNESS k \in DOMAIN clockWatch
<1> WITNESS kind \in {"Enter", "Exit"}
<1> QED  BY <1>10

LEMMA SendKeepsInv ==
  ASSUME ClockInv, SendClockEvent
  PROVE  ClockInv'
<1>1. now' = now /\ clockWatch' = clockWatch /\ timers' = timers  BY DEF SendClockEvent
<1>2. PICK k \in DOMAIN clockWatch, kind \in {"Enter", "Exit"} :
        /\ clockTold' = [clockTold EXCEPT ![k] = [kind |-> kind, odd |-> ~clockTold[k].odd]]
        /\ clockTold'[k] \in ToldClock /\ clockTold'[k].kind = kind
        /\ ClockSent(k)' = ClockSent(k)
        /\ callback # <<>> /\ callback[1].key = k
        /\ callback' # <<>> =>
             callback' \in Callbacks(k) /\ callback'[1].kind # kind /\ callback'[1].key = k
  BY EventSent
<1>3. clockTold \in [DOMAIN clockWatch -> ToldClock]  BY DEF ClockInv
<1>4. \A j \in DOMAIN clockWatch : j # k => clockTold'[j] = clockTold[j]  BY <1>2, <1>3
<1>5. clockTold' \in [DOMAIN clockWatch' -> ToldClock]  BY <1>1, <1>2, <1>3, <1>4
<1>6. CallbackInv'  BY <1>1, <1>2 DEF CallbackInv
<1>7. ASSUME NEW j \in DOMAIN clockWatch PROVE WatchInv(j)'
  <2>1. TimersOf(j)' = TimersOf(j)  BY <1>1 DEF TimersOf
  <2>2. ClockSent(j)' = ClockSent(j)
    <3>1. j # k => ClockSent(j)' = ClockSent(j)  BY <1>2, <1>4 DEF ClockSent
    <3> QED  BY <1>2, <3>1
  <2> QED  BY <1>1, <2>1, <2>2, WatchUnaffected DEF ClockInv
<1>8. KeysInv' /\ TimersInv'  BY <1>1 DEF ClockInv, KeysInv, TimersInv
<1> QED  BY <1>1, <1>5, <1>6, <1>7, <1>8 DEF ClockInv

LEMMA TickKeepsInv ==
  ASSUME ClockInv, Tick
  PROVE  ClockInv'
<1>1. /\ now < MaxTime /\ now' = now + 1
      /\ clockWatch' = clockWatch /\ timers' = timers /\ callback' = callback
      /\ clockTold' = clockTold
  BY DEF Tick
<1>2. now \in Nat /\ now' \in Nat /\ now <= now' /\ now' \in 0 .. MaxTime
  BY <1>1, ClockAssumption DEF ClockInv
<1>3. ASSUME NEW k \in DOMAIN clockWatch PROVE WatchInv(k)'
  <2>1. TimersOf(k)' = TimersOf(k) /\ ClockSent(k)' = ClockSent(k)  BY <1>1 DEF TimersOf, ClockSent
  <2>2. WatchInv(k) /\ \A t \in TimersOf(k) : IsTimer(t)
    BY DEF ClockInv, TimersInv, TimersOf
  <2>3. clockWatch[k].live =>
          WatchState(clockWatch[k], TimersOf(k), ClockSent(k), now')
    BY <1>2, <2>2, TimePasses DEF WatchInv
  <2> QED  BY <1>1, <2>1, <2>2, <2>3 DEF WatchInv
<1>4. KeysInv' /\ TimersInv' /\ CallbackInv'
  BY <1>1 DEF ClockInv, KeysInv, TimersInv, CallbackInv
<1> QED  BY <1>1, <1>2, <1>3, <1>4 DEF ClockInv

LEMMA ClockInvStep ==
  ASSUME ClockInv, [ClockNext]_clockVars
  PROVE  ClockInv'
<1>1. CASE UNCHANGED clockVars
  <2>1. ASSUME NEW k \in DOMAIN clockWatch PROVE WatchInv(k)'
    BY <1>1 DEF clockVars, ClockInv, WatchInv, TimersOf, ClockSent
  <2> QED
    BY <1>1, <2>1 DEF clockVars, ClockInv, KeysInv, TimersInv, CallbackInv
<1> QED
  BY <1>1, RegisterKeepsInv, DropKeepsInv, FireKeepsInv, SendKeepsInv, TickKeepsInv DEF ClockNext

LEMMA ClockInvHolds == ClockSpec => []ClockInv
<1> QED  BY ClockInvInit, ClockInvStep, PTL DEF ClockSpec

(* The clock keeps its types: dates and keys are ones it can have.          *)
THEOREM ClockTypeCorrect == ClockSpec => []ClockTypeOK
<1>1. ASSUME ClockInv PROVE ClockTypeOK
  <2> USE <1>1
  <2>1. DOMAIN clockWatch \subseteq ClockKey
    <3>1. PICK n \in 0 .. MaxClockWatches : DOMAIN clockWatch = 0 .. n - 1
      BY DEF ClockInv, KeysInv
    <3> QED  BY <3>1, ClockAssumption DEF ClockKey
  <2>2. \A k \in DOMAIN clockWatch :
          /\ clockWatch[k].getter \in ClockGetter
          /\ clockWatch[k].range \in ClockRanges[clockWatch[k].getter]
    BY DEF ClockInv, WatchInv, Accepted
  <2>3. \A t \in timers : t.key \in DOMAIN clockWatch /\ t.date + t.every \in Nat
    BY DEF ClockInv, TimersInv, IsTimer
  <2>4. /\ Len(callback) <= 2
        /\ \A i \in DOMAIN callback :
             callback[i] \in [key : DOMAIN clockWatch, kind : {"Enter", "Exit"}]
    <3>1. CASE callback = <<>>  BY <3>1
    <3>2. CASE callback # <<>>
      <4>1. PICK k \in DOMAIN clockWatch : callback \in Callbacks(k)
        BY <3>2 DEF ClockInv, CallbackInv
      <4> DEFINE E == EventOf(k, "Enter")
      <4> DEFINE F == EventOf(k, "Exit")
      <4>2. /\ E \in [key : DOMAIN clockWatch, kind : {"Enter", "Exit"}]
            /\ F \in [key : DOMAIN clockWatch, kind : {"Enter", "Exit"}]
        BY DEF EventOf
      <4>3. callback \in {<<E>>, <<F>>, <<E, F>>}  BY <4>1 DEF Callbacks
      <4> HIDE DEF E, F
      <4>4. /\ Len(callback) <= 2
            /\ \A i \in DOMAIN callback : callback[i] \in {E, F}
        <5>1. CASE callback \in {<<E>>, <<F>>}  BY <5>1
        <5>2. CASE callback = <<E, F>>  BY <5>2
        <5> QED  BY <4>3, <5>1, <5>2
      <4> QED  BY <4>2, <4>4
    <3> QED  BY <3>1, <3>2
  <2>5. /\ now \in 0 .. MaxTime
        /\ clockTold \in [DOMAIN clockWatch -> {ClockUntold} \cup [kind : {"Enter", "Exit"}, odd : BOOLEAN]]
    BY DEF ClockInv, ToldClock
  <2> QED  BY <2>1, <2>2, <2>3, <2>4, <2>5 DEF ClockTypeOK
<1> QED  BY <1>1, ClockInvHolds, PTL

-----------------------------------------------------------------------------
(* Where the time of day is, when it was last entered at e and left at x.   *)
Inside(e, x, n) == IF e < x THEN e <= n /\ n < x ELSE e <= n \/ n < x

LEMMA DailyFollows ==
  ASSUME NEW bounds, Accepted("timeofday", bounds), EnterAt(bounds) # ExitAt(bounds),
         NEW T, \A t \in T : IsTimer(t), NEW s, s # "none", NEW n \in Nat,
         DailyState(bounds, T, s, n), \A t \in T : t.date > n
  PROVE  (s = "Enter") <=> Inside(EnterAt(bounds), ExitAt(bounds), TimeOfDay(n))
<1> DEFINE e == EnterAt(bounds)
<1> DEFINE x == ExitAt(bounds)
<1>0. Day \in Nat /\ 0 < Day  BY ClockAssumption
<1>1. PICK a, b \in T :
        /\ T = {a, b}
        /\ a.date < b.date /\ b.date < a.date + Day
        /\ {Movement(a.kinds, TimeOfDay(a.date)), Movement(b.kinds, TimeOfDay(b.date))}
             = DailyThresholds(bounds)
        /\ b.kinds = <<s>> /\ b.date - Day <= n
  BY DEF DailyState
<1> DEFINE A == TimeOfDay(a.date)
<1> DEFINE B == TimeOfDay(b.date)
<1> DEFINE N == TimeOfDay(n)
<1>2. a.date \in Int /\ b.date \in Int /\ n < a.date  BY <1>1 DEF IsTimer
<1>3. /\ A # B
      /\ B < A => B <= N /\ N < A
      /\ A < B => B <= N \/ N < A
  BY <1>1, <1>2, Between
<1>4. /\ e \in Int /\ x \in Int /\ DailyThresholds(bounds) = {Enter(e), Exit(x)}
  BY <1>0, DailyThresholdsAre
<1>5. /\ Enter(e).kinds = <<"Enter">> /\ Enter(e).date = e
      /\ Exit(x).kinds = <<"Exit">> /\ Exit(x).date = x
      /\ \A y, z : Movement(y, z).kinds = y /\ Movement(y, z).date = z
  BY DEF Enter, Exit, Movement
<1>6. A \in Int /\ B \in Int /\ N \in Int
  <2>1. \A y \in Int : TimeOfDay(y) \in Int  BY <1>0, DivMod
  <2> QED  BY <1>2, <2>1
<1>7. \/ s = "Enter" /\ B = e /\ A = x
      \/ s = "Exit" /\ B = x /\ A = e
  <2> DEFINE p == Movement(a.kinds, A)
  <2> DEFINE q == Movement(b.kinds, B)
  <2>1. q.kinds = <<s>> /\ q.date = B /\ p.date = A  BY <1>1, <1>5
  <2>2. {p, q} = {Enter(e), Exit(x)}  BY <1>1, <1>4
  <2> HIDE DEF p, q, A, B, N, e, x
  <2>3. \/ p = Enter(e) /\ q = Exit(x)
        \/ p = Exit(x) /\ q = Enter(e)
    <3>1. p # q  BY <1>3, <2>1
    <3> QED  BY <2>2, <3>1
  <2>4. <<s>>[1] = s /\ <<"Enter">>[1] = "Enter" /\ <<"Exit">>[1] = "Exit"  OBVIOUS
  <2> QED  BY <1>5, <2>1, <2>3, <2>4
<1>8. e # x  OBVIOUS
<1> HIDE DEF A, B, N, e, x
<1>9. (s = "Enter") <=> Inside(e, x, N)  BY <1>3, <1>4, <1>6, <1>7, <1>8 DEF Inside
<1> QED  BY <1>9 DEF N, e, x

LEMMA WithinTheDay ==
  ASSUME NEW y \in Nat
  PROVE  /\ y < Day => TimeOfDay(y) = y
         /\ y = Day => TimeOfDay(y) = 0
<1>0. Day \in Nat /\ 0 < Day /\ 0 \in Int /\ 1 \in Int  BY ClockAssumption
<1>1. y < Day => y \in 0 .. Day - 1 /\ y = Day * 0 + y  BY <1>0
<1>2. y = Day => 0 \in 0 .. Day - 1 /\ y = Day * 1 + 0  BY <1>0
<1> QED  BY <1>0, <1>1, <1>2, ModUnique

(* The range of a time of day is what lies between its entry and its exit.  *)
LEMMA InsideIsContained ==
  ASSUME NEW w, Accepted("timeofday", w.range), w.getter = "timeofday", Followed(w),
         EnterAt(w.range) # ExitAt(w.range),
         NEW N \in 0 .. Day - 1, NEW v, v = V!Data("Duration", N), ~AtUpperBound(w, v)
  PROVE  Inside(EnterAt(w.range), ExitAt(w.range), N) <=> V!Contains(w.range, v)
<1> DEFINE bounds == w.range
<1> DEFINE lo == bounds.min.data
<1> DEFINE hi == bounds.max.data
<1>0. Day \in Nat /\ 0 < Day /\ N \in Int /\ 0 <= N /\ N < Day  BY ClockAssumption
<1>1. /\ bounds.form \in {"Leq", "Geq", "Eq", "BetweenEq", "OutOfStrict"}
      /\ bounds.form \notin {"BetweenEq", "OutOfStrict"} => bounds.min = bounds.max
      /\ lo \in Nat /\ hi \in Nat
      /\ bounds.min = V!Data("Duration", lo) /\ bounds.max = V!Data("Duration", hi)
  BY RangeAccepted DEF TypeOfGetter
<1>2. /\ bounds.form # "Eq" /\ hi <= Day
      /\ bounds.form \in {"BetweenEq", "OutOfStrict"} => V!Lt(bounds.min, bounds.max)
  BY DEF Followed, V!TwoBounds
<1>3. v.data = N  BY DEF V!Data
<1>4. bounds.form # "Geq" => N # TimeOfDay(hi)  BY <1>3 DEF AtUpperBound, TimeOfDay
<1>5. /\ V!Lt(bounds.min, bounds.max) <=> lo < hi
      /\ V!Le(v, bounds.max) <=> N <= hi
      /\ V!Le(bounds.min, v) <=> lo <= N
      /\ V!Lt(v, bounds.min) <=> N < lo
      /\ V!Lt(bounds.max, v) <=> hi < N
  BY <1>0, <1>1, ComparedAsNumbers
<1>6. /\ lo < Day => TimeOfDay(lo) = lo
      /\ lo = Day => TimeOfDay(lo) = 0
      /\ hi < Day => TimeOfDay(hi) = hi
      /\ hi = Day => TimeOfDay(hi) = 0
  BY <1>1, WithinTheDay
<1> DEFINE e == EnterAt(bounds)
<1> DEFINE x == ExitAt(bounds)
<1>7. e # x  OBVIOUS
<1>8. CASE bounds.form = "Leq"
  <2>1. e = 0 /\ x = TimeOfDay(hi)  BY <1>8 DEF EnterAt, ExitAt
  <2>2. V!Contains(bounds, v) <=> N <= hi  BY <1>5, <1>8 DEF V!Contains
  <2>3. N # TimeOfDay(hi)  BY <1>4, <1>8
  <2> HIDE DEF bounds, lo, hi, e, x
  <2>4. hi < Day /\ x = hi  BY <1>0, <1>1, <1>2, <1>6, <1>7, <2>1
  <2>5. Inside(e, x, N) <=> V!Contains(bounds, v)
    BY <1>0, <1>1, <1>7, <2>1, <2>2, <2>3, <2>4 DEF Inside
  <2> QED  BY <2>5 DEF e, x, bounds
<1>9. CASE bounds.form = "Geq"
  <2>1. e = TimeOfDay(lo) /\ x = 0 /\ lo = hi  BY <1>1, <1>9 DEF EnterAt, ExitAt
  <2>2. V!Contains(bounds, v) <=> lo <= N  BY <1>5, <1>9 DEF V!Contains
  <2> HIDE DEF bounds, lo, hi, e, x
  <2>3. lo < Day /\ e = lo  BY <1>0, <1>1, <1>2, <1>6, <1>7, <2>1
  <2>4. Inside(e, x, N) <=> V!Contains(bounds, v)
    BY <1>0, <1>1, <1>7, <2>1, <2>2, <2>3 DEF Inside
  <2> QED  BY <2>4 DEF e, x, bounds
<1>10. CASE bounds.form = "BetweenEq"
  <2>1. e = TimeOfDay(lo) /\ x = TimeOfDay(hi)  BY <1>10 DEF EnterAt, ExitAt
  <2>2. V!Contains(bounds, v) <=> lo <= N /\ N <= hi  BY <1>5, <1>10 DEF V!Contains
  <2>3. N # TimeOfDay(hi) /\ lo < hi  BY <1>2, <1>4, <1>5, <1>10
  <2> HIDE DEF bounds, lo, hi, e, x
  <2>4. lo < Day /\ e = lo  BY <1>0, <1>1, <1>2, <1>6, <2>1, <2>3
  <2>5. (hi < Day /\ x = hi) \/ (hi = Day /\ x = 0)  BY <1>0, <1>1, <1>2, <1>6, <2>1
  <2>6. Inside(e, x, N) <=> V!Contains(bounds, v)
    BY <1>0, <1>1, <1>7, <2>1, <2>2, <2>3, <2>4, <2>5 DEF Inside
  <2> QED  BY <2>6 DEF e, x, bounds
<1>11. CASE bounds.form = "OutOfStrict"
  <2>1. e = TimeOfDay(hi) /\ x = TimeOfDay(lo)  BY <1>11 DEF EnterAt, ExitAt
  <2>2. V!Contains(bounds, v) <=> N < lo \/ hi < N  BY <1>5, <1>11 DEF V!Contains
  <2>3. N # TimeOfDay(hi) /\ lo < hi  BY <1>2, <1>4, <1>5, <1>11
  <2> HIDE DEF bounds, lo, hi, e, x
  <2>4. lo < Day /\ x = lo  BY <1>0, <1>1, <1>2, <1>6, <2>1, <2>3
  <2>5. (hi < Day /\ e = hi) \/ (hi = Day /\ e = 0)  BY <1>0, <1>1, <1>2, <1>6, <2>1
  <2>6. Inside(e, x, N) <=> V!Contains(bounds, v)
    BY <1>0, <1>1, <1>7, <2>1, <2>2, <2>3, <2>4, <2>5 DEF Inside
  <2> QED  BY <2>6 DEF e, x, bounds
<1> QED  BY <1>1, <1>2, <1>8, <1>9, <1>10, <1>11

LEMMA DatedFollows ==
  ASSUME NEW w, Accepted("timestamp", w.range), w.getter = "timestamp", Followed(w),
         NEW T, \A t \in T : IsTimer(t), NEW s, s # "none", NEW n \in Nat,
         DatedState(w.range, T, s, n), \A t \in T : t.date > n,
         NEW v, v = V!Data("TimeStamp", n), ~AtUpperBound(w, v)
  PROVE  (s = "Enter") <=> V!Contains(w.range, v)
<1> DEFINE bounds == w.range
<1> DEFINE lo == bounds.min.data
<1> DEFINE hi == bounds.max.data
<1>1. /\ bounds.form \in {"Leq", "Geq", "Eq", "BetweenEq", "OutOfStrict"}
      /\ lo \in Nat /\ hi \in Nat
      /\ bounds.min = V!Data("TimeStamp", lo) /\ bounds.max = V!Data("TimeStamp", hi)
  BY RangeAccepted DEF TypeOfGetter
<1>2. /\ bounds.form # "Eq"
      /\ bounds.form \in {"BetweenEq", "OutOfStrict"} => V!Lt(bounds.min, bounds.max)
  BY DEF Followed, V!TwoBounds
<1>3. v.data = n  BY DEF V!Data
<1>4. bounds.form # "Geq" => n # hi  BY <1>3 DEF AtUpperBound
<1>5. /\ V!Lt(bounds.min, bounds.max) <=> lo < hi
      /\ V!Le(v, bounds.max) <=> n <= hi
      /\ V!Le(bounds.min, v) <=> lo <= n
      /\ V!Lt(v, bounds.min) <=> n < lo
      /\ V!Lt(bounds.max, v) <=> hi < n
  BY <1>1, ComparedAsNumbers
<1>6. PICK m \in DatedThresholds(bounds) :
        /\ m.kinds = <<s>> /\ m.date <= n
        /\ \A o \in DatedThresholds(bounds) : o.date > m.date => \E t \in T : t.kinds = o.kinds
  BY DEF DatedState
<1>7. \A o \in DatedThresholds(bounds) : o.date > m.date => o.date > n
  <2> SUFFICES ASSUME NEW o \in DatedThresholds(bounds), o.date > m.date PROVE o.date > n
    OBVIOUS
  <2>1. PICK t \in T : t.kinds = o.kinds  BY <1>6
  <2>2. Movement(t.kinds, t.date) \in DatedThresholds(bounds)  BY DEF DatedState
  <2>3. Movement(t.kinds, t.date).kinds = t.kinds /\ Movement(t.kinds, t.date).date = t.date
    BY DEF Movement
  <2>4. o = Movement(t.kinds, t.date)  BY <2>1, <2>2, <2>3, DatedThresholdsAre
  <2> QED  BY <2>3, <2>4
<1>8. /\ \A d : /\ Enter(d).kinds = <<"Enter">> /\ Enter(d).date = d
                /\ Exit(d).kinds = <<"Exit">> /\ Exit(d).date = d
      /\ <<s>>[1] = s /\ <<"Enter">>[1] = "Enter" /\ <<"Exit">>[1] = "Exit"
  BY DEF Enter, Exit, Movement
<1>9. CASE bounds.form = "Leq"
  BY <1>6, <1>9 DEF DatedThresholds
<1>10. CASE bounds.form = "Geq"
  <2>1. DatedThresholds(bounds) = {Enter(lo)}  BY <1>10 DEF DatedThresholds
  <2>2. V!Contains(bounds, v) <=> lo <= n  BY <1>5, <1>10 DEF V!Contains
  <2> HIDE DEF bounds, lo, hi
  <2>3. s = "Enter" /\ lo <= n  BY <1>6, <1>8, <2>1
  <2>4. (s = "Enter") <=> V!Contains(bounds, v)  BY <2>2, <2>3
  <2> QED  BY <2>4 DEF bounds
<1>11. CASE bounds.form = "BetweenEq"
  <2>1. DatedThresholds(bounds) = {Enter(lo), Exit(hi)}  BY <1>11 DEF DatedThresholds
  <2>2. V!Contains(bounds, v) <=> lo <= n /\ n <= hi  BY <1>5, <1>11 DEF V!Contains
  <2>3. n # hi /\ lo < hi  BY <1>2, <1>4, <1>5, <1>11
  <2> HIDE DEF bounds, lo, hi
  <2>4. CASE m = Enter(lo)
    <3>1. s = "Enter" /\ lo <= n  BY <1>6, <1>8, <2>4
    <3>2. hi > n  BY <1>1, <1>7, <1>8, <2>1, <2>3, <2>4
    <3>3. (s = "Enter") <=> V!Contains(bounds, v)  BY <1>1, <2>2, <3>1, <3>2
    <3> QED  BY <3>3 DEF bounds
  <2>5. CASE m = Exit(hi)
    <3>1. s = "Exit" /\ hi <= n  BY <1>6, <1>8, <2>5
    <3>2. (s = "Enter") <=> V!Contains(bounds, v)  BY <1>1, <2>2, <2>3, <3>1
    <3> QED  BY <3>2 DEF bounds
  <2> QED  BY <1>6, <2>1, <2>4, <2>5
<1>12. CASE bounds.form = "OutOfStrict"
  <2>1. DatedThresholds(bounds) = {Exit(lo), Enter(hi)}  BY <1>12 DEF DatedThresholds
  <2>2. V!Contains(bounds, v) <=> n < lo \/ hi < n  BY <1>5, <1>12 DEF V!Contains
  <2>3. n # hi /\ lo < hi  BY <1>2, <1>4, <1>5, <1>12
  <2> HIDE DEF bounds, lo, hi
  <2>4. CASE m = Exit(lo)
    <3>1. s = "Exit" /\ lo <= n  BY <1>6, <1>8, <2>4
    <3>2. hi > n  BY <1>1, <1>7, <1>8, <2>1, <2>3, <2>4
    <3>3. (s = "Enter") <=> V!Contains(bounds, v)  BY <1>1, <2>2, <3>1, <3>2
    <3> QED  BY <3>3 DEF bounds
  <2>5. CASE m = Enter(hi)
    <3>1. s = "Enter" /\ hi <= n  BY <1>6, <1>8, <2>5
    <3>2. (s = "Enter") <=> V!Contains(bounds, v)  BY <1>1, <2>2, <2>3, <3>1
    <3> QED  BY <3>2 DEF bounds
  <2> QED  BY <1>6, <2>1, <2>4, <2>5
<1> QED  BY <1>1, <1>2, <1>9, <1>10, <1>11, <1>12

LEMMA ContainsOrNot ==
  ASSUME NEW getter, NEW bounds, Accepted(getter, bounds), NEW v
  PROVE  V!Contains(bounds, v) \in BOOLEAN
<1>1. bounds.form \in {"Leq", "Geq", "Eq", "BetweenEq", "OutOfStrict"}  BY RangeAccepted
<1>2. \A a, b : V!Le(a, b) \in BOOLEAN /\ V!Lt(a, b) \in BOOLEAN /\ V!ValueEq(a, b) \in BOOLEAN
  BY DEF V!Le, V!Lt, V!ValueEq
<1> QED  BY <1>1, <1>2 DEF V!Contains

(* A watch that has been told anything was last told Enter exactly if the   *)
(* time is in its range, however late the timers of                         *)
(* src/adapters/clock/mod.rs were, once none of them is due.                *)
THEOREM ClockFollows == ClockSpec => []ClockFollowsRange
<1>1. ASSUME ClockInv PROVE ClockFollowsRange
  <2> SUFFICES ASSUME NEW k \in DOMAIN clockWatch, OnTime, clockWatch[k].live,
                      Followed(clockWatch[k]), clockTold[k] # ClockUntold,
                      NEW v \in TimeValue(clockWatch[k].getter, now),
                      ~AtUpperBound(clockWatch[k], v)
               PROVE  (clockTold[k].kind = "Enter") = V!Contains(clockWatch[k].range, v)
    BY DEF ClockFollowsRange
  <2> DEFINE w == clockWatch[k]
  <2> DEFINE s == clockTold[k].kind
  <2> DEFINE T == TimersOf(k)
  <2>1. WatchInv(k) /\ now \in Nat /\ clockTold \in [DOMAIN clockWatch -> ToldClock]
    BY <1>1, ClockAssumption DEF ClockInv
  <2>2. s \in {"Enter", "Exit"}  BY <2>1 DEF ToldClock
  <2>3. Accepted(w.getter, w.range) /\ WatchState(w, T, s, now)
    <3>1. ClockSent(k) = s  BY DEF OnTime, ClockSent
    <3> QED  BY <2>1, <3>1 DEF WatchInv
  <2>4. \A t \in T : IsTimer(t) /\ t.date > now
    BY <1>1 DEF ClockInv, TimersInv, TimersOf, OnTime
  <2> HIDE DEF w, s, T
  <2>5. Followed(w) /\ ~AtUpperBound(w, v) /\ v \in TimeValue(w.getter, now)  BY DEF w
  <2>6. CASE w.getter = "timeofday"
    <3>1. EnterAt(w.range) # ExitAt(w.range)
      BY <2>3, <2>5, <2>6, PromisedDates DEF Followed, Promised
    <3>2. v = V!Data("Duration", TimeOfDay(now)) /\ TimeOfDay(now) \in 0 .. Day - 1
      BY <2>1, <2>5, <2>6, DivMod DEF TimeValue, TimeOfDay
    <3>3. DailyState(w.range, T, s, now)
      BY <2>3, <2>6, <3>1 DEF WatchState, Promised
    <3>4. (s = "Enter") <=> Inside(EnterAt(w.range), ExitAt(w.range), TimeOfDay(now))
      BY <2>1, <2>2, <2>3, <2>4, <2>6, <3>1, <3>3, DailyFollows
    <3>5. Inside(EnterAt(w.range), ExitAt(w.range), TimeOfDay(now)) <=> V!Contains(w.range, v)
      BY <2>3, <2>5, <2>6, <3>1, <3>2, InsideIsContained
    <3> QED  BY <2>3, <3>4, <3>5, ContainsOrNot DEF w, s
  <2>7. CASE w.getter = "timestamp"
    <3>1. v = V!Data("TimeStamp", now)  BY <2>5, <2>7 DEF TimeValue
    <3>2. DatedState(w.range, T, s, now)  BY <2>3, <2>7 DEF WatchState
    <3>3. (s = "Enter") <=> V!Contains(w.range, v)
      BY <2>1, <2>2, <2>3, <2>4, <2>5, <2>7, <3>1, <3>2, DatedFollows
    <3> QED  BY <2>3, <3>3, ContainsOrNot DEF w, s
  <2>8. w.getter \in {"timeofday", "timestamp"}  BY <2>3, <2>5, RangeAccepted DEF Followed
  <2> QED  BY <2>6, <2>7, <2>8
<1> QED  BY <1>1, ClockInvHolds, PTL

-----------------------------------------------------------------------------
(* The promise to watchers.                                                 *)

LastTold(k) == IF k \in DOMAIN clockTold THEN clockTold[k] ELSE ClockUntold
ClockToldOf == [k \in ClockKey |-> LastTold(k)]

LEMMA ClockTheInit ==
  ClockPromise!PromiseInit <=> ClockToldOf = [k \in ClockKey |-> ClockUntold] /\ Excused = {}
  BY DEF ClockPromise!PromiseInit, ClockPromise!Untold, ClockUntold, ClockToldOf, LastTold

LEMMA ClockTheTell ==
  ASSUME NEW k \in ClockKey, NEW kind \in {"Enter", "Exit"},
         ClockToldOf' = [ClockToldOf EXCEPT ![k] = [kind |-> kind, odd |-> ~ClockToldOf[k].odd]],
         k \in Excused' \/ kind # ClockToldOf[k].kind
  PROVE  ClockPromise!Tell(k)
  BY DEF ClockPromise!Tell, ClockToldOf, LastTold

LEMMA ClockTheStep ==
  ASSUME Excused \subseteq Excused',
         ClockToldOf' = ClockToldOf \/ \E k \in ClockKey : ClockPromise!Tell(k)
  PROVE  [ClockPromise!PromiseNext]_(ClockPromise!promise)
  BY DEF ClockPromise!PromiseNext, ClockToldOf, LastTold

(* Nothing is promised to the watches that are excused.                     *)
LEMMA ExcusedAre ==
  ASSUME ClockInv, NEW k \in DOMAIN clockWatch
  PROVE  k \in Excused <=> ~Promised(clockWatch[k])
<1>1. Accepted(clockWatch[k].getter, clockWatch[k].range)  BY DEF ClockInv, WatchInv
<1>2. CASE clockWatch[k].getter = "timeofday"
  <2>1. Cardinality(Dates(clockWatch[k])) < 2 <=> ~Promised(clockWatch[k])
    BY <1>1, <1>2, PromisedDates
  <2> QED  BY <1>2, <2>1 DEF Excused
<1>3. CASE clockWatch[k].getter # "timeofday"  BY <1>3 DEF Excused, Promised
<1> QED  BY <1>2, <1>3

LEMMA ExcusedStay ==
  ASSUME \A k \in DOMAIN clockWatch :
           /\ k \in DOMAIN clockWatch'
           /\ clockWatch'[k].getter = clockWatch[k].getter
           /\ clockWatch'[k].range = clockWatch[k].range
  PROVE  Excused \subseteq Excused'
<1> SUFFICES ASSUME NEW k \in Excused PROVE k \in Excused'  OBVIOUS
<1>1. /\ k \in DOMAIN clockWatch' /\ clockWatch'[k].getter = "timeofday"
      /\ clockWatch'[k].range = clockWatch[k].range /\ clockWatch[k].getter = "timeofday"
      /\ Cardinality(Dates(clockWatch[k])) < 2
  BY DEF Excused
<1>2. Dates(clockWatch'[k]) = Dates(clockWatch[k])  BY <1>1 DEF Dates
<1> QED  BY <1>1, <1>2 DEF Excused

LEMMA ClockStepsKeepPromise ==
  ASSUME ClockInv, [ClockNext]_clockVars
  PROVE  [ClockPromise!PromiseNext]_(ClockPromise!promise)
<1>0. /\ clockTold \in [DOMAIN clockWatch -> ToldClock]
      /\ DOMAIN clockTold = DOMAIN clockWatch
  BY DEF ClockInv
<1>1. ASSUME clockWatch' = clockWatch, clockTold' = clockTold
      PROVE  Excused \subseteq Excused' /\ ClockToldOf' = ClockToldOf
  BY <1>1, ExcusedStay DEF ClockToldOf, LastTold
<1>2. ASSUME NEW t \in timers, FireTimer(t)
      PROVE  clockWatch' = clockWatch /\ clockTold' = clockTold
  BY <1>2 DEF FireTimer
<1>3. Tick \/ UNCHANGED clockVars => clockWatch' = clockWatch /\ clockTold' = clockTold
  BY DEF Tick, clockVars
<1>4. ASSUME NEW getter \in ClockGetter, NEW bounds \in ClockRanges[getter],
             RegisterClockWatch(getter, bounds)
      PROVE  Excused \subseteq Excused' /\ ClockToldOf' = ClockToldOf
  <2>0. PICK k : k = Cardinality(DOMAIN clockWatch)  OBVIOUS
  <2>1. k \notin DOMAIN clockWatch
    BY <2>0, KeysInOrder
  <2>2. PICK w : clockWatch' = Put(clockWatch, k, w) /\ clockTold' = Put(clockTold, k, ClockUntold)
    BY <1>4, <2>0 DEF RegisterClockWatch
  <2>3. \A j \in DOMAIN clockWatch : j \in DOMAIN clockWatch' /\ clockWatch'[j] = clockWatch[j]
    BY <2>1, <2>2 DEF Put
  <2>4. Excused \subseteq Excused'  BY <2>3, ExcusedStay
  <2>5. \A j : LastTold(j)' = LastTold(j)
    BY <1>0, <2>1, <2>2 DEF Put, LastTold
  <2>6. ClockToldOf' = ClockToldOf  BY <2>5 DEF ClockToldOf
  <2> QED  BY <2>4, <2>6
<1>5. ASSUME NEW k \in ClockKey, DropClockGuard(k)
      PROVE  Excused \subseteq Excused' /\ ClockToldOf' = ClockToldOf
  <2>1. clockWatch' = [clockWatch EXCEPT ![k].live = FALSE] /\ clockTold' = clockTold
    BY <1>5 DEF DropClockGuard
  <2>2. \A j \in DOMAIN clockWatch : WatchInv(j)  BY DEF ClockInv
  <2>3. ASSUME NEW j \in DOMAIN clockWatch
        PROVE  /\ j \in DOMAIN clockWatch'
               /\ clockWatch'[j].getter = clockWatch[j].getter
               /\ clockWatch'[j].range = clockWatch[j].range
    <3>1. clockWatch'[j] = IF j = k THEN [clockWatch[j] EXCEPT !.live = FALSE] ELSE clockWatch[j]
      BY <2>1
    <3>2. clockWatch[j] = [getter |-> clockWatch[j].getter, range |-> clockWatch[j].range,
                           live |-> clockWatch[j].live]
      BY <2>2 DEF WatchInv
    <3>3. ASSUME NEW w, NEW g, NEW r, NEW l, w = [getter |-> g, range |-> r, live |-> l]
          PROVE  [w EXCEPT !.live = FALSE].getter = g /\ [w EXCEPT !.live = FALSE].range = r
      BY <3>3
    <3>4. j = k => /\ clockWatch'[j].getter = clockWatch[j].getter
                   /\ clockWatch'[j].range = clockWatch[j].range
      BY <3>1, <3>2, <3>3
    <3> QED  BY <2>1, <3>1, <3>4
  <2> QED  BY <2>1, <2>3, ExcusedStay DEF ClockToldOf, LastTold
<1>6. ASSUME SendClockEvent
      PROVE  /\ Excused \subseteq Excused'
             /\ \E k \in ClockKey : ClockPromise!Tell(k)
  <2>1. clockWatch' = clockWatch  BY <1>6 DEF SendClockEvent
  <2>2. Excused' = Excused  BY <2>1 DEF Excused
  <2>3. PICK k \in DOMAIN clockWatch, kind \in {"Enter", "Exit"} :
          /\ clockTold' = [clockTold EXCEPT ![k] = [kind |-> kind, odd |-> ~clockTold[k].odd]]
          /\ Promised(clockWatch[k]) => kind # clockTold[k].kind
    BY <1>6, EventSent
  <2>4. k \in ClockKey
    BY KeysInOrder, ClockAssumption DEF ClockKey
  <2>5. LastTold(k) = clockTold[k] /\ ClockToldOf[k] = clockTold[k]
    BY <1>0, <2>4 DEF LastTold, ClockToldOf
  <2>6. ClockToldOf' = [ClockToldOf EXCEPT ![k] = [kind |-> kind, odd |-> ~ClockToldOf[k].odd]]
    <3>1. DOMAIN clockTold' = DOMAIN clockTold  BY <2>3
    <3>2. \A j \in ClockKey :
            LastTold(j)' = IF j = k THEN [kind |-> kind, odd |-> ~clockTold[k].odd] ELSE LastTold(j)
      BY <1>0, <2>3, <3>1 DEF LastTold
    <3> QED  BY <2>5, <3>2 DEF ClockToldOf
  <2>7. k \in Excused' \/ kind # ClockToldOf[k].kind
    BY <2>2, <2>3, <2>5, ExcusedAre
  <2>8. ClockPromise!Tell(k)  BY <2>4, <2>6, <2>7, ClockTheTell
  <2> QED  BY <2>2, <2>4, <2>8
<1>7. CASE UNCHANGED clockVars  BY <1>1, <1>3, <1>7, ClockTheStep
<1>8. CASE ClockNext
  BY <1>1, <1>2, <1>3, <1>4, <1>5, <1>6, <1>8, ClockTheStep DEF ClockNext
<1> QED  BY <1>7, <1>8

(* Enter and Exit alternate, as src/components/taxonomy/src/adapter.rs      *)
(* promises, for every watcher of the clock but those whose range is        *)
(* entered and left at the same time of day.                                *)
THEOREM ClockPromiseKept == ClockSpec => ClockKeepsPromise
<1>1. ClockInit => ClockPromise!PromiseInit
  <2> SUFFICES ASSUME ClockInit
               PROVE  ClockToldOf = [k \in ClockKey |-> ClockUntold] /\ Excused = {}
    BY ClockTheInit
  <2>1. DOMAIN clockTold = {} /\ DOMAIN clockWatch = {}  BY DEF ClockInit, EmptyMap
  <2>2. \A k \in ClockKey : LastTold(k) = ClockUntold  BY <2>1 DEF LastTold
  <2> QED  BY <2>1, <2>2 DEF ClockToldOf, Excused
<1>2. ClockInv /\ [ClockNext]_clockVars => [ClockPromise!PromiseNext]_(ClockPromise!promise)
  BY ClockStepsKeepPromise
<1> QED
  BY <1>1, <1>2, ClockInvHolds, PTL DEF ClockSpec, ClockKeepsPromise, ClockPromise!Promise

-----------------------------------------------------------------------------
(* Fetching and sending.  The properties speak of the end of a call; in    *)
(* between, the channels of the adapters that were asked have results, and *)
(* the requests of the others are still what was prepared.                 *)

OfAdapter(a) == {c \in prepared : ChannelAt[c].adapter = a}
Asked == {c \in prepared : ChannelAt[c].adapter \notin DOMAIN request}

FetchInv ==
  exchange = "fetch" =>
    /\ prepared \subseteq GetterId
    /\ \A a \in DOMAIN request : request[a] = OfAdapter(a)
    /\ DOMAIN results = Asked /\ DOMAIN answers = Asked
    /\ delivered = EmptyMap
    /\ \A c \in Asked :
         \/ results[c] = Checked(c)
         \/ \E d \in Siblings(c) : TypeOf(d) # TypeOf(c) /\ results[c] \in {WrongType, answers[c]}

Sound == {c \in prepared : Typed(targets, c) # {}}
ToSend(a) == [c \in OfAdapter(a) \cap Sound |-> ValueFor(targets, c)]

SendInv ==
  exchange = "send" =>
    /\ targets \in Targets
    /\ prepared \subseteq SetterId /\ \A c \in prepared : Sent(targets, c) # {}
    /\ failures = {c \in prepared : Typed(targets, c) # Sent(targets, c)}
    /\ \A a \in DOMAIN request : request[a] = ToSend(a)
    /\ DOMAIN results = Asked
    /\ DOMAIN answers = Asked \cap Sound /\ DOMAIN delivered = Asked \cap Sound
    /\ \A c \in Asked \cap Sound :
         answers[c] \in {OkEmpty, AdapterError} /\ delivered[c] = ValueFor(targets, c)
    /\ \A c \in Asked : results[c] = IF c \in failures THEN WrongType ELSE answers[c]

ExchangeInv ==
  /\ present \subseteq Channel /\ exchange \in {"idle", "fetch", "send"}
  /\ exchange = "idle" =>
       /\ request = EmptyMap /\ results = EmptyMap /\ answers = EmptyMap
       /\ delivered = EmptyMap
  /\ FetchInv
  /\ SendInv

LEMMA DropFacts ==
  ASSUME NEW m, NEW S
  PROVE  /\ DOMAIN Drop(m, S) = DOMAIN m \ S
         /\ \A k \in DOMAIN m \ S : Drop(m, S)[k] = m[k]
BY DEF Drop, Restrict

LEMMA LastExists ==
  ASSUME NEW n \in Nat, NEW S \in SUBSET (1 .. n), S # {}
  PROVE  \E i \in S : \A j \in S : j <= i
<1> DEFINE T == {n - i : i \in S}
<1>1. T \subseteq Nat /\ T # {}
  <2>1. \A i \in S : n - i \in Nat  OBVIOUS
  <2>2. PICK i \in S : TRUE  OBVIOUS
  <2>3. n - i \in T  BY <2>2
  <2> QED  BY <2>1, <2>3
<1> DEFINE R == {ss \in Nat \X Nat : ss[1] < ss[2]}
<1>0. IsWellFoundedOn(R, Nat)  BY NatLessThanWellFounded DEF OpToRel
<1> HIDE DEF T
<1>2. PICK x \in T : \A y \in T : <<y, x>> \notin R
  BY <1>0, <1>1, WFMin
<1>3. \A y \in T : ~ (y < x)
  BY <1>1, <1>2
<1> USE DEF T
<1>4. PICK i \in S : x = n - i  OBVIOUS
<1>5. \A j \in S : ~ (n - j < n - i)  BY <1>3, <1>4
<1> QED  BY <1>4, <1>5

LEMMA AnswerFacts ==
  /\ OkEmpty # WrongType /\ AdapterError # WrongType
  /\ DOMAIN EmptyMap = {}
BY DEF OkEmpty, AdapterError, WrongType, Answer, EmptyMap

(* Who is still to be asked, once an adapter has answered.                  *)
LEMMA AskedFacts ==
  ASSUME NEW a \in DOMAIN request, request' = Drop(request, {a}), prepared' = prepared
  PROVE  /\ DOMAIN request' = DOMAIN request \ {a}
         /\ \A b \in DOMAIN request' : request'[b] = request[b]
         /\ Asked' = Asked \cup OfAdapter(a) /\ Asked \cap OfAdapter(a) = {}
<1>1. /\ DOMAIN request' = DOMAIN request \ {a}
      /\ \A b \in DOMAIN request' : request'[b] = request[b]
  <2>1. /\ DOMAIN Drop(request, {a}) = DOMAIN request \ {a}
        /\ \A k \in DOMAIN request \ {a} : Drop(request, {a})[k] = request[k]
    BY DropFacts
  <2> QED  BY <2>1
<1> QED  BY <1>1 DEF Asked, OfAdapter

LEMMA PrepareFetchKeeps ==
  ASSUME ExchangeInv, exchange = "idle", NEW selected \in SUBSET GetterId, PrepareFetch(selected)
  PROVE  ExchangeInv'
<1>1. /\ exchange' = "fetch" /\ prepared' = selected \cap present
      /\ request' = ByAdapter(prepared')
      /\ present' = present /\ results' = EmptyMap /\ answers' = EmptyMap
      /\ delivered' = EmptyMap
  BY DEF PrepareFetch, ExchangeInv
<1>2. /\ DOMAIN request' = {ChannelAt[c].adapter : c \in prepared'}
      /\ \A a \in DOMAIN request' : request'[a] = {c \in prepared' : ChannelAt[c].adapter = a}
  BY <1>1 DEF ByAdapter
<1>3. Asked' = {}  BY <1>2 DEF Asked
<1>4. FetchInv'  BY <1>1, <1>2, <1>3, AnswerFacts DEF FetchInv, OfAdapter
<1> QED  BY <1>1, <1>4 DEF ExchangeInv, SendInv

LEMMA FetchFromKeeps ==
  ASSUME ExchangeInv, exchange = "fetch", NEW a \in DOMAIN request,
         NEW position \in Orders(request[a]), NEW answer, FetchFrom(a, answer, position)
  PROVE  ExchangeInv'
<1> DEFINE ids == request[a]
<1>1. /\ prepared \subseteq GetterId
      /\ \A b \in DOMAIN request : request[b] = OfAdapter(b)
      /\ DOMAIN results = Asked /\ DOMAIN answers = Asked
      /\ delivered = EmptyMap
      /\ \A c \in Asked :
           \/ results[c] = Checked(c)
           \/ \E d \in Siblings(c) : TypeOf(d) # TypeOf(c) /\ results[c] \in {WrongType, answers[c]}
  BY DEF ExchangeInv, FetchInv
<1>2. ids = OfAdapter(a)  BY <1>1
<1>3. /\ results' = [c \in DOMAIN results \cup ids |->
           IF c \notin ids THEN results[c]
           ELSE IF answer[c].is = "value" /\ answer[c].value.type # TypeOf(position[c])
                THEN WrongType ELSE answer[c]]
      /\ answers' = [c \in DOMAIN answers \cup ids |-> IF c \in ids THEN answer[c] ELSE answers[c]]
      /\ request' = Drop(request, {a})
      /\ UNCHANGED <<present, exchange, failures, targets, prepared, delivered>>
  BY DEF FetchFrom
<1>4. /\ DOMAIN request' = DOMAIN request \ {a}
      /\ \A b \in DOMAIN request' : request'[b] = request[b]
      /\ Asked' = Asked \cup ids /\ Asked \cap ids = {}
  BY <1>2, <1>3, AskedFacts
<1>5. DOMAIN results' = Asked' /\ DOMAIN answers' = Asked'
  BY <1>1, <1>3, <1>4
<1>6. ASSUME NEW c \in Asked'
      PROVE  \/ results'[c] = Checked(c)'
             \/ \E d \in Siblings(c)' :
                  TypeOf(d) # TypeOf(c) /\ results'[c] \in {WrongType, answers'[c]}
  <2>1. CASE c \in ids
    <3>1. /\ results'[c] = IF answer[c].is = "value" /\ answer[c].value.type # TypeOf(position[c])
                           THEN WrongType ELSE answer[c]
          /\ answers'[c] = answer[c]
      BY <1>3, <2>1
    <3>2. position[c] \in ids  BY <2>1 DEF Orders
    <3>3. position[c] \in Siblings(c)'
      BY <1>2, <1>3, <2>1, <3>2 DEF Siblings, OfAdapter
    <3>4. CASE TypeOf(position[c]) = TypeOf(c)
      <4>1. results'[c] = Checked(c)'  BY <3>1, <3>4 DEF Checked
      <4> QED  BY <4>1
    <3>5. CASE TypeOf(position[c]) # TypeOf(c)
      <4>1. results'[c] \in {WrongType, answers'[c]}  BY <3>1
      <4> QED  BY <3>3, <3>5, <4>1
    <3> QED  BY <3>4, <3>5
  <2>2. CASE c \notin ids
    <3>1. c \in Asked  BY <1>4, <2>2
    <3>2. results'[c] = results[c] /\ answers'[c] = answers[c]  BY <1>1, <1>3, <2>2, <3>1
    <3>3. Checked(c)' = Checked(c)  BY <3>2 DEF Checked
    <3>4. Siblings(c)' = Siblings(c)  BY <1>3 DEF Siblings
    <3> QED  BY <1>1, <3>1, <3>2, <3>3, <3>4
  <2> QED  BY <2>1, <2>2
<1>7. \A b \in DOMAIN request' : request'[b] = OfAdapter(b)'
  BY <1>1, <1>3, <1>4 DEF OfAdapter
<1>8. FetchInv'  BY <1>1, <1>3, <1>5, <1>6, <1>7 DEF FetchInv
<1> QED  BY <1>3, <1>8 DEF ExchangeInv, SendInv

(* The last target of the right type, if there is one.                      *)
LEMMA ValueFacts ==
  ASSUME NEW ts \in Targets, NEW c, Typed(ts, c) # {}
  PROVE  \E i \in Typed(ts, c) :
           ValueFor(ts, c) = ts[i].value /\ \A j \in Typed(ts, c) : j <= i
<1>1. PICK n \in 1 .. MaxTargets : ts \in [1 .. n -> Target]
  BY DEF Targets
<1>2. n \in Nat /\ Typed(ts, c) \in SUBSET (1 .. n)
  BY <1>1, ExchangeAssumption DEF Typed, Sent
<1> DEFINE Latest(i) == \A j \in Typed(ts, c) : j <= i
<1>3. \E i \in Typed(ts, c) : Latest(i)  BY <1>2, LastExists
<1> DEFINE m == CHOOSE i \in Typed(ts, c) : Latest(i)
<1>4. m \in Typed(ts, c) /\ Latest(m)  BY <1>3
<1>5. ValueFor(ts, c) = ts[m].value  BY DEF ValueFor
<1> QED  BY <1>4, <1>5

LEMMA PrepareSendKeeps ==
  ASSUME ExchangeInv, exchange = "idle", NEW ts \in Targets, PrepareSend(ts)
  PROVE  ExchangeInv'
<1>1. /\ exchange' = "send" /\ targets' = ts
      /\ prepared' = {c \in SetterId \cap present : Sent(ts, c) # {}}
      /\ failures' = {c \in prepared' : Typed(ts, c) # Sent(ts, c)}
      /\ present' = present /\ results' = EmptyMap /\ answers' = EmptyMap
      /\ delivered' = EmptyMap
  BY DEF PrepareSend, ExchangeInv
<1>2. request' = [a \in DOMAIN ByAdapter(prepared') |->
        [c \in {x \in {y \in prepared' : Typed(ts, y) # {}} : ChannelAt[x].adapter = a} |->
           ValueFor(ts, c)]]
  BY DEF PrepareSend
<1>3. DOMAIN request' = {ChannelAt[c].adapter : c \in prepared'}
  BY <1>2 DEF ByAdapter
<1>4. Sound' = {y \in prepared' : Typed(ts, y) # {}}  BY <1>1 DEF Sound
<1>5. ASSUME NEW a \in DOMAIN request'
      PROVE  request'[a] = ToSend(a)'
  <2>1. {x \in Sound' : ChannelAt[x].adapter = a} = OfAdapter(a)' \cap Sound'
    BY DEF OfAdapter, Sound
  <2>2. request'[a] = [c \in {x \in Sound' : ChannelAt[x].adapter = a} |-> ValueFor(ts, c)]
    BY <1>2, <1>4
  <2> QED  BY <1>1, <2>1, <2>2 DEF ToSend
<1>6. Asked' = {}  BY <1>3 DEF Asked
<1>7. SendInv'
  <2>1. prepared' \subseteq SetterId /\ \A c \in prepared' : Sent(targets', c) # {}  BY <1>1
  <2>2. DOMAIN results' = {} /\ DOMAIN answers' = {} /\ DOMAIN delivered' = {}
    BY <1>1, AnswerFacts
  <2> QED  BY <1>1, <1>5, <1>6, <2>1, <2>2 DEF SendInv
<1> QED  BY <1>1, <1>7 DEF ExchangeInv, FetchInv

LEMMA SendToKeeps ==
  ASSUME ExchangeInv, exchange = "send", NEW a \in DOMAIN request,
         NEW answer \in [DOMAIN request[a] -> {OkEmpty, AdapterError}], SendTo(a, answer)
  PROVE  ExchangeInv'
<1> DEFINE ids == DOMAIN request[a]
           failed == {c \in failures : ChannelAt[c].adapter = a}
<1>1. /\ targets \in Targets
      /\ prepared \subseteq SetterId /\ \A c \in prepared : Sent(targets, c) # {}
      /\ failures = {c \in prepared : Typed(targets, c) # Sent(targets, c)}
      /\ \A b \in DOMAIN request : request[b] = ToSend(b)
      /\ DOMAIN results = Asked
      /\ DOMAIN answers = Asked \cap Sound /\ DOMAIN delivered = Asked \cap Sound
      /\ \A c \in Asked \cap Sound :
           answers[c] \in {OkEmpty, AdapterError} /\ delivered[c] = ValueFor(targets, c)
      /\ \A c \in Asked : results[c] = IF c \in failures THEN WrongType ELSE answers[c]
  BY DEF ExchangeInv, SendInv
<1>2. /\ ids = OfAdapter(a) \cap Sound
      /\ \A c \in ids : request[a][c] = ValueFor(targets, c)
  BY <1>1 DEF ToSend
<1>3. /\ results' = [c \in DOMAIN results \cup ids \cup failed |->
                       IF c \in failed THEN WrongType
                       ELSE IF c \in ids THEN answer[c] ELSE results[c]]
      /\ answers' = [c \in DOMAIN answers \cup ids |-> IF c \in ids THEN answer[c] ELSE answers[c]]
      /\ delivered' = [c \in DOMAIN delivered \cup ids |->
                         IF c \in ids THEN request[a][c] ELSE delivered[c]]
      /\ request' = Drop(request, {a})
      /\ UNCHANGED <<present, exchange, failures, targets, prepared>>
  BY DEF SendTo
<1>4. /\ DOMAIN request' = DOMAIN request \ {a}
      /\ \A b \in DOMAIN request' : request'[b] = request[b]
      /\ Asked' = Asked \cup OfAdapter(a) /\ Asked \cap OfAdapter(a) = {}
  BY <1>3, AskedFacts
<1>5. OfAdapter(a) = ids \cup failed /\ failed = OfAdapter(a) \cap failures
  <2>1. \A c \in prepared : c \in Sound \/ c \in failures
    BY <1>1 DEF Sound
  <2> QED  BY <1>1, <1>2, <2>1 DEF OfAdapter
<1> HIDE DEF ids, failed
<1>6. Sound' = Sound /\ \A b : OfAdapter(b)' = OfAdapter(b) /\ ToSend(b)' = ToSend(b)
  BY <1>3 DEF Sound, OfAdapter, ToSend
<1>7. DOMAIN results' = Asked'  BY <1>1, <1>3, <1>4, <1>5
<1>8. DOMAIN answers' = Asked' \cap Sound /\ DOMAIN delivered' = Asked' \cap Sound
  BY <1>1, <1>2, <1>3, <1>4
<1>9. ASSUME NEW c \in Asked'
      PROVE  /\ c \in Sound =>
                  answers'[c] \in {OkEmpty, AdapterError} /\ delivered'[c] = ValueFor(targets, c)
             /\ results'[c] = IF c \in failures THEN WrongType ELSE answers'[c]
  <2>1. CASE c \in OfAdapter(a)
    <3>1. c \in Sound => c \in ids  BY <1>2, <2>1
    <3>2. c \in ids =>
            /\ answers'[c] = answer[c] /\ answer[c] \in {OkEmpty, AdapterError}
            /\ delivered'[c] = ValueFor(targets, c)
      BY <1>2, <1>3 DEF ids
    <3>3. c \in failures => results'[c] = WrongType  BY <1>3, <1>5, <2>1
    <3>4. c \notin failures => c \in ids /\ results'[c] = answer[c]  BY <1>3, <1>5, <2>1
    <3> QED  BY <3>1, <3>2, <3>3, <3>4
  <2>2. CASE c \notin OfAdapter(a)
    <3>1. c \in Asked /\ c \notin ids /\ c \notin failed  BY <1>2, <1>4, <1>5, <2>2
    <3>2. results'[c] = results[c]  BY <1>1, <1>3, <3>1
    <3>3. c \in Sound => answers'[c] = answers[c] /\ delivered'[c] = delivered[c]
      BY <1>1, <1>3, <3>1
    <3>4. c \notin failures => c \in Sound  BY <1>1, <3>1 DEF Asked, Sound
    <3> QED  BY <1>1, <3>1, <3>2, <3>3, <3>4
  <2> QED  BY <2>1, <2>2
<1>10. \A b \in DOMAIN request' : request'[b] = ToSend(b)'
  BY <1>1, <1>4, <1>6
<1>11. SendInv'
  BY <1>1, <1>3, <1>6, <1>7, <1>8, <1>9, <1>10 DEF SendInv
<1> QED  BY <1>3, <1>11 DEF ExchangeInv, FetchInv

LEMMA ExchangeSpecInv == ExchangeSpec => []ExchangeInv
<1>1. ExchangeInit => ExchangeInv
  BY DEF ExchangeInit, ExchangeInv, FetchInv, SendInv
<1>2. ExchangeInv /\ [ExchangeNext]_exchangeVars => ExchangeInv'
  <2> SUFFICES ASSUME ExchangeInv, [ExchangeNext]_exchangeVars  PROVE ExchangeInv'
    OBVIOUS
  <2>1. ASSUME present' \subseteq Channel,
               UNCHANGED <<exchange, request, failures, results, targets, prepared, answers, delivered>>
        PROVE  ExchangeInv'
    <3>1. /\ Asked' = Asked /\ Sound' = Sound /\ \A a : OfAdapter(a)' = OfAdapter(a)
          /\ \A a : ToSend(a)' = ToSend(a)
          /\ \A c : Checked(c)' = Checked(c) /\ Siblings(c)' = Siblings(c)
      BY <2>1 DEF Asked, Sound, OfAdapter, ToSend, Checked, Siblings
    <3>2. FetchInv'  BY <2>1, <3>1 DEF ExchangeInv, FetchInv
    <3>3. SendInv'  BY <2>1, <3>1 DEF ExchangeInv, SendInv
    <3> QED  BY <2>1, <3>2, <3>3 DEF ExchangeInv
  <2>2. ASSUME NEW c \in Channel, ChannelComesOrGoes(c)
        PROVE  ExchangeInv'
    <3>1. present' \subseteq Channel  BY <2>2 DEF ChannelComesOrGoes, ExchangeInv
    <3> QED  BY <2>1, <2>2, <3>1 DEF ChannelComesOrGoes
  <2>3. CASE Call
    BY <2>3, PrepareFetchKeeps, PrepareSendKeeps DEF Call
  <2>4. CASE FetchNext
    BY <2>4, FetchFromKeeps DEF FetchNext
  <2>5. CASE SendNext
    BY <2>5, SendToKeeps DEF SendNext
  <2>6. CASE UNCHANGED exchangeVars
    <3>1. present' \subseteq Channel  BY <2>6 DEF exchangeVars, ExchangeInv
    <3> QED  BY <2>1, <2>6, <3>1 DEF exchangeVars
  <2> QED  BY <2>2, <2>3, <2>4, <2>5, <2>6 DEF ExchangeNext
<1> QED  BY <1>1, <1>2, PTL DEF ExchangeSpec

(* Whatever channels come and go, and however adapters answer: each getter  *)
(* that was selected gets the answer of its adapter, or a type error, and   *)
(* the wrong one of the two only beside a getter of another type.           *)
THEOREM GettersGetTheirAnswers == ExchangeSpec => []FetchedAsAnswered
<1>1. ExchangeInv => FetchedAsAnswered
  <2> SUFFICES ASSUME ExchangeInv, Finished, exchange = "fetch"
               PROVE  /\ DOMAIN results = prepared
                      /\ \A c \in prepared :
                           \/ results[c] = Checked(c)
                           \/ \E d \in Siblings(c) :
                                TypeOf(d) # TypeOf(c) /\ results[c] \in {WrongType, answers[c]}
    BY DEF FetchedAsAnswered
  <2>1. Asked = prepared  BY AnswerFacts DEF Finished, Asked
  <2> QED  BY <2>1 DEF ExchangeInv, FetchInv
<1> QED  BY <1>1, ExchangeSpecInv, PTL

(* Whatever is sent to which setters: adapters are given values of the      *)
(* right type only, and a setter that reports no type error was given the   *)
(* last of all the values sent to it.                                       *)
THEOREM SettersGetTheLastValue == ExchangeSpec => []SentAsReported
<1>1. ExchangeInv => SentAsReported
  <2> SUFFICES ASSUME ExchangeInv  PROVE SentAsReported
    OBVIOUS
  <2>1. ASSUME NEW c \in DOMAIN delivered
        PROVE  delivered[c].type = TypeOf(c)
    <3>1. exchange = "send"
      BY AnswerFacts DEF ExchangeInv, FetchInv
    <3>2. c \in Sound /\ delivered[c] = ValueFor(targets, c) /\ targets \in Targets
      BY <3>1 DEF ExchangeInv, SendInv
    <3>3. PICK i \in Typed(targets, c) : ValueFor(targets, c) = targets[i].value
      BY <3>2, ValueFacts DEF Sound
    <3> QED  BY <3>2, <3>3 DEF Typed
  <2>2. ASSUME Finished, exchange = "send"
        PROVE  /\ DOMAIN results = prepared
               /\ \A c \in prepared :
                    LET mine == {i \in DOMAIN targets : c \in targets[i].select}
                    IN IF results[c] = WrongType
                       THEN \E i \in mine : targets[i].value.type # TypeOf(c)
                       ELSE /\ results[c] = answers[c]
                            /\ \E i \in mine : delivered[c] = targets[i].value
                                               /\ \A j \in mine : j <= i
    <3>1. Asked = prepared  BY <2>2, AnswerFacts DEF Finished, Asked
    <3>2. DOMAIN results = prepared  BY <2>2, <3>1 DEF ExchangeInv, SendInv
    <3>3. ASSUME NEW c \in prepared, results[c] = WrongType
          PROVE  \E i \in Sent(targets, c) : targets[i].value.type # TypeOf(c)
      <4>1. c \in failures
        BY <2>2, <3>1, <3>3, AnswerFacts DEF ExchangeInv, SendInv, Sound
      <4>2. Typed(targets, c) # Sent(targets, c)
        BY <2>2, <4>1 DEF ExchangeInv, SendInv
      <4> QED  BY <4>2 DEF Typed
    <3>4. ASSUME NEW c \in prepared, results[c] # WrongType
          PROVE  /\ results[c] = answers[c]
                 /\ \E i \in Sent(targets, c) :
                      delivered[c] = targets[i].value /\ \A j \in Sent(targets, c) : j <= i
      <4>1. /\ results[c] = answers[c] /\ Typed(targets, c) = Sent(targets, c)
            /\ Sent(targets, c) # {} /\ targets \in Targets
        BY <2>2, <3>1, <3>4 DEF ExchangeInv, SendInv
      <4>2. delivered[c] = ValueFor(targets, c)
        BY <2>2, <3>1, <4>1 DEF ExchangeInv, SendInv, Sound
      <4> QED  BY <4>1, <4>2, ValueFacts
    <3> QED  BY <3>2, <3>3, <3>4 DEF Sent
  <2> QED  BY <2>1, <2>2 DEF SentAsReported
<1> QED  BY <1>1, ExchangeSpecInv, PTL

(* The channels of the failures, and of the adapters that are still to be   *)
(* asked, were selected.                                                    *)
PreparedInv ==
  /\ failures \subseteq prepared
  /\ exchange = "idle" => failures = {} /\ DOMAIN request = {}
  /\ \A a \in DOMAIN request : \E c \in prepared : ChannelAt[c].adapter = a

LEMMA PrepareKeepsPrepared ==
  ASSUME PreparedInv, Call
  PROVE  PreparedInv'
<1>1. exchange = "idle" /\ failures = {}  BY DEF Call, PreparedInv
<1>2. ASSUME NEW selected \in SUBSET GetterId, PrepareFetch(selected)
      PROVE  PreparedInv'
  <2>1. exchange' = "fetch" /\ failures' = {} /\ request' = ByAdapter(prepared')
    BY <1>1, <1>2 DEF PrepareFetch
  <2>2. DOMAIN request' = {ChannelAt[c].adapter : c \in prepared'}  BY <2>1 DEF ByAdapter
  <2> QED  BY <2>1, <2>2 DEF PreparedInv
<1>3. ASSUME NEW ts \in Targets, PrepareSend(ts)
      PROVE  PreparedInv'
  <2>1. /\ exchange' = "send" /\ failures' = {c \in prepared' : Typed(ts, c) # Sent(ts, c)}
        /\ DOMAIN request' = DOMAIN ByAdapter(prepared')
    BY <1>3 DEF PrepareSend
  <2>2. DOMAIN request' = {ChannelAt[c].adapter : c \in prepared'}  BY <2>1 DEF ByAdapter
  <2> QED  BY <2>1, <2>2 DEF PreparedInv
<1> QED  BY <1>2, <1>3 DEF Call

(* A call of either kind keeps its types until its end, whatever channels   *)
(* come and go meanwhile.                                                   *)
THEOREM ExchangeTypeCorrect == ExchangeSpec => []ExchangeTypeOK
<1>1. ExchangeInit => PreparedInv
  BY AnswerFacts DEF ExchangeInit, PreparedInv
<1>2. PreparedInv /\ [ExchangeNext]_exchangeVars => PreparedInv'
  <2> SUFFICES ASSUME PreparedInv, [ExchangeNext]_exchangeVars  PROVE PreparedInv'
    OBVIOUS
  <2>1. CASE UNCHANGED <<exchange, request, failures, prepared>>
    BY <2>1 DEF PreparedInv
  <2>2. ASSUME NEW a \in DOMAIN request, request' = Drop(request, {a}),
               UNCHANGED <<exchange, failures, prepared>>
        PROVE  PreparedInv'
    <3>1. DOMAIN request' = DOMAIN request \ {a}  BY <2>2, DropFacts
    <3> QED  BY <2>2, <3>1 DEF PreparedInv
  <2>3. CASE \E c \in Channel : ChannelComesOrGoes(c)
    BY <2>1, <2>3 DEF ChannelComesOrGoes
  <2>4. CASE Call  BY <2>4, PrepareKeepsPrepared
  <2>5. CASE FetchNext  BY <2>2, <2>5 DEF FetchNext, FetchFrom
  <2>6. CASE SendNext  BY <2>2, <2>6 DEF SendNext, SendTo
  <2>7. CASE UNCHANGED exchangeVars  BY <2>1, <2>7 DEF exchangeVars
  <2> QED  BY <2>3, <2>4, <2>5, <2>6, <2>7 DEF ExchangeNext
<1>3. ExchangeInv /\ PreparedInv => ExchangeTypeOK
  <2> SUFFICES ASSUME ExchangeInv, PreparedInv  PROVE ExchangeTypeOK
    OBVIOUS
  <2>1. CASE exchange = "idle"
    BY <2>1, AnswerFacts DEF ExchangeInv, PreparedInv, ExchangeTypeOK
  <2>2. CASE exchange = "fetch"
    BY <2>2, AnswerFacts DEF ExchangeInv, FetchInv, PreparedInv, ExchangeTypeOK, Asked
  <2>3. CASE exchange = "send"
    BY <2>3 DEF ExchangeInv, SendInv, PreparedInv, ExchangeTypeOK, Asked
  <2> QED  BY <2>1, <2>2, <2>3 DEF ExchangeInv
<1> QED  BY <1>1, <1>2, <1>3, ExchangeSpecInv, PTL DEF ExchangeSpec

-----------------------------------------------------------------------------
(* The taxonomy, as MCTaxonomy composes it.  Each of its steps is one of a  *)
(* part, and leaves the others alone.                                       *)

LEMMA TaxonomyStepsAreOfItsParts ==
  ASSUME [TaxonomyNext]_taxonomyVars
  PROVE  /\ [Next]_vars
         /\ [ClockNext]_clockVars
         /\ [SelectorsNext]_selectorVars
         /\ [ExchangeNext]_exchangeVars
         /\ [TripsNext]_tripVars
<1>1. CASE InOpenZWave /\ Next  BY <1>1 DEF InOpenZWave
<1>2. CASE InClock /\ ClockNext  BY <1>2 DEF InClock
<1>3. CASE InSelectors /\ SelectorsNext  BY <1>3 DEF InSelectors
<1>4. CASE InExchange /\ ExchangeNext  BY <1>4 DEF InExchange
<1>5. CASE InTrips /\ TripsNext  BY <1>5 DEF InTrips
<1>6. CASE UNCHANGED taxonomyVars  BY <1>6 DEF taxonomyVars
<1> QED  BY <1>1, <1>2, <1>3, <1>4, <1>5, <1>6 DEF TaxonomyNext

(* What is proved of a part holds in the whole, which does to each part     *)
(* what its specification allows and no more.                               *)
THEOREM TaxonomyRunsItsParts ==
  TaxonomySpec => Spec /\ ClockSpec /\ SelectorsSpec /\ ExchangeSpec /\ TripsSpec
<1>1. TaxonomyInit => Init /\ ClockInit /\ SelectorsInit /\ ExchangeInit /\ TripsInit
  BY DEF TaxonomyInit
<1> QED
  BY <1>1, TaxonomyStepsAreOfItsParts, PTL
  DEF TaxonomySpec, Spec, ClockSpec, SelectorsSpec, ExchangeSpec, TripsSpec

(* All of it keeps its types.                                               *)
THEOREM TaxonomyTypeCorrect == TaxonomySpec => []TaxonomyTypeOK
<1>1. TypeOK /\ ClockTypeOK /\ SelectorsTypeOK /\ ExchangeTypeOK /\ TripsTypeOK
        => TaxonomyTypeOK
  BY DEF TaxonomyTypeOK
<1> QED
  BY <1>1, TaxonomyRunsItsParts, OpenZWaveTypeCorrect, ClockTypeCorrect, SelectorsTypeCorrect,
     ExchangeTypeCorrect, TripsTypeCorrect, PTL
===============================================================================
