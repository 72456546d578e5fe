------------------------------- MODULE MCWatch --------------------------------
(* The watch protocol on small instances: see the .cfg files for the sets   *)
(* and the bounds.                                                          *)
EXTENDS Watch, TLC

x == [word |-> "x", quotes |-> 0]  \* tags
y == [word |-> "y", quotes |-> 0]
OneTag == {x}
TwoTags == {x, y}

AnyGetter == [ids |-> GetterId, parents |-> ServiceId, tags |-> {}, service_tags |-> {}]
TaggedGetter == [AnyGetter EXCEPT !.tags = {x}]
OfTaggedService == [AnyGetter EXCEPT !.service_tags = {x}]

Values(selectors) == [select |-> selectors, payload |-> "Always"]
Topology(selectors) == [select |-> selectors, payload |-> "Never"]

(* Watch the values of the tagged getters.                                  *)
ByTag == {{Values({TaggedGetter})}}

(* The same, or their topology only, or two targets the same getter may     *)
(* match, so that the assertion on attaching twice can fail.                *)
ByTags == ByTag \cup {{Values({TaggedGetter}), Topology({OfTaggedService})}}
=============================================================================
