------------------------------ MODULE MCRegistry ------------------------------
(* The registry on a small instance: see the .cfg for the sets.             *)
EXTENDS Registry, FiniteSets, TLC

(* A tag without a quote, and one with a quote.                             *)
Plain == [word |-> "x", quotes |-> 0]
WithQuote == [word |-> "x", quotes |-> 1]
Tags == {Plain, WithQuote}

(* The rows of different objects do not mix: while a quote is about, at    *)
(* most MaxTagged objects have tags.                                        *)
MaxTagged == 1
TagRows == TagsInMemory \cup db \cup given \cup lost
QuotesApart == (\E row \in TagRows : row[2] # Plain)
  => Cardinality({row[1] : row \in TagRows}) <= MaxTagged

(* Getters are interchangeable, and so are services.                        *)
Symmetry == Permutations(AdapterId) \cup Permutations(ServiceId)
=============================================================================
