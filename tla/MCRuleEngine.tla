----------------------------- MODULE MCRuleEngine -----------------------------
(* Scripts of two or three conditions on two getters: see the .cfg files.    *)
EXTENDS RuleEngine, TLC

CONSTANTS r1, r2, c1, c2, c3, g1, g2

(* All conditions watch g1.  c2 and c3 have a duration: r1 has one timer for  *)
(* c2 although c1 has none, r2 has one for c3 alone.                         *)
MixedRules == c1 :> r1 @@ c2 :> r1 @@ c3 :> r2
MixedSources == c1 :> {g1, g2} @@ c2 :> {g1} @@ c3 :> {g1}

(* One rule, one condition with a duration, two getters.                     *)
SharedTimerRule == c1 :> r1
SharedTimerSources == c1 :> {g1, g2}

(* One rule with two conditions, one with a duration.                        *)
TwoConditions == c1 :> r1 @@ c2 :> r1
TwoSources == c1 :> {g1} @@ c2 :> {g2}
=============================================================================
