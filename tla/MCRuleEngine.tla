------------------------------ MODULE MCRuleEngine ------------------------------
(* Six rules over five families: r3 ties two tables together, r5 ties a    *)
(* third by the model turn it shares with r4 and r6.                       *)
EXTENDS RuleEngine

CONSTANTS r1, r2, r3, r4, r5, r6, fn, cls, call, mod, test

FiveFamilies == {fn, cls, call, mod, test}
SixRules == {r1, r2, r3, r4, r5, r6}
SixReads ==
    r1 :> {fn} @@ r2 :> {cls} @@ r3 :> {fn, cls} @@ r4 :> {call} @@ r5 :> {mod, cls}
    @@ r6 :> {test}
ThreeModelRules == {r4, r5, r6}
================================================================================
