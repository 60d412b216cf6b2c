------------------------------ MODULE MCPublication ------------------------------
(* Two rules on one table: r1 reports one symbol of the file app and two   *)
(* of the file lib, r2 reports none.                                       *)
EXTENDS Publication, TLC

CONSTANTS r1, r2, app, lib, s1, s2, s3

TwoRules == {r1, r2}
ThreeSymbols == {s1, s2, s3}
RulesOf == s1 :> r1 @@ s2 :> r1 @@ s3 :> r1
FilesOf == s1 :> app @@ s2 :> lib @@ s3 :> lib
TwoSymbols == {s2, s3}
RulesOfTwo == s2 :> r1 @@ s3 :> r1
FilesOfTwo == s2 :> lib @@ s3 :> lib
Selections == {{r1}, {r2}}

(* Nothing fails and every read is current.                                *)
Calm ==
    /\ step \in {"report", "resolve"} => (step' # step => late' = {})
    /\ step' = "idle" => complete'
    /\ attempts' = 0
CalmSpec == Init /\ [][Next /\ Calm]_vars
================================================================================
