------------------------------ MODULE MCModelTurns ------------------------------
(* Three rules of up to four candidates in two directories.  Rules 1 and 3 *)
(* share evidence.  The tokenizer counts some claims higher than the       *)
(* estimate does, and one claim exceeds the budget of a request.           *)
EXTENDS ModelTurns

ThreeRules == 1..3
Counts == [ThreeRules -> {0, 1, 3}] \cup {<<4, 2, 0>>, <<2, 4, 1>>, <<1, 4, 3>>, <<0, 1, 4>>}
Candidates == ThreeRules \X (0..3)

(* A table by rule and position, as a function from candidates.            *)
Tabled(table) == [c \in Candidates |-> table[c[1]][c[2] + 1]]
Paths == Tabled(
    << << <<"app", "a">>, <<"app", "b">>, <<"lib", "c">>, <<"app", "a">> >>,
       << <<"app", "b">>, <<"top">>, <<"lib", "c">>, <<"lib", "d">> >>,
       << <<"lib", "c">>, <<"lib", "c">>, <<"app", "a">>, <<"lib", "d">> >> >>)
Claims == Tabled(
    << <<{"a"}, {"b"}, {"c", "a"}, {"d"}>>,
       <<{"e"}, {"f"}, {"g"}, {"e", "h"}>>,
       <<{"c"}, {"i"}, {"a", "i"}, {"huge"}>> >>)
Names == UNION {Claims[c] : c \in Candidates}

(* Claims are counted one by one.                                          *)
Weights(count) == [claims \in SUBSET Names |-> MapThenSumSet(LAMBDA n : count[n], claims)]
Bytes == Weights([n \in Names |-> IF n \in {"b", "g"} THEN 3 ELSE 2])
Tokenized == Weights([n \in Names |-> CASE n \in {"a", "f", "i"} -> 5
                                        [] n = "huge" -> 99
                                        [] OTHER -> 2])
ThreeValues == <<1, 2, 1>>
================================================================================
