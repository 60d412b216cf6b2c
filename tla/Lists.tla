---------------------------------- MODULE Lists ---------------------------------
(***************************************************************************)
(* Lists of the code as definitions the provers can open, which SelectSeq  *)
(* and SortSeq are not: the comprehension [x for x in s if x in S], over a *)
(* set instead of a test and as a recursive function, the keys of a        *)
(* dictionary in the order they came in, and sorted(s).                    *)
(***************************************************************************)
EXTENDS Naturals, Sequences, FiniteSets

(* The elements of s that are in S, in their order.                        *)
Among(s, S) ==
    LET among[n \in 0..Len(s)] ==
            IF n = 0 THEN <<>>
            ELSE IF s[n] \in S THEN Append(among[n - 1], s[n])
            ELSE among[n - 1]
    IN among[Len(s)]

(* The elements of s, each where it comes first.                           *)
Firsts(s) ==
    LET new == {i \in DOMAIN s : \A j \in 1..(i - 1) : s[j] # s[i]}
        first == Among([i \in DOMAIN s |-> i], new)
    IN [k \in DOMAIN first |-> s[first[k]]]

(* The places of keys by increasing key, equal ones in the order they have. *)
Before(keys, i) == {j \in DOMAIN keys : keys[j] < keys[i] \/ (keys[j] = keys[i] /\ j < i)}
Ranked(keys) ==
    [p \in DOMAIN keys |-> CHOOSE i \in DOMAIN keys : Cardinality(Before(keys, i)) = p - 1]

(* s in the order of the keys of its elements.                             *)
SortedBy(s, keys) == [p \in DOMAIN s |-> s[Ranked(keys)[p]]]
Sorted(s) == SortedBy(s, s)
================================================================================
