------------------------------- MODULE RuleEngine -------------------------------
(***************************************************************************)
(* RuleEngine.batches (checking/engine/runtime.py:27-43): one iteration of *)
(* the loop over the prepared rules is one step.  A rule whose service is  *)
(* not enabled is not prepared (runtime.py:66), so any selection of rules, *)
(* in any order, is a list of prepared rules.                              *)
(***************************************************************************)
EXTENDS RuleContracts, Lists, Integers, SequencesExt

VARIABLES
    prepared,   \* RuleEngine.prepared: the rules of this run, in catalog order
    placed,     \* how many of them the loop has placed
    queue       \* the list of batches, each the list of its rules

engineVars == <<prepared, placed, queue>>

EngineInit ==
    /\ prepared \in SetToAllKPermutations(Rule)
    /\ placed = 0
    /\ queue = <<>>

(* The batches in the list that the rule is connected to.                  *)
Joins(rule) == {batch \in ToSet(queue) : Connected(ToSet(batch), rule)}

(* The place of the first of them.                                         *)
First(rule) == SelectInSeq(queue, LAMBDA batch : batch \in Joins(rule))

(* Their rules, in their order, and the new one.                           *)
Merged(rule) == Append(FlattenSeq(Among(queue, Joins(rule))), rule)

(* The merged batch goes in, its parts stay.                               *)
BugPlacingBeside(rule) ==
    IF Joins(rule) = {} THEN Append(queue, <<rule>>)
    ELSE InsertAt(queue, First(rule), Merged(rule))

(* The new list: a batch of its own at the end, or the connected batches   *)
(* merged, in their order, at the place of the first of them.              *)
Placing(rule) ==
    IF Joins(rule) = {} THEN Append(queue, <<rule>>)
    ELSE InsertAt(Among(queue, ToSet(queue) \ Joins(rule)), First(rule), Merged(rule))

PlaceRule ==
    /\ placed < Len(prepared)
    /\ placed' = placed + 1
    /\ queue' = Placing(prepared[placed + 1])
    /\ UNCHANGED prepared

EngineSpec == EngineInit /\ [][PlaceRule]_engineVars

(* The rules still to be placed, and the list as a set of sets of rules.   *)
Waiting == ToSet(SubSeq(prepared, placed + 1, Len(prepared)))
Entries == {ToSet(batch) : batch \in ToSet(queue)}

Batches == INSTANCE RuleBatches WITH waiting <- Waiting, batches <- Entries

(* The list of lists is the partition RuleBatches promises: no iteration   *)
(* of the loop loses a rule, keeps one twice or leaves a merged batch in   *)
(* the list beside its parts.                                              *)
ImplementsRuleBatches == Batches!Spec

(* The list holds lists of rules, and two rules in two of its entries      *)
(* never read a common table and are not both asked of the model.  An      *)
(* entry that is in the list twice, which a set of batches could not show, *)
(* would break it.                                                         *)
EntriesAreApart ==
    /\ queue \in Seq(Seq(Rule))
    /\ \A i, j \in DOMAIN queue : i # j =>
           \A l \in ToSet(queue[i]), r \in ToSet(queue[j]) : ~Linked(l, r)

(* When the loop is over the entries hold the prepared rules, all of them. *)
EntriesHoldAll ==
    placed = Len(prepared) =>
        UNION {ToSet(queue[i]) : i \in DOMAIN queue} = ToSet(prepared)

(* What RuleBatches promises of the partition holds of the lists: after    *)
(* any number of placed rules the list holds every connected component of  *)
(* them, once.                                                             *)
BatchesAreComponents ==
    Batches!BatchesAreComponents /\ EntriesAreApart /\ EntriesHoldAll

================================================================================
