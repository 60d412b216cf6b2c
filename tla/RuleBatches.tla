------------------------------- MODULE RuleBatches ------------------------------
(***************************************************************************)
(* What RuleEngine.batches promises, whatever order the rules come in: a   *)
(* partition of the rules into the connected components of Linked.  The    *)
(* batches are a set of sets here; RuleEngine keeps them as the code does, *)
(* in a list of lists, and implements this module.                         *)
(***************************************************************************)
EXTENDS RuleContracts

VARIABLES
    waiting,    \* the prepared rules that have no batch yet
    batches     \* the batches made so far

vars == <<waiting, batches>>

Init ==
    /\ waiting \in SUBSET Rule
    /\ batches = {}

(* One rule joins the batches it is connected to, which become one.        *)
Place(rule) ==
    LET joined == {batch \in batches : Connected(batch, rule)}
    IN /\ waiting' = waiting \ {rule}
       /\ batches' = (batches \ joined) \cup {(UNION joined) \cup {rule}}

Next == \E rule \in waiting : Place(rule)

Spec == Init /\ [][Next]_vars

TypeOK ==
    /\ waiting \subseteq Rule
    /\ batches \subseteq (SUBSET Rule) \ {{}}

(* No rule of one batch is linked to a rule of another: no table has to be *)
(* built twice and the model is asked in one turn.                         *)
NothingLinkedAcross ==
    \A b, c \in batches : b # c => \A l \in b, r \in c : ~Linked(l, r)

(* No batch holds rules that could have run apart: however it is split in  *)
(* two, some table or the model turn ties the halves together.             *)
NothingSplittable ==
    \A b \in batches : \A part \in (SUBSET b) \ {{}, b} :
        \E l \in part, r \in b \ part : Linked(l, r)

(* RuleEngine.batches ("Partition rules into independent lazy graphs       *)
(* without duplicating any table") returns exactly the connected           *)
(* components: a batch is released as early as the tables allow, and no    *)
(* earlier.                                                                *)
BatchesAreComponents ==
    /\ NothingLinkedAcross
    /\ NothingSplittable
    /\ \A b, c \in batches : b # c => b \cap c = {}
    /\ (UNION batches) \cap waiting = {}
================================================================================
