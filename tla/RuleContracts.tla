------------------------------ MODULE RuleContracts -----------------------------
(***************************************************************************)
(* What the engine knows of a rule before it runs: the fact families its   *)
(* signature asks for, and whether it returns a deferred model query.      *)
(* checking/engine/batch.py and prepared.py.                               *)
(***************************************************************************)
EXTENDS FactFamilies, FiniteSets

CONSTANTS
    Rule,           \* the selected table rules
    Reads,          \* Reads[r]: the families of r's table parameters
    ModelNative     \* the rules that return a ModelQuery

ASSUME RuleAssumption == IsFiniteSet(Rule)
ASSUME ReadsAssumption == Reads \in [Rule -> (SUBSET Family) \ {{}}]
ASSUME ModelNativeAssumption == ModelNative \subseteq Rule

(* RuleBatch.families, of the rules of one batch.                          *)
BatchFamilies(batch) == UNION {Reads[r] : r \in batch}

(* RuleBatch.contextual                                                    *)
Contextual(batch) == batch \cap ModelNative # {}

(* A connected() that forgets the model turn.                              *)
BugConnectedByTable(batch, rule) == BatchFamilies(batch) \cap Reads[rule] # {}

(* RuleBatch.connected                                                     *)
Connected(batch, rule) ==
    \/ Contextual(batch) /\ rule \in ModelNative
    \/ BatchFamilies(batch) \cap Reads[rule] # {}

(* Two rules that may not run in different batches: they read a common     *)
(* table, or both need the one model turn of the repository.               *)
Linked(left, right) ==
    \/ {left, right} \subseteq ModelNative
    \/ Reads[left] \cap Reads[right] # {}
================================================================================
