------------------------------ MODULE PackPlanner ------------------------------
(***************************************************************************)
(* How the questions of several rules are packed into model requests       *)
(* (openrouter/planning).  A pack is the list of the candidates one        *)
(* request asks about, rule by rule: a slice of the code (RepositoryRule)  *)
(* is a rule's part of it, and no rule has two.  What a prompt weighs is   *)
(* a weight of the claims it quotes.                                       *)
(***************************************************************************)
EXTENDS Integers, FiniteSets, SequencesExt, Lists

CONSTANTS
    Query,            \* 1..n, the contextual rules that ask, in order
    Candidate,        \* what they ask about: <<rule, position>>, from 0
    PathOf,           \* the path of a candidate, in parts
    Claim, ClaimsOf,  \* the evidence a candidate retains
    Estimated,        \* prompt tokens of claims, by their bytes
    Counted,          \* the same, by the model's tokenizer
    Values,           \* scalar answers a rule wants for one candidate
    CandidateBudget, PromptBudget, OutputBudget, ReasoningTokens

ASSUME PackPlannerAssumption ==
    /\ IsFiniteSet(Query) /\ Query = 1..Cardinality(Query)
    /\ Candidate \subseteq Query \X Nat
    /\ ClaimsOf \in [Candidate -> SUBSET Claim]
    /\ {Estimated, Counted} \subseteq [SUBSET Claim -> Nat]
    /\ {CandidateBudget, PromptBudget, OutputBudget} \subseteq Nat \ {0}
    /\ ReasoningTokens \in Nat

Rows(pack) == Len(pack)
AnswerUnits(pack) == FoldLeft(LAMBDA sum, c : sum + Values[c[1]], 0, pack)
Rules(pack) == {c[1] : c \in ToSet(pack)}
Evidence(pack) == UNION {ClaimsOf[c] : c \in ToSet(pack)}

(* A frame, the instructions of each rule, each candidate, and every claim *)
(* once, however many candidates retain it.                                *)
Tokens(pack, weight) == 1 + Cardinality(Rules(pack)) + Rows(pack) + weight[Evidence(pack)]

(* RepositoryPlanner._required_output_tokens.                              *)
OutputTokens(pack) == ReasoningTokens + 2048 + Rows(pack) * 96 + AnswerUnits(pack) * 8

(* _fits with the estimate, _fits_exact with the tokenizer.                *)
Fits(pack, weight) ==
    /\ Rows(pack) <= CandidateBudget
    /\ Tokens(pack, weight) <= PromptBudget
    /\ OutputTokens(pack) <= OutputBudget

--------------------------------------------------------------------------------
(* Candidates by the class they belong to, in the order in which the       *)
(* classes are first met.                                                  *)
Divided(pack, class) ==
    LET classes == Firsts([i \in DOMAIN pack |-> class[pack[i]]])
    IN [k \in DOMAIN classes |-> Among(pack, {c \in ToSet(pack) : class[c] = classes[k]})]

(* RepositoryPack.of: the candidates of one rule are joined where its      *)
(* first slice stands, in their original order (RepositoryRule.combined).  *)
PackOf(candidates) ==
    LET slices == Divided(candidates, [c \in Candidate |-> c[1]])
    IN FlattenSeq([k \in DOMAIN slices |->
           SortedBy(slices[k], [i \in DOMAIN slices[k] |-> slices[k][i][2]])])

(* Bug form: the second slice of a rule replaces the first.                *)
BugJoined(pack, unit) ==
    PackOf(Among(pack, {c \in ToSet(pack) : c[1] \notin Rules(unit)}) \o unit)

Joined(pack, unit) == PackOf(pack \o unit)

(* RepositoryPlanner._areas: the candidates by directory.                  *)
Area(c, depth) ==
    IF Len(PathOf[c]) >= depth THEN SubSeq(PathOf[c], 1, depth) ELSE PathOf[c]
Areas(pack, depth) == Divided(pack, [c \in Candidate |-> Area(c, depth)])

(* RepositoryPlanner.split: every rule is cut in half, rules with a single *)
(* candidate come last and are dealt out in turn.                          *)
Split(pack) ==
    LET same(i) == {j \in DOMAIN pack : pack[j][1] = pack[i][1]}
        single == {i \in DOMAIN pack : same(i) = {i}}
        first(i) == IF i \in single THEN Cardinality({j \in single : j < i}) % 2 = 0
                    ELSE Cardinality({j \in same(i) : j < i}) < Cardinality(same(i)) \div 2
        left == {pack[i] : i \in {j \in DOMAIN pack : first(j)}}
        alone == {pack[i] : i \in single}
        ordered == Among(pack, ToSet(pack) \ alone) \o Among(pack, alone)
    IN << Among(ordered, left), Among(ordered, ToSet(pack) \ left) >>

(* _bounded and _bounded_exact, for one pack: a candidate that is too      *)
(* large alone, for which they raise, stays.                               *)
Parts(pack, depth, weight) ==
    LET areas == Areas(pack, depth)
        halves == Split(pack)
    IN IF Fits(pack, weight) THEN <<pack>>
       ELSE IF Len(areas) > 1 THEN areas
       ELSE IF halves[2] # <<>> THEN halves
       ELSE <<pack>>

(* The same for packs and the parts of packs, which leaves them in place:  *)
(* all of one depth before the next.  A part has fewer candidates.         *)
Bounded(packs, weight) ==
    LET round[n \in 0..Len(FlattenSeq(packs))] ==
            IF n = 0 THEN packs
            ELSE LET before == round[n - 1] IN
                 FlattenSeq([i \in DOMAIN before |-> Parts(before[i], n + 1, weight)])
    IN round[Len(FlattenSeq(packs))]

(* RepositoryPlanner._components: the rules that share evidence, directly  *)
(* or through others.                                                      *)
Neighbors(candidates, q) ==
    LET claims(r) == Evidence(Among(candidates, {c \in Candidate : c[1] = r}))
    IN {r \in Query : r = q \/ claims(r) \cap claims(q) # {}}
Connected(candidates, q) ==
    LET reached[n \in 0..Cardinality(Query)] ==
            IF n = 0 THEN {q} ELSE UNION {Neighbors(candidates, r) : r \in reached[n - 1]}
    IN reached[Cardinality(Query)]
Components(candidates) ==
    Divided(candidates, [c \in Candidate |-> Connected(candidates, c[1])])

(* RepositoryPlanner._packed: the heaviest unit first, each into the first *)
(* request with room for it.                                               *)
Reserve == IF PromptBudget \div 20 < 4096 THEN PromptBudget \div 20 ELSE 4096
Placed(bins, unit, weight) ==
    LET room == {i \in DOMAIN bins :
                    /\ Tokens(bins[i], weight) + Tokens(unit, weight) <= PromptBudget - Reserve
                    /\ Fits(Joined(bins[i], unit), weight)}
    IN IF room = {} THEN Append(bins, unit)
       ELSE [bins EXCEPT ![Min(room)] = Joined(@, unit)]
Packed(units, weight) ==
    LET measured == SortedBy(units, [i \in DOMAIN units |-> -Tokens(units[i], weight)])
        bins[n \in 0..Len(units)] ==
            IF n = 0 THEN <<>> ELSE Placed(bins[n - 1], measured[n], weight)
    IN bins[Len(units)]

(* RepositoryPlanner.plan, by its variables.                               *)
Units(candidates) == Bounded(Components(candidates), Estimated)
Provisional(candidates) == Packed(Units(candidates), Estimated)
Verified(candidates) == Bounded(Provisional(candidates), Counted)

(* Bug form: what the estimate packed is not counted again.                *)
BugPlanned(candidates) == Provisional(candidates)

Planned(candidates) == Packed(Verified(candidates), Counted)

(* The ValueError that makes safely_plan return None.                      *)
TooLarge(candidates) ==
    \/ \E unit \in ToSet(Units(candidates)) : ~Fits(unit, Estimated)
    \/ \E unit \in ToSet(Verified(candidates)) : ~Fits(unit, Counted)
================================================================================
