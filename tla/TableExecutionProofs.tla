-------------------------- MODULE TableExecutionProofs --------------------------
(***************************************************************************)
(* The safety of one judgment, for every set of rules, families, providers *)
(* and limits: first of the evidence collection it calls, then of the      *)
(* report, the model turn, the tables and the rules.  That its batches are *)
(* the engine's is what RuleEngineProofs supplies.                         *)
(***************************************************************************)
EXTENDS TableExecution, RuleEngineProofs

(***************************************************************************)
(* The evidence collection.                                                *)
(***************************************************************************)

(* What the providers that worked were asked for.                          *)
Given == UNION {Selection(asked)[p] : p \in Worked}

IdleInv ==
    evidence = "idle" =>
        /\ asked = {} /\ selected = NothingSelected
        /\ ready = {} /\ reading = {} /\ supplied = {}

(* A provider's request is popped whole.                                   *)
SelectedInv == \A p \in Provider : selected[p] \in {{}, Selection(asked)[p]}

(* Whoever may be read, or was, has its inputs.                            *)
SuppliedInv == \A p \in ready \cup Worked : Required(Selection(asked)[p]) \subseteq available

(* What was supplied, or is being read, is what the workers were asked for.*)
GivenInv ==
    /\ reading # {} => evidence = "collecting"
    /\ supplied \cup reading \subseteq Given
    /\ evidence = "collecting" => Given \subseteq supplied \cup reading

EvidenceInv ==
    /\ EvidenceTypeOK
    /\ IdleInv /\ SelectedInv /\ SuppliedInv /\ GivenInv
    /\ NoWorkOnACycle /\ ErrorNamesTheCause /\ SuppliesWhatWasNeeded

(***************************************************************************)
(* The request.                                                            *)
(***************************************************************************)

LEMMA ResolvedIsProvided ==
    ASSUME NEW families
    PROVE  Resolved(families) \subseteq Provided
  BY DEF Resolved

(* Resolved is closed under the inputs somebody provides.                  *)
LEMMA ResolvedIsClosed ==
    ASSUME NEW families, NEW f \in Resolved(families),
           NEW g \in installed.needs[f], g \in Provided
    PROVE  g \in Resolved(families)
  BY DEF Resolved

LEMMA NothingResolvesNothing == Resolved({}) = {}
  <1> SUFFICES ASSUME NEW f \in Resolved({}) PROVE FALSE
    OBVIOUS
  <1>1. {} \in SUBSET Provided
    OBVIOUS
  <1> QED BY <1>1 DEF Resolved

LEMMA SelectionType ==
    ASSUME installed \in Installation, NEW families
    PROVE  /\ Selection(families) \in [Provider -> SUBSET Family]
           /\ \A p \in Provider :
                 Selection(families)[p] = Resolved(families) \cap installed.owns[p]
  <1>1. installed.owns \in [Provider -> SUBSET Family]
    BY InstallationAssumption
  <1> QED BY <1>1 DEF Selection

(* No family is asked of two providers.                                    *)
LEMMA SelectionIsDisjoint ==
    ASSUME installed \in Installation, NEW families,
           NEW p \in Provider, NEW q \in Provider, NEW f,
           f \in Selection(families)[p], f \in Selection(families)[q]
    PROVE  p = q
  <1>1. p # q => installed.owns[p] \cap installed.owns[q] = {}
    BY InstallationAssumption
  <1> QED BY <1>1, SelectionType

(* Every family to be resolved is asked of somebody.                       *)
LEMMA SelectionIsWhole ==
    ASSUME installed \in Installation, NEW families
    PROVE  UNION {Selection(families)[p] : p \in Provider} = Resolved(families)
  <1>1. \A f \in Resolved(families) : \E p \in Provider : f \in installed.owns[p]
    BY ResolvedIsProvided DEF Provided
  <1> QED BY <1>1, SelectionType

(***************************************************************************)
(* The steps.  installed, and after Collect asked, never change, so        *)
(* neither do Selection, Requirements and, as every supply adds new        *)
(* families only, the tables that were brought.                            *)
(***************************************************************************)

LEMMA CollectKeepsInv ==
    ASSUME EvidenceInv, NEW families \in SUBSET Family, NEW inHand \in SUBSET Family,
           Collect(families, inHand)
    PROVE  EvidenceInv'
  <1> USE DEF EvidenceInv
  <1>1. /\ evidence = "idle" /\ evidence' = "collecting"
        /\ asked' = families /\ available' = inHand
        /\ installed' = installed /\ installed \in Installation
        /\ ready' = {} /\ reading' = {} /\ supplied' = {}
    BY DEF Collect, IdleInv, EvidenceTypeOK
  <1>2. selected' = Selection(asked)'
    BY <1>1 DEF Collect, Selection, Resolved, Provided
  <1>3. Worked' = {}
    BY <1>2 DEF Worked
  <1>4. selected' \in [Provider -> SUBSET Family]
    BY <1>1, SelectionType DEF Collect
  <1>5. EvidenceTypeOK'
    BY <1>1, <1>4 DEF EvidenceTypeOK
  <1>6. IdleInv' /\ SelectedInv' /\ SuppliedInv'
    BY <1>1, <1>2, <1>3 DEF IdleInv, SelectedInv, SuppliedInv
  <1>7. GivenInv'
    BY <1>1, <1>3 DEF GivenInv, Given
  <1>8. NoWorkOnACycle' /\ ErrorNamesTheCause' /\ SuppliesWhatWasNeeded'
    BY <1>1, <1>3 DEF NoWorkOnACycle, ErrorNamesTheCause, SuppliesWhatWasNeeded
  <1> QED BY <1>5, <1>6, <1>7, <1>8

(* If nobody is ready and nothing is missing, everyone waits for someone.  *)
LEMMA NobodyReadyIsACycle ==
    ASSUME EvidenceInv, BetweenPasses,
           NEW inputs, inputs = {p \in Provider : selected[p] # {}}, inputs # {},
           \A p \in inputs : ~(Required(selected[p]) \subseteq available),
           Required(UNION {selected[p] : p \in Provider})
               \subseteq available \cup UNION {selected[p] : p \in Provider}
    PROVE  Stuck(inputs)
  <1> SUFFICES ASSUME NEW p \in inputs PROVE \E q \in inputs : WaitsFor(p, q)
    BY DEF Stuck
  <1>1. PICK f \in Required(selected[p]) : f \notin available
    OBVIOUS
  <1>2. f \in Required(UNION {selected[q] : q \in Provider})
    BY <1>1 DEF Required
  <1>3. PICK q \in Provider : f \in selected[q]
    BY <1>1, <1>2
  <1>4. /\ selected[p] = Selection(asked)[p]
        /\ selected[q] = Selection(asked)[q]
        /\ q \in inputs
    BY <1>3 DEF EvidenceInv, SelectedInv
  <1> QED BY <1>1, <1>3, <1>4 DEF WaitsFor

(* What is missing is owned by nobody: the inputs somebody provides were   *)
(* selected with the rest, and are pending or supplied.                    *)
LEMMA MissingIsUnowned ==
    ASSUME EvidenceInv, BetweenPasses,
           NEW f \in Required(UNION {selected[p] : p \in Provider}),
           f \notin available,
           f \notin UNION {selected[p] : p \in Provider}
    PROVE  f \in Requirements(asked) \ (available \cup Provided)
  <1> USE DEF EvidenceInv
  <1>0. installed \in Installation /\ reading = {} /\ evidence = "collecting"
    BY DEF EvidenceTypeOK, BetweenPasses
  <1>a. PICK g \in UNION {selected[p] : p \in Provider} : f \in installed.needs[g]
    BY DEF Required
  <1>1. PICK p \in Provider : g \in selected[p]
    BY <1>a
  <1>2. g \in Selection(asked)[p]
    BY <1>1 DEF SelectedInv
  <1>3. g \in Resolved(asked)
    BY <1>0, <1>2, SelectionType
  <1>4. f \in Requirements(asked)
    BY <1>a, <1>3 DEF Requirements
  <1>5. ASSUME f \in Provided PROVE FALSE
    <2>1. f \in Resolved(asked)
      BY <1>a, <1>3, <1>5, ResolvedIsClosed
    <2>2. PICK q \in Provider : f \in Selection(asked)[q]
      BY <1>0, <2>1, SelectionIsWhole
    <2>3. selected[q] = {}
      BY <2>2 DEF SelectedInv
    <2>4. f \in Given
      BY <2>2, <2>3 DEF Given, Worked
    <2>5. f \in supplied
      BY <1>0, <2>4 DEF GivenInv
    <2> QED BY <2>5 DEF EvidenceTypeOK
  <1> QED BY <1>4, <1>5

LEMMA StartPassKeepsInv ==
    ASSUME EvidenceInv, StartPass
    PROVE  EvidenceInv'
  <1> USE DEF EvidenceInv
  <1> DEFINE inputs  == {p \in Provider : selected[p] # {}}
             able    == {p \in inputs : Required(selected[p]) \subseteq available}
             pending == UNION {selected[p] : p \in Provider}
             missing == Required(pending) \ (available \cup pending)
  <1>1. /\ BetweenPasses /\ evidence = "collecting" /\ reading = {}
        /\ ready' = able /\ inputs # {}
        /\ evidence' = IF able # {} THEN "collecting"
                       ELSE IF missing # {} THEN "unavailable" ELSE "cycle"
        /\ UNCHANGED <<installed, asked, selected, reading, available, supplied>>
    BY DEF StartPass, BetweenPasses
  <1>2. /\ \A set \in SUBSET Provider : Stuck(set)' <=> Stuck(set)
        /\ Worked' = Worked /\ Given' = Given
        /\ \A p \in Provider : (Selection(asked)[p])' = Selection(asked)[p]
        /\ \A p \in Provider : Required(Selection(asked)[p])' = Required(Selection(asked)[p])
    BY <1>1 DEF Stuck, WaitsFor, Worked, Given, Selection, Required, Resolved, Provided
  <1>3. EvidenceTypeOK'
    BY <1>1 DEF EvidenceTypeOK, Ended
  <1>4. IdleInv' /\ SelectedInv'
    BY <1>1, <1>2 DEF IdleInv, SelectedInv
  <1>5. SuppliedInv'
    <2>1. \A p \in able : selected[p] = Selection(asked)[p]
      BY DEF SelectedInv
    <2> SUFFICES ASSUME NEW p \in ready' \cup Worked'
                 PROVE  Required(Selection(asked)[p])' \subseteq available'
      BY DEF SuppliedInv
    <2>2. p \in Provider
      BY <1>1, <1>2 DEF Worked
    <2>3. Required(Selection(asked)[p]) \subseteq available
      BY <1>1, <1>2, <2>1 DEF SuppliedInv
    <2> QED BY <1>1, <1>2, <2>2, <2>3
  <1>6. GivenInv'
    BY <1>1, <1>2 DEF GivenInv
  <1>7. NoWorkOnACycle'
    BY <1>2 DEF NoWorkOnACycle
  <1>8. ErrorNamesTheCause'
    <2>1. ASSUME evidence' = "cycle" PROVE \E set \in SUBSET Provider : Stuck(set)'
      <3>1. able = {} /\ missing = {}
        BY <1>1, <2>1
      <3>2. Stuck(inputs)
        <4> HIDE DEF inputs
        <4>1. inputs = {p \in Provider : selected[p] # {}}
          BY DEF inputs
        <4>2. \A p \in inputs : ~(Required(selected[p]) \subseteq available)
          BY <3>1
        <4>3. Required(pending) \subseteq available \cup pending
          BY <3>1
        <4> QED BY <1>1, <4>1, <4>2, <4>3, NobodyReadyIsACycle
      <3> QED BY <1>2, <3>2
    <2>2. ASSUME evidence' = "unavailable"
          PROVE  Requirements(asked)' \ (available \cup Provided)' # {}
      <3>1. PICK f \in Required(pending) : f \notin available \cup pending
        BY <1>1, <2>2
      <3>2. f \in Requirements(asked) \ (available \cup Provided)
        BY <1>1, <3>1, MissingIsUnowned
      <3>3. Requirements(asked)' = Requirements(asked) /\ Provided' = Provided
        BY <1>1 DEF Requirements, Resolved, Provided
      <3> QED BY <1>1, <3>2, <3>3
    <2> QED BY <2>1, <2>2 DEF ErrorNamesTheCause
  <1>9. SuppliesWhatWasNeeded'
    BY <1>1 DEF SuppliesWhatWasNeeded
  <1> QED BY <1>3, <1>4, <1>5, <1>6, <1>7, <1>8, <1>9

(* A provider that is read waits for nobody in a ring: its inputs were     *)
(* brought, or supplied by providers that worked before it.                *)
LEMMA ReadIsNotStuck ==
    ASSUME EvidenceInv, NEW p \in ready, NEW set \in SUBSET Provider, Stuck(set)
    PROVE  p \notin set
  <1> USE DEF EvidenceInv
  <1> SUFFICES ASSUME p \in set PROVE FALSE
    OBVIOUS
  <1>1. PICK q \in set : WaitsFor(p, q)
    BY DEF Stuck
  <1>2. PICK f \in Selection(asked)[q] :
            f \in Required(Selection(asked)[p]) /\ f \notin available \ supplied
    BY <1>1 DEF WaitsFor
  <1>3. f \in supplied
    BY <1>2 DEF SuppliedInv
  <1>4. PICK r \in Worked : f \in Selection(asked)[r]
    BY <1>3 DEF GivenInv, Given
  <1>5. installed \in Installation /\ r \in Provider
    BY DEF EvidenceTypeOK, Worked
  <1>6. q = r
    BY <1>2, <1>4, <1>5, SelectionIsDisjoint
  <1> QED BY <1>4, <1>6 DEF NoWorkOnACycle

LEMMA ReadKeepsInv ==
    ASSUME EvidenceInv, NEW p \in Provider, Read(p)
    PROVE  EvidenceInv'
  <1> USE DEF EvidenceInv
  <1>1. /\ evidence = "collecting" /\ reading = {} /\ p \in ready
        /\ ready' = ready \ {p} /\ reading' = selected[p]
        /\ selected' = [selected EXCEPT ![p] = {}]
        /\ UNCHANGED <<installed, asked, available, supplied, evidence>>
    BY DEF Read
  <1>2. /\ \A q \in Provider : (Selection(asked)[q])' = Selection(asked)[q]
        /\ \A q \in Provider : Required(Selection(asked)[q])' = Required(Selection(asked)[q])
        /\ \A set \in SUBSET Provider : Stuck(set)' <=> Stuck(set)
    BY <1>1 DEF Stuck, WaitsFor, Selection, Required, Resolved, Provided
  <1>3. /\ selected \in [Provider -> SUBSET Family] /\ installed \in Installation
        /\ selected[p] # {} /\ selected[p] = Selection(asked)[p]
    BY <1>1 DEF EvidenceTypeOK, SelectedInv
  <1>4. Worked' = Worked \cup {p}
    BY <1>1, <1>2, <1>3 DEF Worked
  <1>5. Given' = Given \cup selected[p]
    BY <1>2, <1>3, <1>4 DEF Given, Worked
  <1>6. EvidenceTypeOK'
    BY <1>1, <1>3 DEF EvidenceTypeOK
  <1>7. IdleInv' /\ SelectedInv'
    BY <1>1, <1>2, <1>3 DEF IdleInv, SelectedInv
  <1>8. SuppliedInv'
    <2> SUFFICES ASSUME NEW q \in ready' \cup Worked'
                 PROVE  Required(Selection(asked)[q])' \subseteq available'
      BY DEF SuppliedInv
    <2>1. q \in Provider /\ q \in ready \cup Worked
      BY <1>1, <1>4 DEF Worked, EvidenceTypeOK
    <2> QED BY <1>1, <1>2, <2>1 DEF SuppliedInv
  <1>9. GivenInv'
    BY <1>1, <1>5 DEF GivenInv
  <1>10. NoWorkOnACycle'
    BY <1>1, <1>2, <1>4, ReadIsNotStuck DEF NoWorkOnACycle
  <1>11. ErrorNamesTheCause' /\ SuppliesWhatWasNeeded'
    BY <1>1 DEF ErrorNamesTheCause, SuppliesWhatWasNeeded
  <1> QED BY <1>6, <1>7, <1>8, <1>9, <1>10, <1>11

LEMMA SupplyKeepsInv ==
    ASSUME EvidenceInv, NEW answer \in SUBSET Family, Supply(answer)
    PROVE  EvidenceInv'
  <1> USE DEF EvidenceInv
  <1>1. /\ reading # {} /\ evidence = "collecting" /\ reading' = {}
        /\ UNCHANGED <<installed, asked, selected, ready>>
    BY DEF Supply, GivenInv
  <1>2. \/ /\ answer = reading /\ answer \cap available = {}
           /\ available' = available \cup answer /\ supplied' = supplied \cup answer
           /\ evidence' = "collecting"
        \/ /\ evidence' \in {"invalid", "repeated"}
           /\ available' = available /\ supplied' = supplied
    BY <1>1 DEF Supply
  <1>3. available' \ supplied' = available \ supplied /\ available \subseteq available'
    BY <1>2 DEF EvidenceTypeOK
  <1>4. /\ \A q \in Provider : (Selection(asked)[q])' = Selection(asked)[q]
        /\ \A q \in Provider : Required(Selection(asked)[q])' = Required(Selection(asked)[q])
        /\ Worked' = Worked
    BY <1>1 DEF Selection, Required, Resolved, Provided, Worked
  <1>5. \A set \in SUBSET Provider : Stuck(set)' <=> Stuck(set)
    BY <1>3, <1>4 DEF Stuck, WaitsFor
  <1>6. Given' = Given
    BY <1>4 DEF Given, Worked
  <1>7. EvidenceTypeOK'
    BY <1>1, <1>2 DEF EvidenceTypeOK, Ended
  <1>8. IdleInv' /\ SelectedInv'
    BY <1>1, <1>2, <1>4 DEF IdleInv, SelectedInv
  <1>9. SuppliedInv'
    <2> SUFFICES ASSUME NEW q \in ready' \cup Worked'
                 PROVE  Required(Selection(asked)[q])' \subseteq available'
      BY DEF SuppliedInv
    <2>1. q \in Provider /\ q \in ready \cup Worked
      BY <1>1, <1>4 DEF Worked, EvidenceTypeOK
    <2> QED BY <1>3, <1>4, <2>1 DEF SuppliedInv
  <1>10. GivenInv'
    BY <1>1, <1>2, <1>6 DEF GivenInv
  <1>11. NoWorkOnACycle'
    BY <1>4, <1>5 DEF NoWorkOnACycle
  <1>12. ErrorNamesTheCause' /\ SuppliesWhatWasNeeded'
    BY <1>2 DEF ErrorNamesTheCause, SuppliesWhatWasNeeded
  <1> QED BY <1>7, <1>8, <1>9, <1>10, <1>11, <1>12

LEMMA RaisesKeepsInv ==
    ASSUME EvidenceInv, ProviderRaises
    PROVE  EvidenceInv'
  <1> USE DEF EvidenceInv
  <1>1. /\ reading' = {} /\ evidence' = "failed"
        /\ UNCHANGED <<installed, asked, selected, ready, available, supplied>>
    BY DEF ProviderRaises
  <1>2. /\ \A q \in Provider : (Selection(asked)[q])' = Selection(asked)[q]
        /\ \A q \in Provider : Required(Selection(asked)[q])' = Required(Selection(asked)[q])
        /\ \A set \in SUBSET Provider : Stuck(set)' <=> Stuck(set)
        /\ Worked' = Worked /\ Given' = Given
    BY <1>1 DEF Stuck, WaitsFor, Worked, Given, Selection, Required, Resolved, Provided
  <1>3. EvidenceTypeOK' /\ IdleInv' /\ SelectedInv' /\ GivenInv'
    BY <1>1, <1>2 DEF EvidenceTypeOK, Ended, IdleInv, SelectedInv, GivenInv
  <1>4. SuppliedInv'
    <2> SUFFICES ASSUME NEW q \in ready' \cup Worked'
                 PROVE  Required(Selection(asked)[q])' \subseteq available'
      BY DEF SuppliedInv
    <2>1. q \in Provider /\ q \in ready \cup Worked
      BY <1>1, <1>2 DEF Worked, EvidenceTypeOK
    <2> QED BY <1>1, <1>2, <2>1 DEF SuppliedInv
  <1>5. NoWorkOnACycle' /\ ErrorNamesTheCause' /\ SuppliesWhatWasNeeded'
    BY <1>1, <1>2 DEF NoWorkOnACycle, ErrorNamesTheCause, SuppliesWhatWasNeeded
  <1> QED BY <1>3, <1>4, <1>5

(* When nothing is selected any more, every provider asked for something   *)
(* worked, so all that was resolved was supplied.                          *)
LEMMA FinishKeepsInv ==
    ASSUME EvidenceInv, Finish
    PROVE  EvidenceInv'
  <1> USE DEF EvidenceInv
  <1>1. /\ ready = {} /\ reading = {} /\ evidence = "collecting" /\ evidence' = "done"
        /\ selected = NothingSelected
        /\ UNCHANGED <<installed, asked, selected, ready, reading, available, supplied>>
    BY DEF Finish, BetweenPasses
  <1>2. /\ \A q \in Provider : (Selection(asked)[q])' = Selection(asked)[q]
        /\ \A q \in Provider : Required(Selection(asked)[q])' = Required(Selection(asked)[q])
        /\ \A set \in SUBSET Provider : Stuck(set)' <=> Stuck(set)
        /\ Worked' = Worked /\ Given' = Given
        /\ Requirements(asked)' = Requirements(asked) /\ Resolved(asked)' = Resolved(asked)
    BY <1>1 DEF Stuck, WaitsFor, Worked, Given, Selection, Required, Requirements,
                Resolved, Provided
  <1>3. EvidenceTypeOK' /\ IdleInv' /\ SelectedInv' /\ GivenInv'
    BY <1>1, <1>2 DEF EvidenceTypeOK, Ended, IdleInv, SelectedInv, GivenInv
  <1>4. SuppliedInv'
    <2> SUFFICES ASSUME NEW q \in ready' \cup Worked'
                 PROVE  Required(Selection(asked)[q])' \subseteq available'
      BY DEF SuppliedInv
    <2>1. q \in Provider /\ q \in ready \cup Worked
      BY <1>1, <1>2 DEF Worked, EvidenceTypeOK
    <2> QED BY <1>1, <1>2, <2>1 DEF SuppliedInv
  <1>5. NoWorkOnACycle' /\ ErrorNamesTheCause'
    BY <1>1, <1>2 DEF NoWorkOnACycle, ErrorNamesTheCause
  <1>6. installed \in Installation
    BY DEF EvidenceTypeOK
  <1>7. \A p \in Provider : Selection(asked)[p] # {} => p \in Worked
    BY <1>1 DEF Worked, NothingSelected
  <1>8. supplied = Resolved(asked)
    <2>1. Given = UNION {Selection(asked)[p] : p \in Provider}
      BY <1>7 DEF Given, Worked
    <2>2. Given = Resolved(asked)
      BY <1>6, <2>1, SelectionIsWhole
    <2> QED BY <1>1, <2>2 DEF GivenInv
  <1>9. Requirements(asked) \subseteq available
    <2> SUFFICES ASSUME NEW f \in Requirements(asked) PROVE f \in available
      OBVIOUS
    <2>1. PICK g \in Resolved(asked) : f \in installed.needs[g]
      BY DEF Requirements
    <2>2. PICK p \in Provider : g \in Selection(asked)[p]
      BY <1>6, SelectionIsWhole
    <2>3. f \in Required(Selection(asked)[p])
      BY <2>1, <2>2 DEF Required
    <2> QED BY <1>7, <2>2, <2>3 DEF SuppliedInv
  <1>10. SuppliesWhatWasNeeded'
    BY <1>1, <1>2, <1>8, <1>9 DEF SuppliesWhatWasNeeded
  <1> QED BY <1>3, <1>4, <1>5, <1>10

(* Every conjunct is about the variables of the collection only.           *)
LEMMA StutterKeepsInv ==
    ASSUME EvidenceInv, UNCHANGED evidenceVars
    PROVE  EvidenceInv'
  <1> USE DEF EvidenceInv
  <1>1. UNCHANGED <<installed, asked, selected, ready, reading, available, supplied, evidence>>
    BY DEF evidenceVars
  <1>2. /\ \A q \in Provider : (Selection(asked)[q])' = Selection(asked)[q]
        /\ \A q \in Provider : Required(Selection(asked)[q])' = Required(Selection(asked)[q])
        /\ \A set \in SUBSET Provider : Stuck(set)' <=> Stuck(set)
        /\ Worked' = Worked /\ Given' = Given
        /\ Requirements(asked)' = Requirements(asked) /\ Resolved(asked)' = Resolved(asked)
        /\ Provided' = Provided
    BY <1>1 DEF Stuck, WaitsFor, Worked, Given, Selection, Required, Requirements,
                Resolved, Provided
  <1>3. EvidenceTypeOK' /\ IdleInv' /\ SelectedInv' /\ GivenInv'
    BY <1>1, <1>2 DEF EvidenceTypeOK, Ended, IdleInv, SelectedInv, GivenInv
  <1>4. SuppliedInv'
    <2> SUFFICES ASSUME NEW q \in ready' \cup Worked'
                 PROVE  Required(Selection(asked)[q])' \subseteq available'
      BY DEF SuppliedInv
    <2>1. q \in Provider /\ q \in ready \cup Worked
      BY <1>1, <1>2 DEF Worked, EvidenceTypeOK
    <2> QED BY <1>1, <1>2, <2>1 DEF SuppliedInv
  <1>5. NoWorkOnACycle'
    BY <1>1, <1>2 DEF NoWorkOnACycle
  <1>6. ErrorNamesTheCause'
    BY <1>1, <1>2 DEF ErrorNamesTheCause
  <1>7. SuppliesWhatWasNeeded'
    BY <1>1, <1>2 DEF SuppliesWhatWasNeeded
  <1> QED BY <1>3, <1>4, <1>5, <1>6, <1>7

(* The invariant of the collection holds in every state.                   *)
THEOREM EvidenceInvariant == EvidenceSpec => []EvidenceInv
  <1>1. EvidenceInit => EvidenceInv
    <2> SUFFICES ASSUME EvidenceInit PROVE EvidenceInv
      OBVIOUS
    <2> USE DEF EvidenceInit
    <2>1. \A p \in Provider : Selection(asked)[p] = {}
      BY SelectionType, NothingResolvesNothing
    <2>2. Worked = {} /\ Given = {}
      BY <2>1 DEF Worked, Given
    <2>3. EvidenceTypeOK
      BY DEF EvidenceTypeOK, NothingSelected
    <2>4. IdleInv /\ SelectedInv /\ SuppliedInv /\ GivenInv
      BY <2>2 DEF IdleInv, SelectedInv, NothingSelected, SuppliedInv, GivenInv
    <2>5. NoWorkOnACycle /\ ErrorNamesTheCause /\ SuppliesWhatWasNeeded
      BY <2>2 DEF NoWorkOnACycle, ErrorNamesTheCause, SuppliesWhatWasNeeded
    <2> QED BY <2>3, <2>4, <2>5 DEF EvidenceInv
  <1>2. EvidenceInv /\ [EvidenceNext]_evidenceVars => EvidenceInv'
    <2> SUFFICES ASSUME EvidenceInv, [EvidenceNext]_evidenceVars PROVE EvidenceInv'
      OBVIOUS
    <2>1. ASSUME NEW request \in Request, Collect(request.families, request.tables)
          PROVE  EvidenceInv'
      BY <2>1, CollectKeepsInv, RequestAssumption
    <2>2. CASE StartPass
      BY <2>2, StartPassKeepsInv
    <2>3. ASSUME NEW p \in Provider, Read(p) PROVE EvidenceInv'
      BY <2>3, ReadKeepsInv
    <2>4. ASSUME NEW answer \in SUBSET Family, Supply(answer) PROVE EvidenceInv'
      BY <2>4, SupplyKeepsInv
    <2>5. CASE ProviderRaises
      BY <2>5, RaisesKeepsInv
    <2>6. CASE Finish
      BY <2>6, FinishKeepsInv
    <2>7. CASE UNCHANGED evidenceVars
      BY <2>7, StutterKeepsInv
    <2> QED BY <2>1, <2>2, <2>3, <2>4, <2>5, <2>6, <2>7 DEF EvidenceNext, EvidenceStep
  <1> QED BY <1>1, <1>2, PTL DEF EvidenceSpec

(* No provider on a dependency ring is read, whatever else the run reads   *)
(* before it notices the ring.                                             *)
THEOREM RingsDoNoWork == EvidenceSpec => []NoWorkOnACycle
  <1>1. EvidenceInv => NoWorkOnACycle
    BY DEF EvidenceInv
  <1> QED BY <1>1, EvidenceInvariant, PTL

(* The two dependency errors are only raised for what they say.            *)
THEOREM ErrorsAreTrue == EvidenceSpec => []ErrorNamesTheCause
  <1>1. EvidenceInv => ErrorNamesTheCause
    BY DEF EvidenceInv
  <1> QED BY <1>1, EvidenceInvariant, PTL

(* A collection that ends well supplied exactly what was needed.           *)
THEOREM SupplyIsWhole == EvidenceSpec => []SuppliesWhatWasNeeded
  <1>1. EvidenceInv => SuppliesWhatWasNeeded
    BY DEF EvidenceInv
  <1> QED BY <1>1, EvidenceInvariant, PTL

(***************************************************************************)
(* The engine of a run.                                                    *)
(***************************************************************************)

(* The steps of a judgment that touch the list of batches place a rule.    *)
LEMMA EngineSteps == [Next]_vars => [PlaceRule]_engineVars
  BY DEF Next, CompileRule, Open, OpenFails, NextMarker, MarkersEnd, TakeEager, CollectExternal,
     ReadProviders, ProvidersEnd, StartBatch, TakeTable, TablesReady, RunRules, RulesRaise,
     Complete, vars

(* A judgment runs the batches RuleEngine.batches makes of its rules: the  *)
(* connected components, in a list that is complete when it is used.       *)
THEOREM JudgmentRunsTheEngine == Spec => EngineSpec /\ []BatchesAreComponents
  <1>1. Init => EngineInit
    BY DEF Init
  <1> QED BY <1>1, EngineSteps, EngineCorrect, PTL DEF Spec, EngineSpec

LEMMA ListsAreApart == BatchesAreComponents => EntriesAreApart /\ EntriesHoldAll
  BY DEF BatchesAreComponents

(***************************************************************************)
(* The bounded report, which depends on nothing but the accumulator.       *)
(***************************************************************************)

ReportInv ==
    /\ limit \in Nat \cup {NoLimit}
    /\ failures \in Nat /\ retained \in Nat
    /\ ReportIsFull

(* What a batch reports is added to the report until the limit is reached. *)
LEMMA RunRulesKeepsReport ==
    ASSUME ReportInv, RunRules
    PROVE  ReportInv'
  <1>1. PICK found \in 0..MaxFailures :
            /\ failures' = failures + found
            /\ retained' = retained + Kept(found)
    BY DEF RunRules
  <1>2. found \in Nat /\ NoLimit \notin Nat
    BY ExecutionAssumption
  <1>3. limit' = limit
    BY DEF RunRules, inputVars
  <1>4. CASE limit = NoLimit
    BY <1>1, <1>2, <1>3, <1>4 DEF ReportInv, ReportIsFull, Kept
  <1>5. CASE limit # NoLimit
    BY <1>1, <1>2, <1>3, <1>5 DEF ReportInv, ReportIsFull, Kept
  <1> QED BY <1>4, <1>5

(* However many batches a run has, its report keeps as many failures as    *)
(* the limit allows, and no more.                                          *)
THEOREM ReportsAreFull == Spec => []ReportIsFull
  <1>1. Init => ReportInv
    <2> SUFFICES ASSUME Init PROVE ReportInv
      OBVIOUS
    <2>1. limit \in Nat \cup {NoLimit} /\ NoLimit \notin Nat
      BY ExecutionAssumption DEF Init
    <2>2. failures = 0 /\ retained = 0
      BY DEF Init
    <2> QED BY <2>1, <2>2 DEF ReportInv, ReportIsFull
  <1>2. ReportInv /\ [Next]_vars => ReportInv'
    <2> SUFFICES ASSUME ReportInv, [Next]_vars PROVE ReportInv'
      OBVIOUS
    <2>1. CASE RunRules
      BY <2>1, RunRulesKeepsReport
    <2>2. CASE UNCHANGED <<limit, failures, retained>>
      BY <2>2 DEF ReportInv, ReportIsFull
    <2>3. CASE [Next]_vars /\ ~RunRules
      <3>1. UNCHANGED <<limit, failures, retained>>
        BY <2>3 DEF Next, vars, inputVars, reportVars, CompileRule, Open, OpenFails,
            NextMarker, MarkersEnd, TakeEager, CollectExternal, ReadProviders,
            ProvidersEnd, StartBatch, TakeTable, TablesReady, RulesRaise, Complete
      <3> QED BY <3>1, <2>2
    <2> QED BY <2>1, <2>3
  <1>3. ReportInv => ReportIsFull
    BY DEF ReportInv
  <1> QED BY <1>1, <1>2, <1>3, PTL DEF Spec

(***************************************************************************)
(* One model turn.                                                         *)
(***************************************************************************)

LEMMA RunnableIsInBatch ==
    ASSUME NEW batch
    PROVE  Applicable(batch) \subseteq Runnable(batch) /\ Runnable(batch) \subseteq ToSet(batch)
  BY DEF Applicable, Runnable

(* The list of batches has a next entry as long as one is left.            *)
LEMMA NextEntry ==
    ASSUME EntriesAreApart, current \in Nat, current < Len(queue)
    PROVE  current + 1 \in DOMAIN queue
  BY DEF EntriesAreApart

(* The batches are only run once all of them are made, and what runs is    *)
(* the entry after those that are behind.                                  *)
PlaceInv ==
    /\ current \in Nat
    /\ phase = "compile" => current = 0
    /\ phase \in {"tables", "rules"} => current + 1 \in DOMAIN queue

LEMMA PlaceStep ==
    ASSUME PlaceInv, EntriesAreApart, [Next]_vars
    PROVE  PlaceInv'
  <1>1. CASE CompileRule
    BY <1>1 DEF CompileRule, runVars, PlaceInv
  <1>2. CASE StartBatch
    BY <1>2, NextEntry DEF StartBatch, engineVars, PlaceInv
  <1>3. CASE TablesReady
    BY <1>3 DEF TablesReady, engineVars, Raise, PlaceInv
  <1>4. CASE RunRules
    BY <1>4 DEF RunRules, engineVars, PlaceInv
  <1>5. CASE Open \/ OpenFails \/ (\E name \in markers : NextMarker(name)) \/ MarkersEnd
    BY <1>5 DEF Open, OpenFails, NextMarker, MarkersEnd, Raise, engineVars, PlaceInv
  <1>6. CASE (\E family \in Family : TakeEager(family)) \/ CollectExternal
             \/ ReadProviders \/ ProvidersEnd
    BY <1>6 DEF TakeEager, CollectExternal, ReadProviders, ProvidersEnd, Release, Raise,
        engineVars, runVars, PlaceInv
  <1>7. CASE \E family \in Family : TakeTable(family)
    BY <1>7 DEF TakeTable, Release, Raise, engineVars, PlaceInv
  <1>8. CASE RulesRaise \/ Complete
    BY <1>8 DEF RulesRaise, Complete, Raise, engineVars, PlaceInv
  <1>9. CASE UNCHANGED vars
    BY <1>9 DEF vars, engineVars, runVars, PlaceInv
  <1> QED BY <1>1, <1>2, <1>3, <1>4, <1>5, <1>6, <1>7, <1>8, <1>9 DEF Next

(* Before the batches run no turn is taken; a turn that was taken was      *)
(* taken by a batch that is behind.                                        *)
TurnInv ==
    /\ phase = "compile" => turns = 0
    /\ \/ turns = 0
       \/ /\ turns = 1
          /\ \E i \in DOMAIN queue : i <= current /\ Contextual(ToSet(queue[i]))

LEMMA RunRulesTakesTheTurn ==
    ASSUME PlaceInv, TurnInv, EntriesAreApart, RunRules
    PROVE  TurnInv'
  <1>1. /\ current \in Nat /\ current' = current + 1 /\ phase' = "batches"
        /\ queue' = queue /\ current + 1 \in DOMAIN queue
        /\ turns' = IF Contextual(Applicable(Batch)) THEN turns + 1 ELSE turns
    BY DEF RunRules, engineVars, PlaceInv
  <1>2. DOMAIN queue \subseteq Nat
    BY DEF EntriesAreApart
  <1>3. CASE ~Contextual(Applicable(Batch))
    BY <1>1, <1>2, <1>3 DEF TurnInv
  <1>4. CASE Contextual(Applicable(Batch))
    <2>1. PICK r \in Applicable(Batch) : r \in ModelNative
      BY <1>4 DEF Contextual
    <2>2. r \in ToSet(queue[current + 1])
      BY <2>1, RunnableIsInBatch DEF Batch
    <2>3. turns = 0
      <3> SUFFICES ASSUME NEW i \in DOMAIN queue, i <= current,
                          Contextual(ToSet(queue[i]))
                   PROVE  FALSE
        BY DEF TurnInv
      <3>1. PICK l \in ToSet(queue[i]) : l \in ModelNative
        BY DEF Contextual
      <3>2. Linked(l, r)
        BY <2>1, <3>1 DEF Linked
      <3>3. i # current + 1
        BY <1>1, <1>2
      <3> QED BY <1>1, <2>2, <3>1, <3>2, <3>3 DEF EntriesAreApart
    <2>4. turns' = 1 /\ Contextual(ToSet(queue'[current']))
      BY <1>1, <1>4, <2>1, <2>2, <2>3 DEF Contextual
    <2> QED BY <1>1, <2>4 DEF TurnInv
  <1> QED BY <1>3, <1>4

LEMMA TurnStep ==
    ASSUME PlaceInv, TurnInv, EntriesAreApart, [Next]_vars
    PROVE  TurnInv'
  <1>1. CASE RunRules
    BY <1>1, RunRulesTakesTheTurn
  <1>2. CASE CompileRule
    BY <1>2 DEF CompileRule, reportVars, runVars, TurnInv
  <1>3. CASE StartBatch \/ TablesReady
    <2>1. /\ turns' = turns /\ queue' = queue /\ phase' # "compile"
          /\ current' \in {current, current + 1}
      BY <1>3 DEF StartBatch, TablesReady, reportVars, engineVars, Raise
    <2>2. DOMAIN queue \subseteq Nat
      BY DEF EntriesAreApart
    <2>3. \A i \in DOMAIN queue : i <= current => i <= current'
      BY <2>1, <2>2 DEF PlaceInv
    <2> QED BY <2>1, <2>3 DEF TurnInv
  <1>4. CASE [Next]_vars /\ ~RunRules /\ ~CompileRule /\ ~StartBatch /\ ~TablesReady
    <2>1. UNCHANGED <<turns, queue, current>> /\ (phase' = "compile" => phase = "compile")
      BY <1>4 DEF Next, Open, OpenFails, NextMarker, MarkersEnd, TakeEager, CollectExternal,
          ReadProviders, ProvidersEnd, TakeTable, RulesRaise, Complete, Release, Raise,
          vars, engineVars, runVars, reportVars
    <2> QED BY <2>1 DEF TurnInv
  <1> QED BY <1>1, <1>2, <1>3, <1>4

(* The repository's contextual rules share one turn of the backend: at     *)
(* most one entry of the list is contextual, and no entry is run twice.    *)
THEOREM TurnsAreSingle == Spec => []OneModelTurn
  <1>1. Init => PlaceInv /\ TurnInv
    BY DEF Init, PlaceInv, TurnInv
  <1>2. PlaceInv /\ TurnInv /\ EntriesAreApart /\ [Next]_vars => PlaceInv' /\ TurnInv'
    BY PlaceStep, TurnStep
  <1>3. TurnInv => OneModelTurn
    BY DEF TurnInv, OneModelTurn
  <1> QED BY <1>1, <1>2, <1>3, JudgmentRunsTheEngine, ListsAreApart, PTL DEF Spec

(***************************************************************************)
(* No table is asked for twice.  First the providers: they only supply     *)
(* what was resolved and was not in hand.                                  *)
(***************************************************************************)

Start == {"compile", "markers", "eager"}

SupplyInv ==
    /\ installed \in Installation
    /\ DOMAIN selected = Provider
    /\ \A p \in Provider : selected[p] \subseteq Resolved(TypedExternal)
    /\ reading \cup supplied \subseteq Resolved(TypedExternal)
    /\ supplied \cap native = {}
    /\ evidence # "idle" => native \subseteq available
    /\ phase \in Start => evidence = "idle" /\ supplied = {}

(* What the kernel announced, and that the inputs of providers are         *)
(* materialized before any batch runs.                                     *)
SeenInv ==
    /\ seen \subseteq NativeFamilies
    /\ phase \notin Start \cup {"failed"} => seen \cap Eager \subseteq native

(* The rules and the installed providers of a run do not change.           *)
LEMMA InputsStay ==
    ASSUME [Next]_vars
    PROVE  UNCHANGED <<prepared, installed>>
  BY DEF Next, CompileRule, PlaceRule, Open, OpenFails, NextMarker, MarkersEnd, TakeEager,
     CollectExternal, Collect, ReadProviders, EvidenceStep, StartPass, Read, Supply,
     ProviderRaises, Finish, ProvidersEnd, StartBatch, TakeTable, TablesReady, RunRules,
     RulesRaise, Complete, vars, engineVars, evidenceVars

LEMMA FamiliesStay ==
    ASSUME UNCHANGED <<prepared, installed>>
    PROVE  /\ Resolved(TypedExternal)' = Resolved(TypedExternal)
           /\ TypedExternal' = TypedExternal
           /\ Eager' = Eager
           /\ NativeFamilies' = NativeFamilies
  BY DEF Resolved, Provided, Eager, NativeFamilies, ProviderInputs, Requirements,
     LanguageProbe, TypedExternal, Typed

LEMMA SupplyStep ==
    ASSUME SupplyInv, [Next]_vars
    PROVE  SupplyInv'
  <1>1. UNCHANGED <<prepared, installed>>
    BY InputsStay
  <1>2. /\ Resolved(TypedExternal)' = Resolved(TypedExternal)
        /\ TypedExternal' = TypedExternal
    BY <1>1, FamiliesStay
  <1>3. CASE ReadProviders
    <2>1. /\ phase = "external" /\ phase' = phase /\ native' = native
          /\ evidence = "collecting" /\ EvidenceStep
      BY <1>3 DEF ReadProviders, runVars, sessionVars
    <2>2. CASE StartPass \/ Finish
      BY <1>2, <2>1, <2>2 DEF StartPass, Finish, SupplyInv, Start
    <2>3. ASSUME NEW p \in Provider, Read(p) PROVE SupplyInv'
      BY <1>2, <2>1, <2>3 DEF Read, SupplyInv, Start
    <2>4. ASSUME NEW answer \in SUBSET Family, Supply(answer) PROVE SupplyInv'
      BY <1>2, <2>1, <2>4 DEF Supply, SupplyInv, Start
    <2>5. CASE ProviderRaises
      BY <1>2, <2>1, <2>5 DEF ProviderRaises, SupplyInv, Start
    <2> QED BY <2>1, <2>2, <2>3, <2>4, <2>5 DEF EvidenceStep
  <1>4. CASE CollectExternal
    <2>1. phase = "eager" /\ native' = native /\ phase' \notin Start
      BY <1>4 DEF CollectExternal, sessionVars, Start
    <2>2. CASE TypedExternal = {}
      BY <1>2, <1>4, <2>1, <2>2 DEF CollectExternal, evidenceVars, SupplyInv
    <2>3. CASE Collect(TypedExternal, native)
      <3>1. /\ selected' = Selection(TypedExternal) /\ available' = native
            /\ reading' = reading /\ supplied' = supplied
        BY <2>3 DEF Collect
      <3>2. /\ DOMAIN selected' = Provider
            /\ \A p \in Provider : selected'[p] \subseteq Resolved(TypedExternal)
        BY <3>1 DEF Selection
      <3> QED BY <1>1, <1>2, <2>1, <3>1, <3>2 DEF SupplyInv
    <2> QED BY <1>4, <2>2, <2>3 DEF CollectExternal
  <1>5. CASE \E family \in Family : TakeEager(family)
    <2>1. UNCHANGED evidenceVars /\ phase = "eager"
      BY <1>5 DEF TakeEager
    <2> QED BY <1>2, <2>1 DEF evidenceVars, SupplyInv, Start
  <1>6. CASE [Next]_vars /\ ~ReadProviders /\ ~CollectExternal
             /\ ~(\E family \in Family : TakeEager(family))
    <2>1. UNCHANGED evidenceVars /\ native' = native
      BY <1>6 DEF Next, CompileRule, Open, OpenFails, NextMarker, MarkersEnd, ProvidersEnd,
          StartBatch, TakeTable, TablesReady, RunRules, RulesRaise, Complete, vars, sessionVars
    <2>2. phase' \in Start => phase \in Start
      BY <1>6 DEF Next, CompileRule, Open, OpenFails, NextMarker, MarkersEnd, ProvidersEnd,
          StartBatch, TakeTable, TablesReady, RunRules, RulesRaise, Complete, vars, runVars,
          Raise, Release, Start
    <2> QED BY <1>2, <2>1, <2>2 DEF evidenceVars, SupplyInv
  <1> QED BY <1>3, <1>4, <1>5, <1>6

LEMMA SeenStep ==
    ASSUME SeenInv, [Next]_vars
    PROVE  SeenInv'
  <1>1. Eager' = Eager /\ NativeFamilies' = NativeFamilies
    BY InputsStay, FamiliesStay
  <1>2. CASE \E name \in markers : NextMarker(name)
    BY <1>1, <1>2 DEF NextMarker, Raise, SeenInv, Start
  <1>3. CASE CollectExternal
    BY <1>1, <1>3 DEF CollectExternal, sessionVars, SeenInv
  <1>4. CASE \E family \in Family : TakeEager(family)
    BY <1>1, <1>4 DEF TakeEager, Release, Raise, SeenInv, Start
  <1>5. CASE [Next]_vars /\ ~CollectExternal /\ ~(\E name \in markers : NextMarker(name))
             /\ ~(\E family \in Family : TakeEager(family))
    <2>1. UNCHANGED <<seen, native>>
      BY <1>5 DEF Next, CompileRule, Open, OpenFails, MarkersEnd, ReadProviders, ProvidersEnd,
          StartBatch, TakeTable, TablesReady, RunRules, RulesRaise, Complete, vars, sessionVars
    <2>2. phase' \notin Start \cup {"failed"} => phase \notin Start \cup {"failed"}
      BY <1>5 DEF Next, CompileRule, Open, OpenFails, MarkersEnd, ReadProviders, ProvidersEnd,
          StartBatch, TakeTable, TablesReady, RunRules, RulesRaise, Complete, vars, runVars,
          Raise, Release, Start
    <2> QED BY <1>1, <2>1, <2>2 DEF SeenInv
  <1> QED BY <1>2, <1>3, <1>4, <1>5

(* Every family that is resolved was asked for or is somebody's input.     *)
LEMMA ResolvedIsAskedOrInput ==
    ASSUME NEW families, NEW f \in Resolved(families)
    PROVE  f \in families \/ f \in Requirements(families)
  <1> DEFINE T == {g \in Resolved(families) : g \in families \/ g \in Requirements(families)}
  <1>1. T \in SUBSET Provided
    BY DEF Resolved
  <1>2. families \cap Provided \subseteq T
    BY DEF Resolved
  <1>3. \A g \in T : installed.needs[g] \cap Provided \subseteq T
    <2> SUFFICES ASSUME NEW g \in Resolved(families),
                        NEW h \in installed.needs[g] \cap Provided
                 PROVE  h \in T
      OBVIOUS
    <2>1. h \in Resolved(families)
      BY DEF Resolved
    <2>2. h \in Requirements(families)
      BY DEF Requirements
    <2> QED BY <2>1, <2>2
  <1>4. f \in T
    BY <1>1, <1>2, <1>3 DEF Resolved
  <1> QED BY <1>4

(* What a provider supplies is not in the native session as well: a native *)
(* family among the resolved ones is an input, was materialized for it and *)
(* is therefore in hand.                                                   *)
LEMMA SuppliedIsNotNative ==
    ASSUME SupplyInv, SeenInv, ProvidersOwnNoOther, phase \notin Start \cup {"failed"}
    PROVE  supplied \cap seen = {}
  <1> SUFFICES ASSUME NEW f \in supplied, f \in seen PROVE FALSE
    OBVIOUS
  <1>1. f \notin Eager /\ f \in Resolved(TypedExternal) /\ f \in NativeFamilies
    BY DEF SupplyInv, SeenInv
  <1>2. f \in Typed /\ f \notin ExternalFamily
    BY <1>1 DEF NativeFamilies
  <1>3. f \in ProviderInputs
    BY <1>1, <1>2, ResolvedIsAskedOrInput DEF TypedExternal, ProviderInputs
  <1>4. PICK p \in Provider : f \in installed.owns[p]
    BY <1>1 DEF Resolved, Provided
  <1>5. f \in Buildable
    BY <1>2, <1>4 DEF SupplyInv, ProvidersOwnNoOther
  <1> QED BY <1>1, <1>3, <1>5 DEF Eager

(***************************************************************************)
(* Then the session: whatever it does not hold any more was materialized,  *)
(* or taken by this batch or by one that is behind.                        *)
(***************************************************************************)

TablesInv ==
    /\ phase \in Start => tables = {}
    /\ phase \in {"external", "batches"} => tables = {}
    /\ phase \in {"tables", "rules"} => tables \subseteq BatchFamilies(ToSet(Batch))
    /\ phase = "tables" => tables \subseteq seen
    /\ phase \in Start => current = 0
    /\ phase = "compile" => seen = {}

Behind(f) == \E i \in DOMAIN queue : i <= current /\ f \in BatchFamilies(ToSet(queue[i]))

HeldInv ==
    /\ phase = "markers" => held = NativeFamilies
    /\ phase # "failed" =>
          \A f \in (seen \ native) \ held :
              Behind(f) \/ (phase \in {"tables", "rules"} /\ f \in tables)

LEMMA WantedIsInBatch ==
    ASSUME NEW batch PROVE Wanted(batch) \subseteq BatchFamilies(ToSet(batch))
  BY RunnableIsInBatch DEF Wanted, BatchFamilies

LEMMA TablesStep ==
    ASSUME TablesInv, PlaceInv, [Next]_vars
    PROVE  TablesInv'
  <1>1. CASE CompileRule
    BY <1>1 DEF CompileRule, runVars, sessionVars, TablesInv, Start
  <1>2. CASE Open \/ OpenFails \/ (\E name \in markers : NextMarker(name)) \/ MarkersEnd
    BY <1>2 DEF Open, OpenFails, NextMarker, MarkersEnd, Raise, TablesInv, Start
  <1>3. CASE (\E family \in Family : TakeEager(family)) \/ CollectExternal
             \/ ReadProviders \/ ProvidersEnd
    BY <1>3 DEF TakeEager, CollectExternal, ReadProviders, ProvidersEnd, Release, Raise,
        runVars, TablesInv, Start
  <1>4. CASE StartBatch
    BY <1>4 DEF StartBatch, TablesInv, Start
  <1>5. CASE \E family \in Family : TakeTable(family)
    <2>1. PICK family \in Family : TakeTable(family)
      BY <1>5
    <2>2. Batch' = Batch /\ seen' = seen
      BY <2>1 DEF TakeTable, engineVars, Batch
    <2>3. /\ phase = "tables" /\ family \in seen /\ family \in BatchFamilies(ToSet(Batch))
          /\ tables' = tables \cup {family} /\ phase' \in {phase, "failed"}
      BY <2>1, WantedIsInBatch DEF TakeTable, Release, Raise
    <2> QED BY <2>2, <2>3 DEF TablesInv, Start
  <1>6. CASE TablesReady
    <2>1. phase = "tables" /\ phase' \in {"failed", "batches", "rules"}
      BY <1>6 DEF TablesReady, Raise
    <2>2. phase' = "batches" => tables' = {}
      BY <1>6 DEF TablesReady, Raise
    <2>3. phase' = "rules" =>
              /\ Batch' = Batch
              /\ tables' \subseteq tables \cup Wanted(Batch)
      BY <1>6 DEF TablesReady, Raise, Batch, engineVars
    <2> QED BY <2>1, <2>2, <2>3, WantedIsInBatch DEF TablesInv, Start
  <1>7. CASE RunRules \/ RulesRaise \/ Complete
    BY <1>7 DEF RunRules, RulesRaise, Complete, Raise, TablesInv, Start
  <1>8. CASE UNCHANGED vars
    BY <1>8 DEF vars, engineVars, runVars, sessionVars, Batch, TablesInv
  <1> QED BY <1>1, <1>2, <1>3, <1>4, <1>5, <1>6, <1>7, <1>8 DEF Next

(* A table nobody took is still in the session when its batch asks for it. *)
LEMMA TableIsHeld ==
    ASSUME PlaceInv, TablesInv, HeldInv, EntriesAreApart, phase = "tables",
           NEW f \in (seen \cap Wanted(Batch)) \ tables, f \notin native
    PROVE  f \in held
  <1> SUFFICES ASSUME Behind(f) PROVE FALSE
    BY DEF HeldInv
  <1>1. PICK i \in DOMAIN queue : i <= current /\ f \in BatchFamilies(ToSet(queue[i]))
    BY DEF Behind
  <1>2. f \in BatchFamilies(ToSet(queue[current + 1])) /\ current + 1 \in DOMAIN queue
    BY WantedIsInBatch DEF Batch, PlaceInv
  <1>3. PICK l \in ToSet(queue[i]), r \in ToSet(queue[current + 1]) :
            f \in Reads[l] /\ f \in Reads[r]
    BY <1>1, <1>2 DEF BatchFamilies
  <1>4. i # current + 1
    BY <1>1 DEF EntriesAreApart, PlaceInv
  <1> QED BY <1>1, <1>2, <1>3, <1>4 DEF EntriesAreApart, Linked

(* Before the batches run everything that was not materialized is held.    *)
LEMMA EagerIsHeld ==
    ASSUME TablesInv, HeldInv, EntriesAreApart, phase \in Start
    PROVE  seen \ native \subseteq held
  <1>1. \A i \in DOMAIN queue : ~(i <= current)
    BY DEF TablesInv, EntriesAreApart
  <1> QED BY <1>1 DEF HeldInv, Behind, Start

(* Who is behind stays behind, and the batch that ends joins them.         *)
LEMMA BehindGrows ==
    ASSUME PlaceInv, EntriesAreApart, queue' = queue, current' \in {current, current + 1}
    PROVE  \A f : Behind(f) => Behind(f)'
  <1>1. DOMAIN queue \subseteq Nat
    BY DEF EntriesAreApart
  <1>2. \A i \in DOMAIN queue : i <= current => i <= current'
    BY <1>1 DEF PlaceInv
  <1> QED BY <1>2 DEF Behind

LEMMA BatchEnds ==
    ASSUME PlaceInv, TablesInv, HeldInv, EntriesAreApart,
           phase \in {"tables", "rules"}, current' = current + 1,
           UNCHANGED <<queue, seen, native, held>>, phase' = "batches"
    PROVE  HeldInv'
  <1>1. \A f \in tables : Behind(f)'
    BY DEF TablesInv, PlaceInv, Behind, Batch
  <1> QED BY <1>1, BehindGrows DEF HeldInv

LEMMA HeldStep ==
    ASSUME SeenInv, PlaceInv, TablesInv, HeldInv, EntriesAreApart, [Next]_vars
    PROVE  HeldInv'
  <1>1. NativeFamilies' = NativeFamilies
    BY InputsStay, FamiliesStay
  <1>2. CASE CompileRule \/ Open \/ OpenFails
    <2>1. phase = "compile" /\ seen = {} /\ seen' = seen
      BY <1>2 DEF CompileRule, Open, OpenFails, sessionVars, TablesInv
    <2>2. phase' = "markers" => held' = NativeFamilies
      BY <1>2, <2>1 DEF CompileRule, Open, OpenFails, Raise, runVars
    <2> QED BY <1>1, <2>1, <2>2 DEF HeldInv
  <1>3. CASE (\E name \in markers : NextMarker(name)) \/ MarkersEnd
    <2>1. /\ phase = "markers" /\ held' = held /\ native' = native
          /\ seen' \subseteq NativeFamilies
      BY <1>3 DEF NextMarker, MarkersEnd, sessionVars, SeenInv
    <2> QED BY <1>1, <2>1 DEF HeldInv
  <1>4. CASE \E family \in Family : TakeEager(family)
    <2>1. PICK family \in Family : TakeEager(family)
      BY <1>4
    <2>2. seen \ native \subseteq held /\ phase = "eager" /\ seen' = seen
      BY <2>1, EagerIsHeld DEF TakeEager, Start
    <2>3. family \in held /\ native' = native \cup {family}
      BY <2>1, <2>2 DEF TakeEager
    <2>4. held' = held \ {family} /\ phase' = phase
      BY <2>1, <2>3 DEF TakeEager, Release
    <2> QED BY <2>2, <2>3, <2>4 DEF HeldInv
  <1>5. CASE CollectExternal \/ ReadProviders \/ ProvidersEnd \/ Complete \/ RulesRaise
    <2>1. UNCHANGED <<queue, seen, native, held, current>> /\ phase' # "markers"
      BY <1>5 DEF CollectExternal, ReadProviders, ProvidersEnd, Complete, RulesRaise,
          engineVars, sessionVars, runVars, Raise
    <2>2. phase' # "failed" => phase \notin {"tables", "rules", "failed"}
      BY <1>5 DEF CollectExternal, ReadProviders, ProvidersEnd, Complete, RulesRaise,
          runVars, Raise
    <2>3. \A f : Behind(f)' <=> Behind(f)
      BY <2>1 DEF Behind
    <2> QED BY <2>1, <2>2, <2>3 DEF HeldInv
  <1>6. CASE StartBatch
    <2>1. /\ UNCHANGED <<queue, seen, native, held>> /\ phase = "batches"
          /\ phase' \in {"batches", "tables"} /\ current' \in {current, current + 1}
      BY <1>6 DEF StartBatch, engineVars, sessionVars
    <2> QED BY <2>1, BehindGrows DEF HeldInv
  <1>7. CASE \E family \in Family : TakeTable(family)
    <2>1. PICK family \in Family : TakeTable(family)
      BY <1>7
    <2>2. /\ phase = "tables" /\ tables' = tables \cup {family}
          /\ UNCHANGED <<queue, seen, native, current>>
      BY <2>1 DEF TakeTable, engineVars
    <2>3. family \notin native => family \in held
      BY <2>1, TableIsHeld DEF TakeTable
    <2>4. held \ {family} \subseteq held' /\ phase' = phase
      BY <2>1, <2>3 DEF TakeTable, Release
    <2>5. \A f : Behind(f)' <=> Behind(f)
      BY <2>2 DEF Behind
    <2> QED BY <2>2, <2>4, <2>5 DEF HeldInv
  <1>8. CASE TablesReady
    <2>1. /\ phase = "tables" /\ phase' \in {"failed", "batches", "rules"}
          /\ UNCHANGED <<queue, seen, native, held>>
      BY <1>8 DEF TablesReady, Raise, engineVars, sessionVars
    <2>2. CASE phase' = "batches"
      BY <1>8, <2>1, <2>2, BatchEnds DEF TablesReady, Raise
    <2>3. CASE phase' = "rules"
      <3>1. tables \subseteq tables' /\ current' = current
        BY <1>8, <2>3 DEF TablesReady, Raise
      <3>2. \A f : Behind(f)' <=> Behind(f)
        BY <2>1, <3>1 DEF Behind
      <3> QED BY <2>1, <2>3, <3>1, <3>2 DEF HeldInv
    <2>4. CASE phase' = "failed"
      BY <2>4 DEF HeldInv
    <2> QED BY <2>1, <2>2, <2>3, <2>4
  <1>9. CASE RunRules
    BY <1>9, BatchEnds DEF RunRules, engineVars, sessionVars
  <1>10. CASE UNCHANGED vars
    BY <1>1, <1>10 DEF vars, engineVars, sessionVars, runVars, Behind, HeldInv
  <1> QED BY <1>2, <1>3, <1>4, <1>5, <1>6, <1>7, <1>8, <1>9, <1>10 DEF Next

LEMMA NothingAskedTwiceStep ==
    ASSUME SupplyInv, SeenInv, PlaceInv, TablesInv, HeldInv, EntriesAreApart,
           ProvidersOwnNoOther, NoTableAskedTwice, [Next]_vars
    PROVE  NoTableAskedTwice'
  <1>1. ASSUME NEW family \in Family, TakeEager(family) PROVE problem' = problem
    <2>1. family \in held
      BY <1>1, EagerIsHeld DEF TakeEager, Start
    <2> QED BY <1>1, <2>1 DEF TakeEager, Release
  <1>2. ASSUME NEW family \in Family, TakeTable(family) PROVE problem' = problem
    <2>1. family \notin native => family \in held
      BY <1>2, TableIsHeld DEF TakeTable
    <2> QED BY <1>2, <2>1 DEF TakeTable, Release
  <1>3. CASE TablesReady
    <2>1. supplied \cap seen = {} /\ tables \subseteq seen
      BY <1>3, SuppliedIsNotNative DEF TablesReady, TablesInv, Start
    <2> QED BY <1>3, <2>1 DEF TablesReady, NoTableAskedTwice
  <1>4. CASE [Next]_vars /\ ~TablesReady /\ ~(\E family \in Family : TakeEager(family))
             /\ ~(\E family \in Family : TakeTable(family))
    <2>1. problem' \in {problem, "requirements", "session", "marker", "evidence", "rule"}
      BY <1>4 DEF Next, CompileRule, Open, OpenFails, NextMarker, MarkersEnd, CollectExternal,
          ReadProviders, ProvidersEnd, StartBatch, RunRules, RulesRaise, Complete, Raise,
          vars, runVars
    <2> QED BY <2>1 DEF NoTableAskedTwice
  <1> QED BY <1>1, <1>2, <1>3, <1>4 DEF NoTableAskedTwice

(* Providers, the language probe and the batches never ask the session for *)
(* a table that was taken, and after the providers are read no batch gets  *)
(* a table from the kernel and from a provider, as long as providers own   *)
(* what they are meant for.                                                *)
THEOREM TablesAreTakenOnce ==
    ASSUME ProvidersOwnNoOther
    PROVE  Spec => []NoTableAskedTwice
  <1> DEFINE Inv == SupplyInv /\ SeenInv /\ PlaceInv /\ TablesInv /\ HeldInv
                    /\ NoTableAskedTwice
  <1>1. Init => Inv
    <2> SUFFICES ASSUME Init PROVE Inv
      OBVIOUS
    <2>1. SupplyInv
      BY DEF Init, EvidenceInit, NothingSelected, SupplyInv
    <2>2. SeenInv /\ PlaceInv /\ TablesInv /\ HeldInv /\ NoTableAskedTwice
      BY DEF Init, SeenInv, PlaceInv, TablesInv, HeldInv, NoTableAskedTwice, Start
    <2> QED BY <2>1, <2>2
  <1>2. Inv /\ EntriesAreApart /\ [Next]_vars => Inv'
    BY SupplyStep, SeenStep, PlaceStep, TablesStep, HeldStep, NothingAskedTwiceStep
  <1>3. Inv => NoTableAskedTwice
    OBVIOUS
  <1> QED BY <1>1, <1>2, <1>3, JudgmentRunsTheEngine, ListsAreApart, PTL DEF Spec

(***************************************************************************)
(* Every rule is judged once.                                              *)
(***************************************************************************)

Judging == {"batches", "tables", "rules", "done"}

(* From the markers on the list is complete, from their end on the tables  *)
(* the kernel announced are the ones that were asked for.                  *)
ReadyInv ==
    /\ phase \notin {"compile", "failed"} => placed = Len(prepared)
    /\ phase \notin {"compile", "markers", "failed"} => seen = NativeFamilies
    /\ phase \in Start \cup {"external"} => current = 0
    /\ phase = "done" => current = Len(queue)

JudgedBehind(r) == \E i \in DOMAIN queue : i <= current /\ r \in Applicable(queue[i])

(* A rule was judged if it is applicable in an entry that is behind.       *)
JudgeInv ==
    /\ DOMAIN runs = Rule
    /\ \A r \in Rule : runs[r] \in {0, 1}
    /\ reached \subseteq {r \in Rule : runs[r] = 1}
    /\ phase \in Start \cup {"external"} => \A r \in Rule : runs[r] = 0
    /\ phase \in Judging => \A r \in Rule : runs[r] = 1 <=> JudgedBehind(r)

LEMMA ReadyStep ==
    ASSUME ReadyInv, PlaceInv, [Next]_vars
    PROVE  ReadyInv'
  <1>1. NativeFamilies' = NativeFamilies
    BY InputsStay, FamiliesStay
  <1>2. CASE CompileRule \/ Open \/ OpenFails
    BY <1>1, <1>2 DEF CompileRule, Open, OpenFails, engineVars, runVars, Raise, Start, ReadyInv,
        PlaceInv
  <1>3. CASE (\E name \in markers : NextMarker(name)) \/ MarkersEnd
    BY <1>1, <1>3 DEF NextMarker, MarkersEnd, engineVars, sessionVars, Raise, Start, ReadyInv
  <1>4. CASE (\E family \in Family : TakeEager(family)) \/ CollectExternal
             \/ ReadProviders \/ ProvidersEnd
    BY <1>1, <1>4 DEF TakeEager, CollectExternal, ReadProviders, ProvidersEnd, Release, Raise,
        engineVars, sessionVars, runVars, Start, ReadyInv
  <1>5. CASE StartBatch \/ (\E family \in Family : TakeTable(family)) \/ TablesReady
    BY <1>1, <1>5 DEF StartBatch, TakeTable, TablesReady, Release, Raise, engineVars,
        sessionVars, Start, ReadyInv
  <1>6. CASE RunRules \/ RulesRaise \/ Complete
    BY <1>1, <1>6 DEF RunRules, RulesRaise, Complete, Raise, engineVars, sessionVars, Start,
        ReadyInv
  <1>7. CASE UNCHANGED vars
    BY <1>1, <1>7 DEF vars, engineVars, sessionVars, runVars, ReadyInv
  <1> QED BY <1>2, <1>3, <1>4, <1>5, <1>6, <1>7 DEF Next

(* While the batches run nothing that decides about a rule changes.        *)
LEMMA ApplicableStays ==
    ASSUME UNCHANGED <<prepared, installed, observed, supplied>>
    PROVE  \A batch : Applicable(batch)' = Applicable(batch)
  BY FamiliesStay DEF Applicable, Runnable

(* A batch without an applicable rule adds nobody.                         *)
LEMMA BehindStays ==
    ASSUME PlaceInv, EntriesAreApart,
           UNCHANGED <<prepared, installed, observed, supplied, queue>>,
           \/ current' = current
           \/ current' = current + 1 /\ Applicable(Batch) = {}
    PROVE  \A r : JudgedBehind(r)' <=> JudgedBehind(r)
  <1>1. \A i \in DOMAIN queue : i \in Nat
    BY DEF EntriesAreApart
  <1>2. \A i \in DOMAIN queue : Applicable(queue[i])' = Applicable(queue[i])
    BY ApplicableStays
  <1>3. CASE current' = current
    BY <1>2, <1>3 DEF JudgedBehind
  <1>4. CASE current' = current + 1 /\ Applicable(Batch) = {}
    <2>1. \A i \in DOMAIN queue : i <= current' => i <= current \/ i = current + 1
      BY <1>1, <1>4 DEF PlaceInv
    <2>2. \A i \in DOMAIN queue : i <= current => i <= current'
      BY <1>1, <1>4 DEF PlaceInv
    <2> QED BY <1>2, <1>4, <2>1, <2>2 DEF JudgedBehind, Batch
  <1> QED BY <1>3, <1>4

(* A rule of the next entry is in no entry that is behind: it reads at     *)
(* least one table, so it would be linked to itself.                       *)
LEMMA RulesAreJudgedOnce ==
    ASSUME PlaceInv, EntriesAreApart, phase = "rules", NEW r \in Applicable(Batch)
    PROVE  r \in Rule /\ ~JudgedBehind(r)
  <1>1. current + 1 \in DOMAIN queue /\ r \in ToSet(queue[current + 1])
    BY RunnableIsInBatch DEF PlaceInv, Batch
  <1>2. r \in Rule
    <2>1. queue[current + 1] \in Seq(Rule)
      BY <1>1 DEF EntriesAreApart
    <2> QED BY <1>1, <2>1 DEF ToSet
  <1>3. Linked(r, r)
    BY <1>2, ReadsAssumption DEF Linked
  <1> SUFFICES ASSUME NEW i \in DOMAIN queue, i <= current, r \in Applicable(queue[i])
               PROVE  FALSE
    BY <1>2 DEF JudgedBehind
  <1>4. r \in ToSet(queue[i])
    BY RunnableIsInBatch
  <1>5. i # current + 1
    BY DEF EntriesAreApart, PlaceInv
  <1> QED BY <1>1, <1>3, <1>4, <1>5 DEF EntriesAreApart

LEMMA RunRulesJudges ==
    ASSUME PlaceInv, EntriesAreApart, JudgeInv, RunRules
    PROVE  JudgeInv'
  <1>1. /\ phase = "rules" /\ phase' = "batches" /\ current' = current + 1
        /\ queue' = queue
        /\ runs' = [r \in Rule |-> IF r \in Applicable(Batch) THEN runs[r] + 1 ELSE runs[r]]
        /\ reached' = reached \cup Applicable(Batch)
        /\ UNCHANGED <<prepared, installed, observed, supplied>>
    BY DEF RunRules, engineVars, evidenceVars, inputVars
  <1>2. \A i \in DOMAIN queue : Applicable(queue[i])' = Applicable(queue[i])
    BY <1>1, ApplicableStays
  <1>3. \A r \in Applicable(Batch) : r \in Rule /\ runs[r] = 0
    <2> TAKE r \in Applicable(Batch)
    <2>1. r \in Rule /\ ~JudgedBehind(r)
      BY <1>1, RulesAreJudgedOnce
    <2> QED BY <1>1, <2>1 DEF JudgeInv, Judging
  <1>4. \A r \in Rule : runs'[r] = IF r \in Applicable(Batch) THEN 1 ELSE runs[r]
    BY <1>1, <1>3
  <1>5. \A r \in Rule : JudgedBehind(r)' <=> JudgedBehind(r) \/ r \in Applicable(Batch)
    <2>1. \A i \in DOMAIN queue :
              i <= current' <=> i <= current \/ i = current + 1
      BY <1>1 DEF EntriesAreApart, PlaceInv
    <2>2. current + 1 \in DOMAIN queue
      BY <1>1 DEF PlaceInv
    <2> QED BY <1>1, <1>2, <2>1, <2>2 DEF JudgedBehind, Batch
  <1> QED BY <1>1, <1>3, <1>4, <1>5 DEF JudgeInv, Judging, Start

LEMMA JudgeStep ==
    ASSUME ReadyInv, PlaceInv, EntriesAreApart, JudgeInv, [Next]_vars
    PROVE  JudgeInv'
  <1>1. CASE RunRules
    BY <1>1, RunRulesJudges
  <1>2. CASE CompileRule \/ Open \/ OpenFails \/ (\E name \in markers : NextMarker(name))
             \/ MarkersEnd \/ (\E family \in Family : TakeEager(family)) \/ ReadProviders
    <2>1. UNCHANGED <<runs, reached>> /\ phase' \notin Judging
          /\ (phase' \in Start \cup {"external"} => phase \in Start \cup {"external"})
      BY <1>2 DEF CompileRule, Open, OpenFails, NextMarker, MarkersEnd, TakeEager,
          ReadProviders, reportVars, runVars, Release, Raise, Start, Judging
    <2> QED BY <2>1 DEF JudgeInv
  <1>3. CASE CollectExternal \/ ProvidersEnd
    <2>1. /\ UNCHANGED <<runs, reached, queue, current>> /\ phase \in Start \cup {"external"}
          /\ phase' \in {"external", "batches", "failed"}
      BY <1>3 DEF CollectExternal, ProvidersEnd, reportVars, engineVars, Raise, Start
    <2>2. \A r : ~JudgedBehind(r)'
      <3>1. current' = 0 /\ \A i \in DOMAIN queue : i \in Nat \ {0}
        BY <2>1 DEF ReadyInv, EntriesAreApart
      <3>2. \A i \in DOMAIN queue : ~(i <= 0)
        BY <3>1
      <3> QED BY <2>1, <3>1, <3>2 DEF JudgedBehind
    <2> QED BY <2>1, <2>2 DEF JudgeInv, Judging
  <1>4. CASE StartBatch \/ (\E family \in Family : TakeTable(family)) \/ TablesReady
             \/ RulesRaise \/ Complete
    <2>1. /\ UNCHANGED <<runs, reached, prepared, installed, observed, supplied, queue>>
          /\ phase \in Judging /\ phase' \in Judging \cup {"failed"}
      BY <1>4 DEF StartBatch, TakeTable, TablesReady, RulesRaise, Complete, reportVars,
          evidenceVars, engineVars, inputVars, Release, Raise, Judging
    <2>2. \/ current' = current
          \/ current' = current + 1 /\ Applicable(Batch) = {}
      BY <1>4, RunnableIsInBatch DEF StartBatch, TakeTable, TablesReady, RulesRaise, Complete,
          Raise
    <2>3. \A r : JudgedBehind(r)' <=> JudgedBehind(r)
      BY <2>1, <2>2, BehindStays
    <2> QED BY <2>1, <2>3 DEF JudgeInv, Judging, Start
  <1>5. CASE UNCHANGED vars
    <2>1. UNCHANGED <<runs, reached, prepared, installed, observed, supplied, queue, current,
                      phase>>
      BY <1>5 DEF vars, reportVars, evidenceVars, engineVars, inputVars, runVars
    <2>2. \A r : JudgedBehind(r)' <=> JudgedBehind(r)
      BY <2>1, BehindStays
    <2> QED BY <2>1, <2>2 DEF JudgeInv
  <1> QED BY <1>1, <1>2, <1>3, <1>4, <1>5 DEF Next

(* A rule is judged exactly once if all its tables came and hold a         *)
(* language it accepts, and never otherwise, in whatever entry of the list *)
(* it is and whatever the other rules of the entry lack.                   *)
THEOREM RulesAreJudged == Spec => []EveryRuleJudgedOnce
  <1> DEFINE Inv == ReadyInv /\ PlaceInv /\ JudgeInv
  <1>1. Init => Inv
    BY DEF Init, ReadyInv, PlaceInv, JudgeInv, Judging, Start
  <1>2. Inv /\ EntriesAreApart /\ [Next]_vars => Inv'
    BY ReadyStep, PlaceStep, JudgeStep
  <1>3. Inv /\ EntriesAreApart /\ EntriesHoldAll => EveryRuleJudgedOnce
    <2> SUFFICES ASSUME Inv, EntriesAreApart, EntriesHoldAll PROVE EveryRuleJudgedOnce
      OBVIOUS
    <2> DEFINE Judged(r) ==
            /\ r \in ToSet(prepared)
            /\ \A f \in Reads[r] :
                  /\ f \in seen \cup supplied
                  /\ Wants[r][f] = {} \/ Wants[r][f] \cap observed[f] # {}
    <2>1. ASSUME phase = "done", NEW r \in Rule
          PROVE  JudgedBehind(r) <=> Judged(r)
      <3>1. /\ seen = NativeFamilies /\ current = Len(queue)
            /\ UNION {ToSet(queue[i]) : i \in DOMAIN queue} = ToSet(prepared)
        BY <2>1 DEF ReadyInv, EntriesHoldAll
      <3>2. \A i \in DOMAIN queue : i <= current
        BY <3>1 DEF EntriesAreApart
      <3>3. r \in ToSet(prepared) <=> \E i \in DOMAIN queue : r \in ToSet(queue[i])
        BY <3>1
      <3> QED BY <3>1, <3>2, <3>3 DEF JudgedBehind, Applicable, Runnable
    <2>2. phase = "done" => \A r \in Rule : runs[r] = (IF Judged(r) THEN 1 ELSE 0)
      BY <2>1 DEF JudgeInv, Judging
    <2>3. (\A r \in Rule : runs[r] <= 1) /\ (\A r \in reached : runs[r] = 1)
      BY DEF JudgeInv
    <2> QED BY <2>2, <2>3 DEF EveryRuleJudgedOnce
  <1> QED BY <1>1, <1>2, <1>3, JudgmentRunsTheEngine, ListsAreApart, PTL DEF Spec
================================================================================
