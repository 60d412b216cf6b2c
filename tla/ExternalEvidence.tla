----------------------------- MODULE ExternalEvidence ---------------------------
(***************************************************************************)
(* ExternalEvidence.tables (execution/providers/evidence.py): the installed*)
(* providers build the external families a run asks for, each provider     *)
(* once all the inputs of all the families asked of it are available.  A   *)
(* provider is awaited: it may answer, answer something else, or fail.     *)
(***************************************************************************)
EXTENDS FactFamilies

CONSTANTS
    Provider,       \* the installed providers
    Installation,   \* the sets of provider declarations the repository may
                    \* have: records of .owns, the families of a provider, and
                    \* .needs, the inputs of a family
    Request         \* the calls of tables(): records of .families, what is
                    \* asked for, and .tables, what the caller has

ASSUME InstallationAssumption ==
    /\ Installation \subseteq [owns: [Provider -> SUBSET Family],
                               needs: [Family -> SUBSET Family]]
    /\ \A i \in Installation : \A p, q \in Provider :
           p # q => i.owns[p] \cap i.owns[q] = {}      \* owners, lines 39-50

ASSUME RequestAssumption ==
    Request \subseteq [families: SUBSET Family, tables: SUBSET Family]

VARIABLES
    installed,      \* the declarations of this run's providers
    asked,          \* `families`: what the caller asked for
    selected,       \* selected[p]: what p still has to supply, {} once popped
    ready,          \* the providers of the current pass that are still to be read
    reading,        \* what the awaited provider was asked for, {} between reads
    available,      \* the families whose tables can be an input
    supplied,       \* supplied_tables
    evidence        \* where tables() is, or how it ended

evidenceVars ==
    <<installed, asked, selected, ready, reading, available, supplied, evidence>>

Ended == {"done", "cycle", "unavailable", "invalid", "repeated", "failed"}

EvidenceTypeOK ==
    /\ installed \in Installation
    /\ selected \in [Provider -> SUBSET Family]
    /\ ready \subseteq {p \in Provider : selected[p] # {}}
    /\ asked \subseteq Family /\ reading \subseteq Family
    /\ available \subseteq Family /\ supplied \subseteq available
    /\ evidence \in {"idle", "collecting"} \cup Ended

NothingSelected == [p \in Provider |-> {}]

EvidenceInit ==
    /\ installed \in Installation
    /\ asked = {} /\ selected = NothingSelected
    /\ ready = {} /\ reading = {}
    /\ available = {} /\ supplied = {}
    /\ evidence = "idle"

(***************************************************************************)
(* What a run needs of the providers, before any of them is read.          *)
(***************************************************************************)

Provided == UNION {installed.owns[p] : p \in Provider}

(* selection(): the families asked for and every provided family they      *)
(* transitively need, which is the least set closed under both.            *)
Resolved(families) ==
    LET Closed(s) ==
            /\ families \cap Provided \subseteq s
            /\ \A f \in s : installed.needs[f] \cap Provided \subseteq s
    IN {f \in Provided : \A s \in SUBSET Provided : Closed(s) => f \in s}

Selection(families) ==
    [p \in Provider |-> Resolved(families) \cap installed.owns[p]]

(* requirements()                                                          *)
Requirements(families) == UNION {installed.needs[f] : f \in Resolved(families)}

Required(requested) == UNION {installed.needs[f] : f \in requested}

(***************************************************************************)
(* The collection.                                                         *)
(***************************************************************************)

(* tables() is called with the tables of `dependencies` in hand.           *)
Collect(families, dependencies) ==
    /\ evidence = "idle"
    /\ asked' = families
    /\ selected' = Selection(families)
    /\ available' = dependencies
    /\ evidence' = "collecting"
    /\ UNCHANGED <<installed, ready, reading, supplied>>

BetweenPasses == evidence = "collecting" /\ ready = {} /\ reading = {}

(* A pass that reads every selected provider, ready or not.                *)
BugPassReadsEveryone ==
    /\ BetweenPasses /\ selected # NothingSelected
    /\ ready' = {p \in Provider : selected[p] # {}}
    /\ UNCHANGED <<installed, asked, selected, reading, available, supplied, evidence>>

(* A report of missing inputs that forgets the tables in hand.             *)
BugPassBlamesTheInputs ==
    LET inputs  == {p \in Provider : selected[p] # {}}
        able    == {p \in inputs : Required(selected[p]) \subseteq available}
        pending == UNION {selected[p] : p \in Provider}
    IN /\ BetweenPasses /\ inputs # {}
       /\ ready' = able
       /\ evidence' = IF able # {} THEN "collecting"
                      ELSE IF Required(pending) \ pending # {} THEN "unavailable"
                      ELSE "cycle"
       /\ UNCHANGED <<installed, asked, selected, reading, available, supplied>>

(* A pass that waits for someone to become ready.                          *)
BugPassWaits ==
    /\ BetweenPasses /\ selected # NothingSelected
    /\ ready' = {p \in Provider :
                    selected[p] # {} /\ Required(selected[p]) \subseteq available}
    /\ UNCHANGED <<installed, asked, selected, reading, available, supplied, evidence>>

(* The loop's head: everyone whose inputs are there is ready; if there is  *)
(* no one, the run stops and says why.                                     *)
StartPass ==
    LET inputs  == {p \in Provider : selected[p] # {}}
        able    == {p \in inputs : Required(selected[p]) \subseteq available}
        pending == UNION {selected[p] : p \in Provider}
        missing == Required(pending) \ (available \cup pending)
    IN /\ BetweenPasses /\ inputs # {}
       /\ ready' = able
       /\ evidence' = IF able # {} THEN "collecting"
                      ELSE IF missing # {} THEN "unavailable" ELSE "cycle"
       /\ UNCHANGED <<installed, asked, selected, reading, available, supplied>>

(* selected.pop(name), then the await of _read_provider.                   *)
Read(p) ==
    /\ evidence = "collecting" /\ reading = {}
    /\ p \in ready
    /\ ready' = ready \ {p}
    /\ reading' = selected[p]
    /\ selected' = [selected EXCEPT ![p] = {}]
    /\ UNCHANGED <<installed, asked, available, supplied, evidence>>

(* The provider answers: _validate_supply wants exactly what was asked of  *)
(* it, and RepositoryTables.add wants every family only once.              *)
Supply(answer) ==
    /\ reading # {}
    /\ IF answer = reading /\ answer \cap available = {}
       THEN /\ available' = available \cup answer
            /\ supplied' = supplied \cup answer
            /\ UNCHANGED evidence
       ELSE /\ evidence' = IF answer # reading THEN "invalid" ELSE "repeated"
            /\ UNCHANGED <<available, supplied>>
    /\ reading' = {}
    /\ UNCHANGED <<installed, asked, selected, ready>>

(* The provider raises instead.                                            *)
ProviderRaises ==
    /\ reading # {}
    /\ reading' = {}
    /\ evidence' = "failed"
    /\ UNCHANGED <<installed, asked, selected, ready, available, supplied>>

(* One pass is taken for the whole collection.                             *)
BugFinishAfterOnePass ==
    /\ BetweenPasses
    /\ evidence' = "done"
    /\ UNCHANGED <<installed, asked, selected, ready, reading, available, supplied>>

Finish ==
    /\ BetweenPasses /\ selected = NothingSelected
    /\ evidence' = "done"
    /\ UNCHANGED <<installed, asked, selected, ready, reading, available, supplied>>

EvidenceStep ==
    \/ StartPass
    \/ \E p \in Provider : Read(p)
    \/ \E answer \in SUBSET Family : Supply(answer)
    \/ ProviderRaises
    \/ Finish

EvidenceNext ==
    \/ \E request \in Request : Collect(request.families, request.tables)
    \/ EvidenceStep

(* The event loop runs tables() on, and a provider's await comes back.     *)
EvidenceSpec ==
    EvidenceInit /\ [][EvidenceNext]_evidenceVars /\ WF_evidenceVars(EvidenceStep)

(***************************************************************************)
(* Properties.                                                             *)
(***************************************************************************)

(* The providers that were asked to do external work.                      *)
Worked == {p \in Provider : Selection(asked)[p] # {} /\ selected[p] = {}}

(* p cannot be read before q: a family asked of p needs one asked of q,    *)
(* which the caller did not bring.                                         *)
WaitsFor(p, q) ==
    LET brought == available \ supplied
    IN (Required(Selection(asked)[p]) \ brought) \cap Selection(asked)[q] # {}

(* Providers of which everyone waits for one of them: a ring, and whoever  *)
(* waits for the ring.                                                     *)
Stuck(set) == set # {} /\ \A p \in set : \E q \in set : WaitsFor(p, q)

(* "A provider cycle fails before either provider performs external work"  *)
(* (tests/execution/runs/test_plugins.py:333), with whatever other         *)
(* providers the run has read in the meantime.                             *)
NoWorkOnACycle == \A set \in SUBSET Provider : Stuck(set) => set \cap Worked = {}

(* The error tells the truth ("Distinguish unavailable provider inputs     *)
(* from a provider dependency cycle"): a reported cycle is there; and a    *)
(* family reported unavailable is one that nobody owns and the caller did  *)
(* not bring.                                                              *)
ErrorNamesTheCause ==
    /\ evidence = "cycle" => \E set \in SUBSET Provider : Stuck(set)
    /\ evidence = "unavailable" => Requirements(asked) \ (available \cup Provided) # {}

(* A run that ends well has exactly the families it asked for and their    *)
(* provided inputs: none left out because its provider's turn passed       *)
(* before it was ready, none from a provider nobody needed.                *)
SuppliesWhatWasNeeded ==
    evidence = "done" =>
        /\ supplied = Resolved(asked)
        /\ Requirements(asked) \subseteq available

(* The passes come to an end, whatever the declarations: each reads a      *)
(* provider or stops the run.                                              *)
CollectionEnds == evidence = "collecting" ~> evidence \in Ended
================================================================================
