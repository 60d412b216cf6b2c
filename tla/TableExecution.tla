------------------------------ MODULE TableExecution ----------------------------
(***************************************************************************)
(* One judgment (query/orchestration/execution.py): the engine's batches   *)
(* run one after the other over tables that a native session gives away    *)
(* once and external providers supply.  The rules' failures are folded     *)
(* into a bounded report (checking/session/accumulator.py).                *)
(***************************************************************************)
EXTENDS RuleEngine, ExternalEvidence

CONSTANTS
    ExternalFamily,             \* the families with external_evidence = True
    Buildable,                  \* the families the kernel knows how to build
    ModuleFact,                 \* the family the languages are read from
    General,                    \* the rules of scope RuleScope.GENERAL
    Language,
    Observations,               \* the languages a repository's tables may hold
    Wants,                      \* Wants[r][f]: the languages r accepts in f
    Limits, NoLimit,            \* the failure limits a run may have
    MaxFailures                 \* the most failures one batch reports

ASSUME ExecutionAssumption ==
    /\ ExternalFamily \subseteq Family
    /\ Buildable \subseteq Family /\ ModuleFact \in Buildable
    /\ General \subseteq Rule
    /\ Wants \in [Rule -> [Family -> SUBSET Language]]
    /\ Observations \subseteq [Family -> SUBSET Language]
    /\ Limits \subseteq Nat \cup {NoLimit} /\ NoLimit \notin Nat
    /\ MaxFailures \in Nat

VARIABLES
    observed,   \* observed[f]: the languages the rows of f are written in
    limit,      \* accumulator.failure_limit
    phase,      \* where run() is
    problem,    \* why it raised
    held,       \* the tables the native session still holds
    markers,    \* the markers the kernel left to be read
    seen,       \* `ordered`: the families whose marker was read
    native,     \* the tables materialized before any rule reads
    current,    \* how many batches are behind
    tables,     \* the tables of the current batch
    read,       \* coverage.read_families
    reached,    \* coverage.runnable, and the rules of the run graph
    datasets,   \* the families of the run graph
    runs,       \* runs[r]: how often r was judged
    turns,      \* how often the classification backend was asked
    failures,   \* the failures the rules reported
    retained    \* accumulator.state.retained_failure_count

sessionVars == <<held, markers, seen, native>>
reportVars  == <<read, reached, datasets, runs, turns, failures, retained>>
runVars     == <<phase, problem, current, tables>>
inputVars   == <<observed, limit>>
vars == <<engineVars, evidenceVars, sessionVars, reportVars, runVars, inputVars>>

Phases == {"compile", "markers", "eager", "external", "batches", "tables",
           "rules", "done", "failed"}
Problems == {"none", "requirements", "session", "marker", "released", "evidence",
             "repeated", "rule"}

TypeOK ==
    /\ EvidenceTypeOK
    /\ observed \in [Family -> SUBSET Language] /\ limit \in Limits
    /\ phase \in Phases /\ problem \in Problems /\ (phase = "failed" <=> problem # "none")
    /\ held \subseteq Family /\ seen \subseteq Family
    /\ native \subseteq seen /\ tables \subseteq read \cup seen
    /\ current \in 0..Len(queue)
    /\ read \subseteq Family /\ datasets \subseteq read /\ reached \subseteq Rule
    /\ runs \in [Rule -> Nat] /\ turns \in Nat
    /\ failures \in Nat /\ retained \in 0..failures

Init ==
    /\ EngineInit
    /\ EvidenceInit
    /\ observed \in Observations /\ limit \in Limits
    /\ phase = "compile" /\ problem = "none"
    /\ held = {} /\ markers = {} /\ seen = {} /\ native = {}
    /\ current = 0 /\ tables = {}
    /\ read = {} /\ reached = {} /\ datasets = {}
    /\ runs = [r \in Rule |-> 0] /\ turns = 0
    /\ failures = 0 /\ retained = 0

Raise(why) == phase' = "failed" /\ problem' = why

(***************************************************************************)
(* What the run reads, from the rules and the installed providers.         *)
(***************************************************************************)

Typed == BatchFamilies(ToSet(prepared))             \* Judgment.table_families

(* _families: what the kernel builds and what providers build for it.      *)
TypedExternal == Typed \cap ExternalFamily
ProviderInputs == Requirements(TypedExternal)

Unavailable == ProviderInputs \ (Buildable \cup Provided)

(* _language_probe: one rule that is not general is enough.                *)
LanguageProbe == IF ToSet(prepared) \subseteq General THEN {} ELSE {ModuleFact}

Eager == (ProviderInputs \cap Buildable) \cup LanguageProbe
NativeFamilies == (Typed \ ExternalFamily) \cup Eager

(***************************************************************************)
(* The native session.                                                     *)
(***************************************************************************)

CompileRule ==
    /\ phase = "compile"
    /\ PlaceRule
    /\ UNCHANGED <<evidenceVars, sessionVars, reportVars, runVars, inputVars>>

(* run() starts with every rule placed; the kernel analyses the repository *)
(* and leaves one table and one marker for every native family, or         *)
(* (record_marker and the pipeline before it failing) one marker too many  *)
(* or too few.                                                             *)
Open ==
    /\ phase = "compile" /\ placed = Len(prepared)
    /\ Unavailable = {}
    /\ phase' = "markers"
    /\ held' = NativeFamilies
    /\ \E extra \in {{}} \cup {{f} : f \in Family} :
           markers' \in {NativeFamilies \cup extra, NativeFamilies \ extra}
    /\ UNCHANGED <<engineVars, evidenceVars, seen, native, reportVars, inputVars>>
    /\ UNCHANGED <<problem, current, tables>>

(* A provider's input that nothing builds, or a kernel that fails.         *)
OpenFails ==
    /\ phase = "compile" /\ placed = Len(prepared)
    /\ Raise(IF Unavailable # {} THEN "requirements" ELSE "session")
    /\ UNCHANGED <<engineVars, evidenceVars, sessionVars, reportVars, inputVars>>
    /\ UNCHANGED <<current, tables>>

(* _ordered_families: one marker, in the kernel's order.  record_marker    *)
(* keeps the first one of a family, so the check for a repeated marker     *)
(* never fails, and `markers` is a set.                                    *)
NextMarker(name) ==
    /\ phase = "markers" /\ name \in markers
    /\ markers' = markers \ {name}
    /\ IF name \in NativeFamilies
       THEN seen' = seen \cup {name} /\ UNCHANGED <<phase, problem>>
       ELSE Raise("marker") /\ UNCHANGED seen
    /\ UNCHANGED <<engineVars, evidenceVars, held, native, reportVars, inputVars>>
    /\ UNCHANGED <<current, tables>>

MarkersEnd ==
    /\ phase = "markers" /\ markers = {}
    /\ IF NativeFamilies = seen
       THEN phase' = "eager" /\ UNCHANGED problem
       ELSE Raise("marker")
    /\ UNCHANGED <<engineVars, evidenceVars, sessionVars, reportVars, inputVars>>
    /\ UNCHANGED <<current, tables>>

(* AnalysisSession.release: a table is moved out of the session, and       *)
(* asking for it again is an error.                                        *)
Release(family) ==
    IF family \in held
    THEN held' = held \ {family} /\ UNCHANGED <<phase, problem>>
    ELSE Raise("released") /\ UNCHANGED held

(* _native_tables: the inputs of providers, and the language probe.        *)
TakeEager(family) ==
    /\ phase = "eager" /\ family \in (seen \cap Eager) \ native
    /\ Release(family)
    /\ native' = native \cup {family}
    /\ UNCHANGED <<engineVars, evidenceVars, markers, seen, reportVars, inputVars>>
    /\ UNCHANGED <<current, tables>>

(* _external_tables: nobody is read when no rule asks for external facts.  *)
CollectExternal ==
    /\ phase = "eager" /\ seen \cap Eager \subseteq native
    /\ phase' = IF TypedExternal = {} THEN "batches" ELSE "external"
    /\ IF TypedExternal = {}
       THEN UNCHANGED evidenceVars
       ELSE Collect(TypedExternal, native)
    /\ UNCHANGED <<engineVars, sessionVars, reportVars, inputVars>>
    /\ UNCHANGED <<problem, current, tables>>

ReadProviders ==
    /\ phase = "external" /\ evidence = "collecting"
    /\ EvidenceStep
    /\ UNCHANGED <<engineVars, sessionVars, reportVars, runVars, inputVars>>

ProvidersEnd ==
    /\ phase = "external" /\ evidence \in Ended
    /\ IF evidence = "done"
       THEN phase' = "batches" /\ UNCHANGED problem
       ELSE Raise("evidence")
    /\ UNCHANGED <<engineVars, evidenceVars, sessionVars, reportVars, inputVars>>
    /\ UNCHANGED <<current, tables>>

(***************************************************************************)
(* The batches.                                                            *)
(***************************************************************************)

(* A batch that runs only as a whole.                                      *)
BugRunnableTogether(batch) ==
    IF BatchFamilies(ToSet(batch)) \subseteq NativeFamilies \cup supplied
    THEN ToSet(batch) ELSE {}

Runnable(batch) == {r \in ToSet(batch) : Reads[r] \subseteq NativeFamilies \cup supplied}

Wanted(batch) == BatchFamilies(Runnable(batch))

(* PreparedRule.applies_to, in the tables of the batch.                    *)
Applicable(batch) ==
    {r \in Runnable(batch) : \A f \in Reads[r] :
        Wants[r][f] = {} \/ Wants[r][f] \cap observed[f] # {}}

Batch == queue[current + 1]

(* A run that keeps coming back to a batch with no runnable rule.          *)
BugStartBatchAgain ==
    /\ phase = "batches" /\ current < Len(queue)
    /\ Runnable(Batch) # {}
    /\ phase' = "tables"
    /\ UNCHANGED <<engineVars, evidenceVars, sessionVars, reportVars, inputVars>>
    /\ UNCHANGED <<problem, current, tables>>

(* A batch none of whose rules has all its tables is passed over.          *)
StartBatch ==
    /\ phase = "batches" /\ current < Len(queue)
    /\ IF Runnable(Batch) = {}
       THEN current' = current + 1 /\ UNCHANGED phase
       ELSE phase' = "tables" /\ UNCHANGED current
    /\ UNCHANGED <<engineVars, evidenceVars, sessionVars, reportVars, inputVars>>
    /\ UNCHANGED <<problem, tables>>

(* Every table asked of the session, materialized before or not.           *)
BugTakeTableAgain(family) ==
    /\ phase = "tables" /\ family \in (seen \cap Wanted(Batch)) \ tables
    /\ tables' = tables \cup {family}
    /\ Release(family)
    /\ UNCHANGED <<engineVars, evidenceVars, markers, seen, native, reportVars>>
    /\ UNCHANGED <<inputVars, current>>

(* _tables_for, a native family: reused if it was materialized before,     *)
(* otherwise moved out of the session.                                     *)
TakeTable(family) ==
    /\ phase = "tables" /\ family \in (seen \cap Wanted(Batch)) \ tables
    /\ tables' = tables \cup {family}
    /\ IF family \in native
       THEN UNCHANGED <<held, phase, problem>>
       ELSE Release(family)
    /\ UNCHANGED <<engineVars, evidenceVars, markers, seen, native, reportVars>>
    /\ UNCHANGED <<inputVars, current>>

(* _tables_for, the external families, and the coverage of the batch.      *)
TablesReady ==
    LET external == Wanted(Batch) \cap supplied
    IN /\ phase = "tables" /\ seen \cap Wanted(Batch) \subseteq tables
       /\ IF external \cap tables # {}
          THEN /\ Raise("repeated")
               /\ UNCHANGED <<tables, read, current>>
          ELSE /\ read' = read \cup Wanted(Batch)
               /\ IF Applicable(Batch) = {}
                  THEN phase' = "batches" /\ current' = current + 1 /\ tables' = {}
                  ELSE /\ phase' = "rules"
                       /\ tables' = tables \cup external
                       /\ UNCHANGED current
               /\ UNCHANGED problem
       /\ UNCHANGED <<engineVars, evidenceVars, sessionVars, inputVars>>
       /\ UNCHANGED <<reached, datasets, runs, turns, failures, retained>>

(* A limit each batch has to itself.                                       *)
BugKeptPerBatch(found) == IF limit = NoLimit \/ found <= limit THEN found ELSE limit

(* JudgmentAccumulator.remaining_failure_limit and the islice of add_table.*)
Kept(found) ==
    IF limit = NoLimit \/ found <= limit - retained THEN found ELSE limit - retained

(* _run_rules: the model rules of the batch are answered in one turn, then *)
(* every applicable rule is judged in one query graph.                     *)
RunRules ==
    /\ phase = "rules"
    /\ runs' = [r \in Rule |-> IF r \in Applicable(Batch) THEN runs[r] + 1 ELSE runs[r]]
    /\ turns' = IF Contextual(Applicable(Batch)) THEN turns + 1 ELSE turns
    /\ \E found \in 0..MaxFailures :
           /\ failures' = failures + found
           /\ retained' = retained + Kept(found)
    /\ reached' = reached \cup Applicable(Batch)
    /\ datasets' = datasets \cup tables
    /\ current' = current + 1
    /\ tables' = {}
    /\ phase' = "batches"
    /\ UNCHANGED <<engineVars, evidenceVars, sessionVars, inputVars, read, problem>>

(* A backend, a query or a rule raises.                                    *)
RulesRaise ==
    /\ phase = "rules"
    /\ Raise("rule")
    /\ UNCHANGED <<engineVars, evidenceVars, sessionVars, reportVars, inputVars>>
    /\ UNCHANGED <<current, tables>>

Complete ==
    /\ phase = "batches" /\ current = Len(queue)
    /\ phase' = "done"
    /\ UNCHANGED <<engineVars, evidenceVars, sessionVars, reportVars, inputVars>>
    /\ UNCHANGED <<problem, current, tables>>

Next ==
    \/ CompileRule \/ Open \/ OpenFails
    \/ \E name \in markers : NextMarker(name)
    \/ MarkersEnd
    \/ \E family \in Family : TakeEager(family)
    \/ CollectExternal \/ ReadProviders \/ ProvidersEnd
    \/ StartBatch
    \/ \E family \in Family : TakeTable(family)
    \/ TablesReady \/ RunRules \/ RulesRaise
    \/ Complete

(* run() is one coroutine: the event loop resumes it whenever it can go on,*)
(* and what it awaits (the kernel, providers, a backend) comes back.       *)
Spec == Init /\ [][Next]_vars /\ WF_vars(Next)

(* A provider owns "the external fact families" it is written for          *)
(* (contracts/provider.py:11), or what the kernel builds as well.  The     *)
(* loader refuses two owners of a family, not an owner of any other one.   *)
ProvidersOwnNoOther ==
    \A i \in Installation, p \in Provider : i.owns[p] \subseteq ExternalFamily \cup Buildable

(***************************************************************************)
(* Properties.                                                             *)
(***************************************************************************)

(* The session gives each table away once, and a run asks it only for      *)
(* tables nobody took before (it never dies of "were already released"),   *)
(* although providers, the language probe and the batches want the same    *)
(* families ("Native tables are extracted once and reused",                *)
(* concepts/fact-tables.md:35); and once the providers are read, no batch  *)
(* finds a table both in the session and among theirs.  While they are     *)
(* read a provider can still supply a table that is in hand, and the run   *)
(* ends in "repository tables repeated" (evidence.py:157): that is the     *)
(* problem "evidence", which the property does not exclude.                *)
NoTableAskedTwice == problem \notin {"released", "repeated"}

(* Every prepared rule is judged exactly once if all its tables came and   *)
(* hold a language it accepts, and not at all otherwise: the split into    *)
(* batches, and what the other rules of a batch lack, does not change      *)
(* whether a rule is judged.                                               *)
EveryRuleJudgedOnce ==
    LET Judged(r) ==
            /\ r \in ToSet(prepared)
            /\ \A f \in Reads[r] :
                  /\ f \in seen \cup supplied
                  /\ Wants[r][f] = {} \/ Wants[r][f] \cap observed[f] # {}
    IN /\ phase = "done" =>
              \A r \in Rule : runs[r] = (IF Judged(r) THEN 1 ELSE 0)
       /\ \A r \in Rule : runs[r] <= 1
       /\ \A r \in reached : runs[r] = 1

(* The repository's contextual rules share one turn of the backend, in     *)
(* whatever batches their tables would have put them ("give model rules    *)
(* one backend opportunity", runner.py:155).                               *)
OneModelTurn == turns <= 1

(* A bounded report keeps as many failures as it may, over all batches:    *)
(* never more than the limit, and never fewer while the rules reported     *)
(* more.                                                                   *)
ReportIsFull ==
    retained = IF limit # NoLimit /\ limit < failures THEN limit ELSE failures

(* The run ends, with or without an error.                                 *)
RunEnds == <>(phase \in {"done", "failed"})
================================================================================
