------------------------------ MODULE Publication ------------------------------
(***************************************************************************)
(* One repository publishes its runs to a DataHub catalog, one after the   *)
(* other (services/provider.py:87-138): the verdicts, the verdicts of the  *)
(* files that went quiet, and the incidents.                               *)
(*                                                                         *)
(* Every verdict about a symbol lands on one fact table.  The catalog is   *)
(* external: a write lands at once, a read goes through an index that may  *)
(* miss what this run wrote, and any request may be refused.  The index    *)
(* has caught up when the next run begins.  A read of the table's          *)
(* assertions or incidents asks for the first _WINDOW of them and for no   *)
(* further page; which ones come first is the catalog's choice.  Upserts   *)
(* that repeat what it holds (code graph, contract, link, scores) are left *)
(* out.                                                                    *)
(***************************************************************************)
EXTENDS Sequences, FiniteSets, Integers

CONSTANTS
    Rule,
    Symbol,      \* what a rule can report in a file: one assertion each
    RuleOf,      \* the rule that reports the symbol
    FileOf,      \* the file it is reported in
    Selection,   \* the sets of rules that runs execute
    Delays,      \* Len(_SETTLING)
    AssertionWindow,  \* _WINDOW of recording.py
    IncidentWindow,   \* _WINDOW of incidents.py
    Copies       \* bound on the open incidents of one title

ASSUME PublicationAssumption ==
    /\ RuleOf \in [Symbol -> Rule]
    /\ Selection \subseteq SUBSET Rule
    /\ Rule \cap Symbol = {}
    /\ {Delays, AssertionWindow, IncidentWindow, Copies} \subseteq Nat

VARIABLES
    step,        \* the phase of the publication at hand, or "idle"
    executed,    \* the rules its records name
    failing,     \* the symbols it reports
    todo,        \* the writes the phase has left
    attempts,    \* refusals of the result at hand so far
    complete,    \* the last publication wrote its run instance
    resolved,    \* the titles whose incident the publication at hand resolved
    declared,    \* catalog: assertions that exist
    timeline,    \* catalog: the verdicts of each assertion, repeats collapsed, of
                 \* a whole table the last one only
    late,        \* catalog: symbols whose last change no read shows yet
    incidents,   \* catalog: the open incidents
    shown,       \* the assertions whose timelines the publication read
    held,        \* the open incidents it knows by their title
    missed       \* the others that were open when it read them

judged == <<executed, failing>>
catalog == <<declared, timeline, incidents>>
reads == <<shown, held, missed>>
vars == <<step, judged, todo, attempts, complete, resolved, late, reads, catalog>>

Assertion == Rule \cup Symbol
Kept == 4    \* changes of a timeline the model remembers
Verdict == {"SUCCESS", "FAILURE"}

Latest(events) == IF events = <<>> THEN "NONE" ELSE events[Len(events)]

(* FlapDetector._states: a repeat changes nothing.                         *)
Appended(events, event) ==
    IF Latest(events) = event THEN events
    ELSE IF Len(events) < Kept THEN Append(events, event)
    ELSE Append(Tail(events), event)

(* FlapDetector._alternates.                                               *)
Alternates(events) ==
    \E i \in 3..Len(events) :
        /\ events[i - 2] = "FAILURE" /\ events[i - 1] = "SUCCESS"
        /\ events[i] = "FAILURE"

(* What a read shows of a symbol's assertion.                              *)
Visible(s) == IF s \in late THEN SubSeq(timeline[s], 1, Len(timeline[s]) - 1) ELSE timeline[s]

--------------------------------------------------------------------------------
(* RunPublication.records: one for each executed rule about the table, and *)
(* one for each symbol reported.                                           *)
Records == executed \cup failing

VerdictOf(a) ==
    IF a \in failing \/ \E s \in failing : RuleOf[s] = a THEN "FAILURE" ELSE "SUCCESS"

(* SubjectHistory.title.                                                   *)
Title(s) == <<RuleOf[s], FileOf[s]>>
Titles(some) == {incident.title : incident \in some}
Incident == [title : {Title(s) : s \in Symbol}, number : 1..Copies]

Reported == {Title(s) : s \in failing}

(* Bug forms: a rule that did not run settles its files, and a rule that   *)
(* fails anywhere settles none.                                            *)
BugSettledUnreported(s) == Title(s) \notin Reported
BugSettledByRule(s) == RuleOf[s] \in executed /\ VerdictOf(RuleOf[s]) = "SUCCESS"

(* ReportedFiles.settled.                                                  *)
Settled(s) ==
    /\ RuleOf[s] \in executed
    /\ Title(s) \notin Reported

(* Bug form: the timeline alone decides.                                   *)
BugFailing(s) == Latest(Visible(s)) = "FAILURE"

(* SubjectHistory.failing.                                                 *)
Failing(s) == Latest(Visible(s)) = "FAILURE" /\ ~Settled(s)

--------------------------------------------------------------------------------
Init ==
    /\ step = "idle"
    /\ executed = {} /\ failing = {}
    /\ todo = {} /\ attempts = 0
    /\ complete = FALSE /\ resolved = {}
    /\ shown = {} /\ held = {} /\ missed = {}
    /\ declared = {} /\ incidents = {}
    /\ timeline = [a \in Assertion |-> <<>>]
    /\ late = {}

Begin ==
    /\ step = "idle"
    /\ step' = "declare"
    /\ executed' \in Selection
    /\ failing' \in SUBSET {s \in Symbol : RuleOf[s] \in executed'}
    /\ complete' = FALSE
    /\ resolved' = {} /\ missed' = {}
    /\ UNCHANGED <<todo, attempts, late, shown, held, catalog>>

(* Nothing of the process outlives it; what it wrote gets indexed.         *)
Gone ==
    /\ step' = "idle"
    /\ todo' = {} /\ attempts' = 0 /\ late' = {}
    /\ shown' = {} /\ held' = {}
    /\ UNCHANGED missed

(* Any request can raise, and the publication ends where it is.            *)
Fail ==
    /\ step # "idle"
    /\ Gone
    /\ UNCHANGED <<judged, complete, resolved, catalog>>

(* The upserts of every assertion, up to the one that raises.              *)
Declare ==
    /\ step = "declare"
    /\ \E reached \in SUBSET Records :
          /\ declared' = declared \cup reached
          /\ IF reached = Records
             THEN /\ step' = "report"
                  /\ todo' = Records
                  /\ UNCHANGED <<attempts, late, reads>>
             ELSE Gone
    /\ UNCHANGED <<judged, complete, resolved, timeline, incidents>>

(* One result lands on its assertion.                                      *)
Lands(a, event) ==
    /\ a \in todo
    /\ a \in declared
    /\ todo' = todo \ {a}
    /\ attempts' = 0
    /\ timeline' = [timeline EXCEPT ![a] =
                       IF a \in Rule THEN <<event>> ELSE Appended(@, event)]
    /\ late' = IF a \in Rule \/ Latest(timeline[a]) = event THEN late ELSE late \cup {a}
    /\ UNCHANGED <<step, judged, complete, resolved, reads, declared, incidents>>

Report == step = "report" /\ \E a \in todo : Lands(a, VerdictOf(a))

Resolve == step = "resolve" /\ \E s \in todo : Lands(s, "SUCCESS")

(* Bug form: a result that is refused too often is given up.               *)
BugRefused ==
    /\ step \in {"report", "resolve"}
    /\ todo # {}
    /\ IF attempts < Delays
       THEN attempts' = attempts + 1 /\ UNCHANGED todo
       ELSE attempts' = 0 /\ \E a \in todo : todo' = todo \ {a}
    /\ UNCHANGED <<step, judged, complete, resolved, late, reads, catalog>>

(* report_result: a refused result is sent again after each delay, and the *)
(* refusal after the last one is raised.                                   *)
Refused ==
    /\ step \in {"report", "resolve"}
    /\ todo # {}
    /\ IF attempts < Delays
       THEN attempts' = attempts + 1 /\ UNCHANGED <<step, todo, late, reads>>
       ELSE Gone
    /\ UNCHANGED <<judged, complete, resolved, catalog>>

(* What a query with a start of 0 and a count returns.                     *)
Pages(all, count) ==
    IF Cardinality(all) <= count THEN {all}
    ELSE {page \in SUBSET all : Cardinality(page) = count}

(* DataHubRecording.reconcile: the files that read as failing and settled, *)
(* among the assertions of one page.                                       *)
Reconcile ==
    /\ step = "report" /\ todo = {}
    /\ step' = "resolve"
    /\ late' \in SUBSET late
    /\ UNCHANGED <<judged, attempts, complete, resolved, reads, catalog>>
    /\ \E page \in Pages(declared, AssertionWindow) :
          todo' = {s \in Symbol \cap page : Latest(Visible(s)') = "FAILURE" /\ Settled(s)}

(* DataHubRecording.read: the timelines of a page, which everything below  *)
(* uses.                                                                   *)
ReadTimelines ==
    /\ step = "resolve" /\ todo = {}
    /\ step' = "read"
    /\ late' \in SUBSET late
    /\ shown' \in Pages(declared, AssertionWindow)
    /\ UNCHANGED <<judged, todo, attempts, complete, resolved, held, missed, catalog>>

(* Bug form: the open incidents are not looked at.                         *)
BugWanted(s) == s \in shown /\ Alternates(Visible(s)) /\ Failing(s)

(* DataHubIncidents._raise.                                                *)
Wanted(s) ==
    /\ s \in shown
    /\ Alternates(Visible(s)) /\ Failing(s)
    /\ Title(s) \notin Titles(held')

(* DataHubIncidents._open: a page of the open incidents, of each title the *)
(* first one.  Of the alternating timelines, some may have changed too     *)
(* long ago for the events of _WINDOW.                                     *)
ReadIncidents ==
    /\ step = "read"
    /\ step' = "raise"
    /\ \E page \in Pages(incidents, IncidentWindow) :
          /\ held' \in SUBSET page
          /\ Titles(held') = Titles(page)
    /\ \A i, j \in held' : i.title = j.title => i = j
    /\ missed' = incidents \ held'
    /\ todo' \in SUBSET {s \in Symbol : Wanted(s)}
    /\ UNCHANGED <<judged, attempts, complete, resolved, late, shown, catalog>>

Raise ==
    /\ step = "raise"
    /\ \E s \in todo, n \in 1..Copies :
          /\ [title |-> Title(s), number |-> n] \notin incidents
          /\ \A m \in 1..n - 1 : [title |-> Title(s), number |-> m] \in incidents
          /\ incidents' = incidents \cup {[title |-> Title(s), number |-> n]}
          /\ todo' = todo \ {s}
    /\ UNCHANGED <<step, judged, attempts, complete, resolved, late, reads,
                   declared, timeline>>

(* DataHubIncidents._close: the histories that are not failing.            *)
ReadSettled ==
    /\ step = "raise" /\ todo = {}
    /\ step' = "close"
    /\ todo' = {s \in Symbol \cap shown : /\ Visible(s) # <<>>
                                         /\ ~Failing(s)
                                         /\ Title(s) \in Titles(held)}
    /\ UNCHANGED <<judged, attempts, complete, resolved, late, reads, catalog>>

Close ==
    /\ step = "close"
    /\ \E s \in todo :
          /\ todo' = todo \ {s}
          /\ resolved' = resolved \cup {Title(s)}
          /\ incidents' = incidents \ {i \in held : i.title = Title(s)}
    /\ UNCHANGED <<step, judged, attempts, complete, late, reads,
                   declared, timeline>>

(* DataHubRunInstance.publish.                                             *)
Finish ==
    /\ step = "close" /\ todo = {}
    /\ Gone
    /\ complete' = TRUE
    /\ UNCHANGED <<judged, resolved, catalog>>

Next ==
    \/ Begin \/ Fail \/ Declare \/ Report \/ Refused \/ Reconcile \/ Resolve
    \/ ReadTimelines \/ ReadIncidents \/ Raise \/ ReadSettled \/ Close \/ Finish

Spec == Init /\ [][Next]_vars

--------------------------------------------------------------------------------
TypeOK ==
    /\ step \in {"idle", "declare", "report", "resolve", "read", "raise", "close"}
    /\ executed \subseteq Rule /\ failing \subseteq Symbol
    /\ todo \subseteq Assertion
    /\ attempts \in 0..Delays
    /\ complete \in BOOLEAN
    /\ declared \subseteq Assertion /\ shown \subseteq Assertion
    /\ incidents \cup held \cup missed \subseteq Incident
    /\ late \subseteq {s \in Symbol : timeline[s] # <<>>}
    /\ timeline \in [Assertion -> Seq(Verdict)]

(* DataHubRecording.reconcile and ReportedFiles.settled, "silence is not a *)
(* resolution": a verdict about a file turns to passing only while a run   *)
(* publishes that executed the rule and reports nothing in the file.       *)
SilenceClosesNothing ==
    [][\A s \in Symbol :
          (Latest(timeline[s]) = "FAILURE" /\ Latest(timeline'[s]) = "SUCCESS")
              => RuleOf[s] \in executed /\ Title(s) \notin Reported]_vars

(* After a complete publication no verdict reads as failing for a file     *)
(* that the run's own rules no longer report, whichever earlier            *)
(* publications were cut short after writing it; of a table with no more   *)
(* assertions than one read returns.  Of a larger one, an assertion beyond *)
(* the page reads as failing for as long as it stays there.                *)
QuietFilesClose ==
    complete /\ Cardinality(declared) <= AssertionWindow =>
        \A s \in Symbol :
            RuleOf[s] \in executed /\ Title(s) \notin Reported
                => Latest(timeline[s]) # "FAILURE"

(* The run instance is written last: once it is there, every verdict of    *)
(* the run is the latest one of its timeline.                              *)
VerdictsComplete ==
    complete => \A a \in Records : Latest(timeline[a]) = VerdictOf(a)

(* Only one symbol is ever reported under the title.                       *)
Lone(title) == \A s, t \in Symbol : Title(s) = title /\ Title(t) = title => s = t

(* DataHubIncidents, "keeps a second run from raising a duplicate beside   *)
(* the one it already opened", as far as its window "bounds the            *)
(* idempotency check": while no more incidents are open than one read      *)
(* returns, none is raised beside an open one of its title, if the rule    *)
(* can report one symbol in the file.  (Two symbols of a file may each     *)
(* raise one in the same run, and both are then open under one title.)     *)
RaisedOnce ==
    [][\A i \in incidents' \ incidents :
          Lone(i.title) /\ Cardinality(incidents) <= IncidentWindow
              => i.title \notin Titles(incidents)]_vars

(* A run that executed the rule, found the file quiet and published to the *)
(* end leaves no incident on the file open that it knew, or that was       *)
(* raised since it read them, even if an earlier publication failed        *)
(* between the verdict and the incident; of a table with no more           *)
(* assertions than one read returns.  What it missed does outlive it: an   *)
(* incident beyond the page, and every other one under a title it knew.    *)
SettledIncidentsEnd ==
    complete /\ Cardinality(declared) <= AssertionWindow =>
        \A i \in incidents \ missed : i.title[1] \in executed => i.title \in Reported

(* An incident is raised only on a file whose recorded verdict went        *)
(* failing, passing, failing and which is recorded as failing now, however *)
(* far the index is behind.                                                *)
RaisedWhileFailing ==
    [][\A i \in incidents' \ incidents :
          /\ \E s \in Symbol : Title(s) = i.title /\ Alternates(timeline[s])
          /\ \E s \in Symbol : Title(s) = i.title /\ Latest(timeline[s]) = "FAILURE"]_vars

(* SubjectHistory.resolution ("Run ... recorded ... passing at ..."): a    *)
(* run resolves no incident on a file it reports itself.                   *)
ResolvedWhenPassing == resolved \cap Reported = {}
================================================================================
