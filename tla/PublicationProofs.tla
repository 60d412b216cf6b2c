---------------------------- MODULE PublicationProofs ----------------------------
(***************************************************************************)
(* What a publication promises, for every set of rules, symbols and        *)
(* selections, however far the index is behind and wherever earlier        *)
(* publications failed.                                                    *)
(***************************************************************************)
EXTENDS Publication, SequenceTheorems, FiniteSetTheorems, TLAPS

(* The catalog holds this run's verdict on these assertions.               *)
Landed(some) == \A a \in some : Latest(timeline[a]) = VerdictOf(a)

(* No settled symbol outside some reads as failing.                        *)
QuietBut(some) ==
    \A s \in Symbol \ some : Settled(s) => Latest(timeline[s]) # "FAILURE"

(* The file's intermittence is on record.                                  *)
Long(s) == Len(timeline[s]) >= 3

(* One read returns every assertion.                                       *)
Within == Cardinality(declared) <= AssertionWindow

(* Not open when the publication read the incidents, or read by title.     *)
Known == incidents \ missed

IdleInv ==
    /\ complete => step = "idle"
    /\ step \in {"idle", "declare"} => late = {}
    /\ \A s \in failing : RuleOf[s] \in executed

ReportInv == step = "report" =>
    /\ todo \subseteq Records
    /\ Landed(Records \ todo)
    /\ late \subseteq failing

ResolveInv ==
    /\ step \in {"resolve", "read", "raise", "close"} \/ complete => Landed(Records)
    /\ step = "resolve" =>
          /\ todo \subseteq {s \in Symbol : Settled(s)}
          /\ Within => QuietBut(todo)
    /\ (step \in {"read", "raise", "close"} \/ complete) /\ Within => QuietBut({})
    /\ step \in {"read", "raise"} /\ Within => shown = declared

(* A read that is behind shows a settled symbol as failing, never another. *)
LateInv == \A s \in late : s \in failing \/ Settled(s)

RaiseInv == step = "raise" =>
    /\ \A s \in todo :
          /\ s \in Symbol /\ Alternates(timeline[s])
          /\ Latest(timeline[s]) = "FAILURE" /\ ~Settled(s)
    /\ Cardinality(incidents) <= IncidentWindow =>
          \A i \in incidents, s \in todo : i.title = Title(s) => ~Lone(i.title)
    /\ \A i \in Known, s \in Symbol : i.title = Title(s) /\ Settled(s) => i \in held

CloseInv ==
    /\ step = "close" =>
          \A i \in Known, s \in Symbol :
              i.title = Title(s) /\ Settled(s) =>
                  /\ i \in held
                  /\ Within => \E t \in todo : i.title = Title(t)
    /\ complete /\ Within =>
          \A i \in Known, s \in Symbol : i.title = Title(s) => ~Settled(s)

(* What is written was declared, and the file of an incident has a         *)
(* timeline long enough to show through any lag.                           *)
CatalogInv ==
    /\ \A a \in Assertion : timeline[a] # <<>> => a \in declared
    /\ IsFiniteSet(incidents)
    /\ \A i \in incidents : \E s \in Symbol : i.title = Title(s) /\ Long(s)

PublicationInv ==
    /\ TypeOK /\ IdleInv /\ ReportInv /\ ResolveInv /\ LateInv
    /\ RaiseInv /\ CloseInv /\ CatalogInv

(***************************************************************************)
(* Timelines.                                                              *)
(***************************************************************************)

LEMMA AppendedFacts ==
    ASSUME NEW events \in Seq(Verdict), NEW event \in Verdict
    PROVE  /\ Appended(events, event) \in Seq(Verdict)
           /\ Appended(events, event) # <<>>
           /\ Latest(Appended(events, event)) = event
           /\ Len(Appended(events, event)) >= Len(events)
  <1>1. CASE Latest(events) = event
    <2>1. events # <<>>
      BY <1>1 DEF Latest, Verdict
    <2> QED BY <1>1, <2>1 DEF Appended
  <1>2. CASE Latest(events) # event /\ Len(events) < Kept
    BY <1>2 DEF Appended, Latest
  <1>3. CASE Latest(events) # event /\ ~(Len(events) < Kept)
    <2>1. events # <<>> /\ Len(events) \in Nat
      BY <1>3 DEF Kept
    <2>2. Tail(events) \in Seq(Verdict) /\ Len(Tail(events)) = Len(events) - 1
      BY <2>1
    <2>3. Appended(events, event) = Append(Tail(events), event)
      BY <1>3 DEF Appended
    <2> QED BY <2>1, <2>2, <2>3 DEF Latest
  <1> QED BY <1>1, <1>2, <1>3

LEMMA SingleFacts ==
    ASSUME NEW event \in Verdict
    PROVE  /\ <<event>> \in Seq(Verdict)
           /\ Latest(<<event>>) = event
  BY DEF Latest

LEMMA AlternatesIsLong ==
    ASSUME NEW events \in Seq(Verdict), Alternates(events)
    PROVE  Len(events) >= 3
  BY DEF Alternates

LEMMA WithoutLast ==
    ASSUME NEW events \in Seq(Verdict), events # <<>>
    PROVE  /\ Len(SubSeq(events, 1, Len(events) - 1)) = Len(events) - 1
           /\ \A j \in 1..Len(events) - 1 : SubSeq(events, 1, Len(events) - 1)[j] = events[j]
  <1> DEFINE last == Len(events) - 1
  <1>1. last \in Nat /\ \A j \in 1..last : events[j] \in Verdict
    OBVIOUS
  <1> HIDE DEF last
  <1>2. /\ Len(SubSeq(events, 1, last)) = last
        /\ \A j \in 1..last : SubSeq(events, 1, last)[j] = events[j]
    BY <1>1, SubSeqProperties
  <1> QED BY <1>2, Zenon DEF last

(* A timeline without its last change alternates no more than the whole.   *)
LEMMA AlternatesGrows ==
    ASSUME NEW events \in Seq(Verdict), events # <<>>,
           Alternates(SubSeq(events, 1, Len(events) - 1))
    PROVE  Alternates(events)
  <1> DEFINE shorter == SubSeq(events, 1, Len(events) - 1)
  <1>1. Len(events) \in Nat /\ Len(events) >= 1
    OBVIOUS
  <1>2. /\ Len(shorter) = Len(events) - 1
        /\ \A j \in 1..Len(events) - 1 : shorter[j] = events[j]
    BY WithoutLast
  <1> HIDE DEF shorter
  <1>3. PICK i \in 3..Len(shorter) :
            /\ shorter[i - 2] = "FAILURE" /\ shorter[i - 1] = "SUCCESS"
            /\ shorter[i] = "FAILURE"
    BY DEF Alternates, shorter
  <1>4. i \in 3..Len(events) /\ shorter[i - 2] = events[i - 2]
        /\ shorter[i - 1] = events[i - 1] /\ shorter[i] = events[i]
    BY <1>1, <1>2
  <1> QED BY <1>3, <1>4 DEF Alternates

(***************************************************************************)
(* What a record says.                                                     *)
(***************************************************************************)

LEMMA VerdictIsOne == \A a : VerdictOf(a) \in Verdict
  BY DEF VerdictOf, Verdict

LEMMA ReportedFails ==
    ASSUME NEW s \in failing
    PROVE  VerdictOf(s) = "FAILURE" /\ ~Settled(s)
  BY DEF VerdictOf, Settled, Reported

(* One result on one assertion.                                            *)
LEMMA LandsFacts ==
    ASSUME TypeOK, NEW a, NEW event \in Verdict, Lands(a, event)
    PROVE  /\ timeline' \in [Assertion -> Seq(Verdict)]
           /\ Latest(timeline'[a]) = event
           /\ \A b \in Assertion \ {a} : timeline'[b] = timeline[b]
           /\ \A s \in Symbol : Len(timeline'[s]) >= Len(timeline[s])
           /\ late' \subseteq (late \cup ({a} \cap Symbol))
           /\ \A s \in late' : s \in Symbol /\ timeline'[s] # <<>>
           /\ a \in declared
  <1> DEFINE new == IF a \in Rule THEN <<event>> ELSE Appended(timeline[a], event)
  <1>1. a \in Assertion /\ timeline[a] \in Seq(Verdict)
    BY DEF Lands, TypeOK
  <1>2. timeline' = [timeline EXCEPT ![a] = new]
    BY DEF Lands
  <1>3. new \in Seq(Verdict) /\ Latest(new) = event
    BY <1>1, AppendedFacts, SingleFacts
  <1>4. a \in Symbol => new # <<>> /\ Len(new) >= Len(timeline[a])
    BY <1>1, AppendedFacts, PublicationAssumption
  <1> HIDE DEF new
  <1>5. /\ timeline' \in [Assertion -> Seq(Verdict)]
        /\ timeline'[a] = new
        /\ \A b \in Assertion \ {a} : timeline'[b] = timeline[b]
    BY <1>1, <1>2, <1>3 DEF TypeOK
  <1>6. \A s \in Symbol : Len(timeline'[s]) >= Len(timeline[s])
    <2> TAKE s \in Symbol
    <2>1. timeline[s] \in Seq(Verdict) /\ s \in Assertion
      BY DEF TypeOK, Assertion
    <2> QED BY <1>4, <1>5, <2>1
  <1>7. late' \subseteq (late \cup ({a} \cap Symbol))
    BY <1>1 DEF Lands, Assertion
  <1>8. \A s \in late' : s \in Symbol /\ timeline'[s] # <<>>
    BY <1>4, <1>5, <1>7 DEF TypeOK, Assertion
  <1>9. a \in declared
    BY DEF Lands
  <1> QED BY <1>3, <1>5, <1>6, <1>7, <1>8, <1>9

(* What a read may miss.                                                   *)
LEMMA VisibleFacts ==
    ASSUME TypeOK, NEW s \in Symbol
    PROVE  /\ s \notin late => Visible(s) = timeline[s]
           /\ Alternates(Visible(s)) => Alternates(timeline[s])
           /\ Long(s) => Visible(s) # <<>>
  <1>1. timeline[s] \in Seq(Verdict)
    BY DEF TypeOK, Assertion
  <1>2. CASE s \notin late
    BY <1>1, <1>2 DEF Visible, Long
  <1>3. CASE s \in late
    <2>1. timeline[s] # <<>> /\ Visible(s) = SubSeq(timeline[s], 1, Len(timeline[s]) - 1)
      BY <1>3 DEF Visible, TypeOK
    <2>2. Alternates(Visible(s)) => Alternates(timeline[s])
      BY <1>1, <2>1, AlternatesGrows
    <2>3. ASSUME Long(s) PROVE Visible(s) # <<>>
      <3>1. Len(Visible(s)) = Len(timeline[s]) - 1
        BY <1>1, <2>1, WithoutLast
      <3>2. Len(timeline[s]) \in Nat /\ Len(timeline[s]) >= 3
        BY <1>1, <2>3 DEF Long
      <3> DEFINE long == Len(timeline[s])
      <3> HIDE DEF long
      <3>3. long \in Nat /\ long >= 3 => long - 1 # 0
        OBVIOUS
      <3>4. Len(Visible(s)) # 0
        BY <3>1, <3>2, <3>3, Zenon DEF long
      <3> QED BY <3>4
    <2> QED BY <1>3, <2>2, <2>3
  <1> QED BY <1>2, <1>3

(* Whether a file is quiet is a matter of its title.                       *)
LEMMA SettledByTitle ==
    ASSUME NEW s \in Symbol, NEW t \in Symbol, Title(s) = Title(t)
    PROVE  Settled(s) <=> Settled(t)
  BY DEF Title, Settled

(* One read of no more than a page is whole.                               *)
LEMMA WholePage ==
    ASSUME NEW all, NEW count, NEW page \in Pages(all, count), Cardinality(all) <= count
    PROVE  page = all
  BY DEF Pages

LEMMA PartPage ==
    ASSUME NEW all, NEW count, NEW page \in Pages(all, count)
    PROVE  page \subseteq all
  BY DEF Pages

(* Records do not change while they are published.                         *)
LEMMA JudgedFrame ==
    ASSUME UNCHANGED judged
    PROVE  /\ Records' = Records /\ Reported' = Reported
           /\ \A a : VerdictOf(a)' = VerdictOf(a)
           /\ \A s : Settled(s)' <=> Settled(s)
  BY DEF judged, Records, Reported, VerdictOf, Settled

(***************************************************************************)
(* Each step preserves the invariant.                                      *)
(***************************************************************************)

LEMMA InitInv == Init => PublicationInv
  <1> SUFFICES ASSUME Init PROVE PublicationInv
    OBVIOUS
  <1>1. timeline \in [Assertion -> Seq(Verdict)]
    BY <<>> \in Seq(Verdict) DEF Init
  <1>2. TypeOK
    <2>1. attempts \in 0..Delays
      BY PublicationAssumption DEF Init
    <2>2. complete \in BOOLEAN
      BY Zenon DEF Init
    <2>3. /\ step = "idle" /\ executed = {} /\ failing = {} /\ todo = {} /\ declared = {}
          /\ late = {} /\ incidents = {} /\ shown = {} /\ held = {} /\ missed = {}
      BY DEF Init
    <2> QED BY <1>1, <2>1, <2>2, <2>3 DEF TypeOK
  <1> QED BY <1>2, FS_EmptySet
         DEF Init, PublicationInv, IdleInv, ReportInv, ResolveInv, LateInv, RaiseInv, CloseInv,
             CatalogInv

(* A publication that ends early promises nothing more.                    *)
LEMMA GoneInv ==
    ASSUME PublicationInv, Gone, step # "idle",
           declared \subseteq declared', declared' \subseteq Assertion,
           UNCHANGED <<judged, complete, timeline, incidents>>
    PROVE  PublicationInv'
  <1>1. ~complete /\ ~complete' /\ step' = "idle" /\ late' = {}
    BY DEF PublicationInv, IdleInv, Gone
  <1>2. TypeOK'
    BY PublicationAssumption DEF PublicationInv, TypeOK, Gone, judged
  <1>3. IdleInv' /\ ReportInv' /\ ResolveInv' /\ LateInv' /\ RaiseInv' /\ CloseInv'
    BY <1>1
       DEF PublicationInv, IdleInv, ReportInv, ResolveInv, LateInv, RaiseInv, CloseInv, judged
  <1>4. CatalogInv'
    BY DEF PublicationInv, CatalogInv, Long
  <1> QED BY <1>2, <1>3, <1>4 DEF PublicationInv

LEMMA BeginInv == PublicationInv /\ Begin => PublicationInv'
  <1> SUFFICES ASSUME PublicationInv, Begin PROVE PublicationInv'
    OBVIOUS
  <1>1. step' = "declare" /\ ~complete' /\ late' = {}
    BY DEF Begin, PublicationInv, IdleInv
  <1>2. TypeOK'
    BY PublicationAssumption DEF Begin, PublicationInv, TypeOK, catalog
  <1>3. IdleInv' /\ ReportInv' /\ ResolveInv' /\ LateInv' /\ RaiseInv' /\ CloseInv'
    BY <1>1 DEF Begin, IdleInv, ReportInv, ResolveInv, LateInv, RaiseInv, CloseInv
  <1>4. CatalogInv'
    BY DEF Begin, catalog, PublicationInv, CatalogInv, Long
  <1> QED BY <1>2, <1>3, <1>4 DEF PublicationInv

LEMMA DeclareInv == PublicationInv /\ Declare => PublicationInv'
  <1> SUFFICES ASSUME PublicationInv, Declare PROVE PublicationInv'
    OBVIOUS
  <1>1. PICK reached \in SUBSET Records :
          /\ declared' = declared \cup reached
          /\ IF reached = Records
             THEN /\ step' = "report"
                  /\ todo' = Records
                  /\ UNCHANGED <<attempts, late, shown, held, missed>>
             ELSE Gone
    BY DEF Declare, reads
  <1>2. /\ step = "declare" /\ UNCHANGED <<judged, complete, resolved, timeline, incidents>>
        /\ late = {} /\ ~complete
    BY DEF Declare, PublicationInv, IdleInv
  <1>3. Records \subseteq Assertion
    BY DEF PublicationInv, TypeOK, Records, Assertion
  <1>4. declared' \subseteq Assertion
    BY <1>1, <1>3 DEF PublicationInv, TypeOK
  <1>5. CASE reached = Records
    <2>1. step' = "report" /\ todo' = Records /\ late' = {} /\ ~complete'
          /\ UNCHANGED <<attempts, shown, held, missed>> /\ declared \subseteq declared'
      BY <1>1, <1>2, <1>5
    <2>2. TypeOK'
      BY <1>2, <1>3, <1>4, <2>1 DEF PublicationInv, TypeOK, judged
    <2>3. ReportInv'
      BY <1>2, <2>1, JudgedFrame DEF ReportInv, Landed
    <2>4. IdleInv' /\ ResolveInv' /\ LateInv' /\ RaiseInv' /\ CloseInv'
      BY <1>2, <2>1
         DEF PublicationInv, IdleInv, ResolveInv, LateInv, RaiseInv, CloseInv, judged
    <2>5. CatalogInv'
      BY <1>2, <2>1 DEF PublicationInv, CatalogInv, Long
    <2> QED BY <2>2, <2>3, <2>4, <2>5 DEF PublicationInv
  <1>6. CASE reached # Records
    BY <1>1, <1>2, <1>4, <1>6, GoneInv
  <1> QED BY <1>5, <1>6

LEMMA ReportInvStep == PublicationInv /\ Report => PublicationInv'
  <1> SUFFICES ASSUME PublicationInv, Report PROVE PublicationInv'
    OBVIOUS
  <1>1. PICK a \in todo : Lands(a, VerdictOf(a))
    BY DEF Report
  <1>2. /\ step = "report" /\ todo' = todo \ {a} /\ ~complete /\ TypeOK
        /\ UNCHANGED <<step, judged, complete, resolved, shown, held, missed, declared, incidents>>
        /\ attempts' = 0
    BY <1>1 DEF Report, Lands, reads, PublicationInv, IdleInv
  <1>3. /\ timeline' \in [Assertion -> Seq(Verdict)]
        /\ Latest(timeline'[a]) = VerdictOf(a)
        /\ \A b \in Assertion \ {a} : timeline'[b] = timeline[b]
        /\ \A s \in Symbol : Len(timeline'[s]) >= Len(timeline[s])
        /\ late' \subseteq (late \cup ({a} \cap Symbol))
        /\ \A s \in late' : s \in Symbol /\ timeline'[s] # <<>>
        /\ a \in declared
    BY <1>1, <1>2, VerdictIsOne, LandsFacts
  <1>4. a \in Records /\ Records \subseteq Assertion
    BY <1>1, <1>2 DEF PublicationInv, ReportInv, TypeOK, Records, Assertion
  <1>5. late' \subseteq failing
    BY <1>2, <1>3, <1>4, PublicationAssumption DEF PublicationInv, ReportInv, TypeOK, Records
  <1>6. TypeOK'
    BY <1>2, <1>3, PublicationAssumption DEF TypeOK, judged
  <1>7. ReportInv'
    <2>1. Landed(Records \ todo)'
      BY <1>2, <1>3, <1>4, JudgedFrame DEF PublicationInv, ReportInv, Landed
    <2> QED BY <1>2, <1>5, <2>1, JudgedFrame DEF PublicationInv, ReportInv, judged
  <1>8. IdleInv' /\ ResolveInv' /\ LateInv' /\ RaiseInv' /\ CloseInv'
    BY <1>2, <1>5
       DEF PublicationInv, IdleInv, ResolveInv, LateInv, RaiseInv, CloseInv, judged
  <1>9. CatalogInv'
    <2>1. \A s \in Symbol : Long(s) => Long(s)'
      BY <1>2, <1>3, <1>6 DEF Long, TypeOK, Assertion
    <2> QED BY <1>2, <1>3, <2>1 DEF PublicationInv, CatalogInv
  <1> QED BY <1>6, <1>7, <1>8, <1>9 DEF PublicationInv

LEMMA ResolveInvStep == PublicationInv /\ Resolve => PublicationInv'
  <1> SUFFICES ASSUME PublicationInv, Resolve PROVE PublicationInv'
    OBVIOUS
  <1>1. PICK a \in todo : Lands(a, "SUCCESS")
    BY DEF Resolve
  <1>2. /\ step = "resolve" /\ todo' = todo \ {a} /\ ~complete /\ TypeOK
        /\ UNCHANGED <<step, judged, complete, resolved, shown, held, missed, declared, incidents>>
        /\ attempts' = 0
    BY <1>1 DEF Resolve, Lands, reads, PublicationInv, IdleInv
  <1>3. /\ timeline' \in [Assertion -> Seq(Verdict)]
        /\ Latest(timeline'[a]) = "SUCCESS"
        /\ \A b \in Assertion \ {a} : timeline'[b] = timeline[b]
        /\ \A s \in Symbol : Len(timeline'[s]) >= Len(timeline[s])
        /\ late' \subseteq (late \cup ({a} \cap Symbol))
        /\ \A s \in late' : s \in Symbol /\ timeline'[s] # <<>>
        /\ a \in declared
    BY <1>1, <1>2, LandsFacts DEF Verdict
  <1>4. /\ a \in Symbol /\ Settled(a)
        /\ todo \subseteq {s \in Symbol : Settled(s)}
        /\ Landed(Records) /\ (Within => QuietBut(todo))
    BY <1>1, <1>2 DEF PublicationInv, ResolveInv
  <1>5. a \notin Records /\ Records \subseteq Assertion
    BY <1>2, <1>4, ReportedFails, PublicationAssumption DEF Records, TypeOK, Assertion
  <1>6. TypeOK'
    BY <1>2, <1>3, PublicationAssumption DEF TypeOK, judged
  <1>7. ResolveInv'
    <2>1. Landed(Records)'
      BY <1>2, <1>3, <1>4, <1>5, JudgedFrame DEF Landed
    <2>2. Within' => QuietBut(todo)'
      BY <1>2, <1>3, <1>4, JudgedFrame DEF QuietBut, Within, Assertion
    <2> QED BY <1>2, <1>4, <2>1, <2>2, JudgedFrame DEF ResolveInv
  <1>8. LateInv'
    BY <1>2, <1>3, <1>4, JudgedFrame DEF PublicationInv, LateInv, judged
  <1>9. IdleInv' /\ ReportInv' /\ RaiseInv' /\ CloseInv'
    BY <1>2 DEF PublicationInv, IdleInv, ReportInv, RaiseInv, CloseInv, judged
  <1>10. CatalogInv'
    <2>1. \A s \in Symbol : Long(s) => Long(s)'
      BY <1>2, <1>3, <1>6 DEF Long, TypeOK, Assertion
    <2> QED BY <1>2, <1>3, <2>1 DEF PublicationInv, CatalogInv
  <1> QED BY <1>6, <1>7, <1>8, <1>9, <1>10 DEF PublicationInv

LEMMA RefusedInv == PublicationInv /\ Refused => PublicationInv'
  <1> SUFFICES ASSUME PublicationInv, Refused PROVE PublicationInv'
    OBVIOUS
  <1>1. CASE attempts < Delays
    <2>1. /\ attempts' = attempts + 1 /\ UNCHANGED <<step, todo, late, shown, held, missed>>
          /\ UNCHANGED <<judged, complete, resolved, declared, timeline, incidents>>
      BY <1>1 DEF Refused, reads, catalog
    <2>2. TypeOK'
      BY <1>1, <2>1, PublicationAssumption DEF PublicationInv, TypeOK, judged
    <2>3. IdleInv' /\ ReportInv' /\ ResolveInv'
      BY <2>1, JudgedFrame
         DEF PublicationInv, IdleInv, ReportInv, ResolveInv, Landed, QuietBut, Within, judged
    <2>4. LateInv' /\ RaiseInv' /\ CloseInv'
      BY <2>1, JudgedFrame
         DEF PublicationInv, LateInv, RaiseInv, CloseInv, Known, Within, judged
    <2>5. CatalogInv'
      BY <2>1 DEF PublicationInv, CatalogInv, Long
    <2> QED BY <2>2, <2>3, <2>4, <2>5 DEF PublicationInv
  <1>2. CASE ~(attempts < Delays)
    <2>1. /\ Gone /\ step # "idle"
          /\ UNCHANGED <<judged, complete, resolved, declared, timeline, incidents>>
      BY <1>2 DEF Refused, reads, catalog
    <2> QED BY <2>1, GoneInv DEF PublicationInv, TypeOK
  <1> QED BY <1>1, <1>2

LEMMA ReconcileInv == PublicationInv /\ Reconcile => PublicationInv'
  <1> SUFFICES ASSUME PublicationInv, Reconcile PROVE PublicationInv'
    OBVIOUS
  <1>1. /\ step = "report" /\ todo = {} /\ step' = "resolve" /\ ~complete /\ ~complete'
        /\ UNCHANGED <<judged, attempts, complete, resolved, shown, held, missed, declared,
                       timeline, incidents>>
        /\ late' \subseteq late
    BY DEF Reconcile, reads, catalog, PublicationInv, IdleInv
  <1>2. PICK page \in Pages(declared, AssertionWindow) :
            todo' = {s \in Symbol \cap page : Latest(Visible(s)') = "FAILURE" /\ Settled(s)}
    BY DEF Reconcile
  <1>3. Landed(Records) /\ late' \subseteq failing
    BY <1>1 DEF PublicationInv, ReportInv
  <1>4. TypeOK'
    BY <1>1, <1>2 DEF PublicationInv, TypeOK, judged, Assertion
  <1>5. ASSUME Within PROVE QuietBut(todo)'
    <2> SUFFICES ASSUME NEW s \in Symbol \ todo', Settled(s)
                 PROVE  Latest(timeline'[s]) # "FAILURE"
      BY <1>1, JudgedFrame DEF QuietBut
    <2>1. s \notin late'
      BY <1>3, ReportedFails
    <2>2. Visible(s)' = timeline'[s]
      BY <2>1 DEF Visible
    <2>3. page = declared
      BY <1>5, WholePage DEF Within
    <2>4. CASE s \in declared
      BY <1>2, <2>2, <2>3, <2>4
    <2>5. CASE s \notin declared
      <3>1. timeline[s] = <<>>
        BY <2>5 DEF PublicationInv, CatalogInv, Assertion
      <3> QED BY <1>1, <3>1 DEF Latest
    <2> QED BY <2>4, <2>5
  <1>6. Landed(Records)'
    BY <1>1, <1>3, JudgedFrame DEF Landed
  <1>7. ResolveInv'
    <2>1. todo' \subseteq {s \in Symbol : Settled(s)'}
      BY <1>1, <1>2, JudgedFrame
    <2>2. Within' <=> Within
      BY <1>1 DEF Within
    <2> QED BY <1>1, <1>5, <1>6, <2>1, <2>2 DEF ResolveInv
  <1>8. IdleInv' /\ ReportInv' /\ LateInv' /\ RaiseInv' /\ CloseInv'
    BY <1>1, <1>3 DEF PublicationInv, IdleInv, ReportInv, LateInv, RaiseInv, CloseInv, judged
  <1>9. CatalogInv'
    BY <1>1 DEF PublicationInv, CatalogInv, Long
  <1> QED BY <1>4, <1>7, <1>8, <1>9 DEF PublicationInv

LEMMA ReadTimelinesInv == PublicationInv /\ ReadTimelines => PublicationInv'
  <1> SUFFICES ASSUME PublicationInv, ReadTimelines PROVE PublicationInv'
    OBVIOUS
  <1>1. /\ step = "resolve" /\ todo = {} /\ step' = "read" /\ ~complete /\ ~complete'
        /\ UNCHANGED <<judged, todo, attempts, complete, resolved, held, missed, declared,
                       timeline, incidents>>
        /\ late' \subseteq late /\ shown' \in Pages(declared, AssertionWindow)
    BY DEF ReadTimelines, catalog, PublicationInv, IdleInv
  <1>2. TypeOK'
    BY <1>1, PartPage DEF PublicationInv, TypeOK, judged
  <1>3. ResolveInv'
    <2>1. Within' <=> Within
      BY <1>1 DEF Within
    <2>2. Within => shown' = declared'
      BY <1>1, WholePage DEF Within
    <2>3. Within => QuietBut({})'
      BY <1>1, JudgedFrame DEF PublicationInv, ResolveInv, QuietBut
    <2>4. Landed(Records)'
      BY <1>1, JudgedFrame DEF PublicationInv, ResolveInv, Landed
    <2> QED BY <1>1, <2>1, <2>2, <2>3, <2>4 DEF ResolveInv
  <1>4. LateInv'
    BY <1>1, JudgedFrame DEF PublicationInv, LateInv, judged
  <1>5. IdleInv' /\ ReportInv' /\ RaiseInv' /\ CloseInv'
    BY <1>1 DEF PublicationInv, IdleInv, ReportInv, RaiseInv, CloseInv, judged
  <1>6. CatalogInv'
    BY <1>1 DEF PublicationInv, CatalogInv, Long
  <1> QED BY <1>2, <1>3, <1>4, <1>5, <1>6 DEF PublicationInv

(* A symbol the publication wants an incident for is failing in the        *)
(* catalog, whatever the index shows.                                      *)
LEMMA WantedFails ==
    ASSUME PublicationInv, step = "read", NEW s \in Symbol, Wanted(s)
    PROVE  /\ Alternates(timeline[s]) /\ Latest(timeline[s]) = "FAILURE"
           /\ ~Settled(s) /\ Title(s) \notin Titles(held')
  <1>1. /\ Alternates(Visible(s)) /\ Latest(Visible(s)) = "FAILURE" /\ ~Settled(s)
        /\ Title(s) \notin Titles(held')
    BY DEF Wanted, Failing
  <1>2. CASE s \in late
    <2>1. s \in failing /\ Landed(Records)
      BY <1>1, <1>2 DEF PublicationInv, LateInv, ResolveInv
    <2>2. Latest(timeline[s]) = "FAILURE"
      BY <2>1, ReportedFails DEF Landed, Records
    <2> QED BY <1>1, <2>2, VisibleFacts DEF PublicationInv
  <1>3. CASE s \notin late
    BY <1>1, <1>3, VisibleFacts DEF PublicationInv
  <1> QED BY <1>2, <1>3

LEMMA ReadIncidentsInv == PublicationInv /\ ReadIncidents => PublicationInv'
  <1> SUFFICES ASSUME PublicationInv, ReadIncidents PROVE PublicationInv'
    OBVIOUS
  <1>1. /\ step = "read" /\ step' = "raise" /\ ~complete /\ ~complete'
        /\ UNCHANGED <<judged, attempts, complete, resolved, late, shown, declared, timeline,
                       incidents>>
        /\ missed' = incidents \ held'
        /\ todo' \subseteq {s \in Symbol : Wanted(s)}
    BY DEF ReadIncidents, catalog, PublicationInv, IdleInv
  <1>2. PICK page \in Pages(incidents, IncidentWindow) :
            held' \subseteq page /\ Titles(held') = Titles(page)
    BY DEF ReadIncidents
  <1>3. held' \subseteq incidents
    BY <1>2, PartPage
  <1>4. TypeOK'
    BY <1>1, <1>3 DEF PublicationInv, TypeOK, judged, Assertion
  <1>5. RaiseInv'
    <2>1. \A s \in todo' :
             /\ s \in Symbol /\ Alternates(timeline[s]) /\ Latest(timeline[s]) = "FAILURE"
             /\ ~Settled(s) /\ Title(s) \notin Titles(held')
      BY <1>1, WantedFails
    <2>2. Cardinality(incidents) <= IncidentWindow =>
             \A i \in incidents, s \in todo' : i.title # Title(s)
      BY <1>2, <2>1, WholePage DEF Titles
    <2>3. Known' \subseteq held'
      BY <1>1 DEF Known
    <2> QED BY <1>1, <2>1, <2>2, <2>3, JudgedFrame DEF RaiseInv
  <1>6. ResolveInv' /\ LateInv'
    BY <1>1, JudgedFrame
       DEF PublicationInv, ResolveInv, LateInv, Landed, QuietBut, Within, judged
  <1>7. IdleInv' /\ ReportInv' /\ CloseInv'
    BY <1>1 DEF PublicationInv, IdleInv, ReportInv, CloseInv, judged
  <1>8. CatalogInv'
    BY <1>1 DEF PublicationInv, CatalogInv, Long
  <1> QED BY <1>4, <1>5, <1>6, <1>7, <1>8 DEF PublicationInv

(* What one incident adds.                                                 *)
LEMMA RaiseFacts ==
    ASSUME PublicationInv, Raise
    PROVE  \E s \in todo, new \in Incident :
               /\ new.title = Title(s) /\ new \notin incidents
               /\ incidents' = incidents \cup {new} /\ todo' = todo \ {s}
  <1>1. PICK s \in todo, n \in 1..Copies :
          /\ [title |-> Title(s), number |-> n] \notin incidents
          /\ incidents' = incidents \cup {[title |-> Title(s), number |-> n]}
          /\ todo' = todo \ {s}
    BY DEF Raise
  <1>2. s \in Symbol
    BY <1>1 DEF Raise, PublicationInv, RaiseInv
  <1>3. [title |-> Title(s), number |-> n] \in Incident
    BY <1>1, <1>2 DEF Incident
  <1> QED BY <1>1, <1>3

LEMMA RaiseInvStep == PublicationInv /\ Raise => PublicationInv'
  <1> SUFFICES ASSUME PublicationInv, Raise PROVE PublicationInv'
    OBVIOUS
  <1>1. PICK s \in todo, new \in Incident :
          /\ new.title = Title(s)
          /\ incidents' = incidents \cup {new} /\ todo' = todo \ {s}
    BY RaiseFacts
  <1>2. /\ step = "raise" /\ ~complete
        /\ UNCHANGED <<step, judged, attempts, complete, resolved, late, shown, held, missed,
                       declared, timeline>>
    BY DEF Raise, reads, PublicationInv, IdleInv
  <1>3. /\ s \in Symbol /\ Alternates(timeline[s])
        /\ Latest(timeline[s]) = "FAILURE" /\ ~Settled(s)
    BY <1>2 DEF PublicationInv, RaiseInv
  <1>4. TypeOK'
    BY <1>1, <1>2 DEF PublicationInv, TypeOK, judged
  <1>5. IsFiniteSet(incidents') /\ Cardinality(incidents) <= Cardinality(incidents')
    BY <1>1, FS_AddElement, FS_Subset DEF PublicationInv, CatalogInv
  <1>6. RaiseInv'
    <2>1. \A t \in todo' :
             /\ t \in Symbol /\ Alternates(timeline[t])
             /\ Latest(timeline[t]) = "FAILURE" /\ ~Settled(t)
      BY <1>1, <1>2 DEF PublicationInv, RaiseInv
    <2>2. ASSUME Cardinality(incidents') <= IncidentWindow,
                 NEW i \in incidents', NEW t \in todo', i.title = Title(t)
          PROVE  ~Lone(i.title)
      <3>1. CASE i \in incidents
        <4>1. Cardinality(incidents) \in Nat /\ Cardinality(incidents') \in Nat
          BY <1>5, FS_CardinalityType DEF PublicationInv, CatalogInv
        <4>2. Cardinality(incidents) <= IncidentWindow
          BY <1>5, <2>2, <4>1, PublicationAssumption
        <4> QED BY <1>1, <1>2, <2>2, <3>1, <4>2 DEF PublicationInv, RaiseInv
      <3>2. CASE i = new
        BY <1>1, <1>3, <2>1, <2>2, <3>2 DEF Lone
      <3> QED BY <1>1, <3>1, <3>2
    <2>3. ASSUME NEW i \in Known', NEW t \in Symbol, i.title = Title(t), Settled(t)
          PROVE  i \in held
      <3>1. i # new
        BY <1>1, <1>3, <2>3, SettledByTitle
      <3>2. i \in Known
        BY <1>1, <1>2, <3>1 DEF Known
      <3> QED BY <1>2, <2>3, <3>2 DEF PublicationInv, RaiseInv
    <2> QED BY <1>2, <2>1, <2>2, <2>3, JudgedFrame DEF RaiseInv
  <1>7. CatalogInv'
    <2>1. timeline[s] \in Seq(Verdict)
      BY <1>3 DEF PublicationInv, TypeOK, Assertion
    <2>2. Long(s)
      BY <1>3, <2>1, AlternatesIsLong DEF Long
    <2> QED BY <1>1, <1>2, <1>3, <1>5, <2>2 DEF PublicationInv, CatalogInv, Long
  <1>8. ResolveInv' /\ LateInv'
    BY <1>2, JudgedFrame
       DEF PublicationInv, ResolveInv, LateInv, Landed, QuietBut, Within, judged
  <1>9. IdleInv' /\ ReportInv' /\ CloseInv'
    BY <1>2 DEF PublicationInv, IdleInv, ReportInv, CloseInv, judged
  <1> QED BY <1>4, <1>6, <1>7, <1>8, <1>9 DEF PublicationInv

LEMMA ReadSettledInv == PublicationInv /\ ReadSettled => PublicationInv'
  <1> SUFFICES ASSUME PublicationInv, ReadSettled PROVE PublicationInv'
    OBVIOUS
  <1>1. /\ step = "raise" /\ step' = "close" /\ ~complete /\ ~complete'
        /\ UNCHANGED <<judged, attempts, complete, resolved, late, shown, held, missed,
                       declared, timeline,
                       incidents>>
    BY DEF ReadSettled, reads, catalog, PublicationInv, IdleInv
  <1>2. todo' = {s \in Symbol \cap shown : /\ Visible(s) # <<>>
                                            /\ ~Failing(s)
                                            /\ Title(s) \in Titles(held)}
    BY DEF ReadSettled
  <1>3. TypeOK'
    BY <1>1, <1>2 DEF PublicationInv, TypeOK, judged, Assertion
  <1>4. CloseInv'
    <2> SUFFICES ASSUME NEW i \in Known, NEW s \in Symbol, i.title = Title(s), Settled(s)
                 PROVE  /\ i \in held
                        /\ Within => \E t \in todo' : i.title = Title(t)
      BY <1>1, JudgedFrame DEF CloseInv, Known, Within
    <2>1. i \in held
      BY <1>1 DEF PublicationInv, RaiseInv
    <2>2. ASSUME Within PROVE \E t \in todo' : i.title = Title(t)
      <3>1. PICK t \in Symbol : i.title = Title(t) /\ Long(t)
        BY DEF PublicationInv, CatalogInv, Known
      <3>2. Visible(t) # <<>> /\ Settled(t)
        BY <3>1, VisibleFacts, SettledByTitle DEF PublicationInv
      <3>3. timeline[t] # <<>>
        BY <3>1 DEF Long
      <3>4. t \in shown
        BY <1>1, <2>2, <3>3 DEF PublicationInv, CatalogInv, ResolveInv, Assertion
      <3> QED BY <1>2, <2>1, <3>1, <3>2, <3>4 DEF Failing, Titles
    <2> QED BY <2>1, <2>2
  <1>5. ResolveInv' /\ LateInv'
    BY <1>1, JudgedFrame
       DEF PublicationInv, ResolveInv, LateInv, Landed, QuietBut, Within, judged
  <1>6. IdleInv' /\ ReportInv' /\ RaiseInv'
    BY <1>1 DEF PublicationInv, IdleInv, ReportInv, RaiseInv, judged
  <1>7. CatalogInv'
    BY <1>1 DEF PublicationInv, CatalogInv, Long
  <1> QED BY <1>3, <1>4, <1>5, <1>6, <1>7 DEF PublicationInv

LEMMA CloseInvStep == PublicationInv /\ Close => PublicationInv'
  <1> SUFFICES ASSUME PublicationInv, Close PROVE PublicationInv'
    OBVIOUS
  <1>1. PICK s \in todo :
          /\ todo' = todo \ {s}
          /\ incidents' = incidents \ {i \in held : i.title = Title(s)}
    BY DEF Close
  <1>2. /\ step = "close" /\ ~complete
        /\ UNCHANGED <<step, judged, attempts, complete, late, shown, held, missed,
                       declared, timeline>>
    BY DEF Close, reads, PublicationInv, IdleInv
  <1>3. TypeOK'
    BY <1>1, <1>2 DEF PublicationInv, TypeOK, judged
  <1>4. CloseInv'
    BY <1>1, <1>2, JudgedFrame DEF PublicationInv, CloseInv, Known, Within
  <1>5. ResolveInv' /\ LateInv'
    BY <1>2, JudgedFrame
       DEF PublicationInv, ResolveInv, LateInv, Landed, QuietBut, Within, judged
  <1>6. IdleInv' /\ ReportInv' /\ RaiseInv'
    BY <1>2 DEF PublicationInv, IdleInv, ReportInv, RaiseInv, judged
  <1>7. CatalogInv'
    BY <1>1, <1>2, FS_Subset DEF PublicationInv, CatalogInv, Long
  <1> QED BY <1>3, <1>4, <1>5, <1>6, <1>7 DEF PublicationInv

LEMMA FinishInv == PublicationInv /\ Finish => PublicationInv'
  <1> SUFFICES ASSUME PublicationInv, Finish PROVE PublicationInv'
    OBVIOUS
  <1>1. /\ step = "close" /\ todo = {} /\ step' = "idle" /\ complete' = TRUE
        /\ todo' = {} /\ attempts' = 0 /\ shown' = {} /\ held' = {} /\ late' = {}
        /\ UNCHANGED <<judged, resolved, missed, declared, timeline, incidents>>
    BY DEF Finish, Gone, catalog
  <1>2. TypeOK'
    BY <1>1, PublicationAssumption DEF PublicationInv, TypeOK, judged
  <1>3. ResolveInv'
    BY <1>1, JudgedFrame DEF PublicationInv, ResolveInv, Landed, QuietBut, Within
  <1>4. CloseInv'
    BY <1>1, JudgedFrame DEF PublicationInv, CloseInv, Known, Within
  <1>5. IdleInv' /\ ReportInv' /\ LateInv' /\ RaiseInv'
    BY <1>1 DEF PublicationInv, IdleInv, ReportInv, LateInv, RaiseInv, judged
  <1>6. CatalogInv'
    BY <1>1 DEF PublicationInv, CatalogInv, Long
  <1> QED BY <1>2, <1>3, <1>4, <1>5, <1>6 DEF PublicationInv

LEMMA StepInv == PublicationInv /\ [Next]_vars => PublicationInv'
  <1> SUFFICES ASSUME PublicationInv, [Next]_vars PROVE PublicationInv'
    OBVIOUS
  <1>1. CASE Begin
    BY <1>1, BeginInv
  <1>2. CASE Fail
    <2>1. /\ Gone /\ step # "idle"
          /\ UNCHANGED <<judged, complete, resolved, declared, timeline, incidents>>
      BY <1>2 DEF Fail, catalog
    <2> QED BY <2>1, GoneInv DEF PublicationInv, TypeOK
  <1>3. CASE Declare
    BY <1>3, DeclareInv
  <1>4. CASE Report
    BY <1>4, ReportInvStep
  <1>5. CASE Refused
    BY <1>5, RefusedInv
  <1>6. CASE Reconcile
    BY <1>6, ReconcileInv
  <1>7. CASE Resolve
    BY <1>7, ResolveInvStep
  <1>8. CASE ReadTimelines
    BY <1>8, ReadTimelinesInv
  <1>9. CASE ReadIncidents
    BY <1>9, ReadIncidentsInv
  <1>10. CASE Raise
    BY <1>10, RaiseInvStep
  <1>11. CASE ReadSettled
    BY <1>11, ReadSettledInv
  <1>12. CASE Close
    BY <1>12, CloseInvStep
  <1>13. CASE Finish
    BY <1>13, FinishInv
  <1>14. CASE UNCHANGED vars
    <2>1. UNCHANGED <<step, judged, todo, attempts, complete, late, shown, held, missed,
                       declared, timeline,
                      incidents>>
      BY <1>14 DEF vars, reads, catalog
    <2>2. TypeOK' /\ IdleInv' /\ ReportInv' /\ ResolveInv'
      BY <2>1, JudgedFrame
         DEF PublicationInv, TypeOK, IdleInv, ReportInv, ResolveInv, Landed, QuietBut, Within,
             judged
    <2>3. LateInv' /\ RaiseInv' /\ CloseInv'
      BY <2>1, JudgedFrame
         DEF PublicationInv, LateInv, RaiseInv, CloseInv, Known, Within, judged
    <2>4. CatalogInv'
      BY <2>1 DEF PublicationInv, CatalogInv, Long
    <2> QED BY <2>2, <2>3, <2>4 DEF PublicationInv
  <1> QED BY <1>1, <1>2, <1>3, <1>4, <1>5, <1>6, <1>7, <1>8, <1>9, <1>10, <1>11, <1>12, <1>13,
             <1>14 DEF Next

LEMMA OnlyRaiseAdds == [Next]_vars /\ ~Raise => incidents' \subseteq incidents
  BY DEF Next, vars, catalog, Begin, Fail, Declare, Report, Lands, Refused, Reconcile, Resolve,
     ReadTimelines, ReadIncidents, ReadSettled, Close, Finish

(* The inductive invariant of a repository's publications.                 *)
THEOREM Invariance == Spec => []PublicationInv
  BY InitInv, StepInv, PTL DEF Spec

(* A publication only writes what the catalog can hold.                    *)
THEOREM TypeCorrect == Spec => []TypeOK
  <1>1. PublicationInv => TypeOK
    BY DEF PublicationInv
  <1> QED BY <1>1, Invariance, PTL

(* A publication that wrote its run instance left every verdict of its run *)
(* as the latest one.                                                      *)
THEOREM VerdictsAreComplete == Spec => []VerdictsComplete
  <1>1. PublicationInv => VerdictsComplete
    BY DEF PublicationInv, ResolveInv, Landed, VerdictsComplete
  <1> QED BY <1>1, Invariance, PTL

(* A complete publication leaves no failing verdict about a quiet file of  *)
(* a table whose assertions one read returns.                              *)
THEOREM QuietFilesAreClosed == Spec => []QuietFilesClose
  <1>1. PublicationInv => QuietFilesClose
    BY DEF PublicationInv, ResolveInv, QuietBut, Within, Settled, QuietFilesClose
  <1> QED BY <1>1, Invariance, PTL

(* While one read returns every open incident, none is raised beside an    *)
(* open one of its title, of a file where one symbol is reported.          *)
THEOREM IncidentsAreSingle == Spec => RaisedOnce
  <1>1. ASSUME PublicationInv, [Next]_vars, NEW i \in incidents' \ incidents,
               Lone(i.title), Cardinality(incidents) <= IncidentWindow
        PROVE  i.title \notin Titles(incidents)
    <2>1. CASE Raise
      <3>1. PICK s \in todo, new \in Incident :
                new.title = Title(s) /\ incidents' = incidents \cup {new}
        BY <1>1, <2>1, RaiseFacts
      <3>2. i.title = Title(s)
        BY <1>1, <3>1
      <3>3. \A j \in incidents : j.title # Title(s)
        BY <1>1, <2>1, <3>2 DEF Raise, PublicationInv, RaiseInv
      <3> QED BY <3>2, <3>3 DEF Titles
    <2>2. CASE ~Raise
      BY <1>1, <2>2, OnlyRaiseAdds
    <2> QED BY <2>1, <2>2
  <1>2. PublicationInv /\ [Next]_vars =>
           [\A i \in incidents' \ incidents :
               Lone(i.title) /\ Cardinality(incidents) <= IncidentWindow
                   => i.title \notin Titles(incidents)]_vars
    BY <1>1
  <1> QED BY <1>2, Invariance, PTL DEF Spec, RaisedOnce

(* A complete publication leaves no incident that it knew, or that was     *)
(* raised since, open on a quiet file of a table whose assertions one read *)
(* returns.                                                                *)
THEOREM IncidentsEnd == Spec => []SettledIncidentsEnd
  <1>1. ASSUME PublicationInv PROVE SettledIncidentsEnd
    <2> SUFFICES ASSUME complete, Cardinality(declared) <= AssertionWindow,
                        NEW i \in incidents \ missed, i.title[1] \in executed
                 PROVE  i.title \in Reported
      BY DEF SettledIncidentsEnd
    <2>1. PICK s \in Symbol : i.title = Title(s)
      BY <1>1 DEF PublicationInv, CatalogInv
    <2>2. ~Settled(s)
      BY <1>1, <2>1 DEF PublicationInv, CloseInv, Known, Within
    <2>3. RuleOf[s] \in executed
      BY <2>1 DEF Title
    <2> QED BY <2>1, <2>2, <2>3 DEF Settled
  <1> QED BY <1>1, Invariance, PTL

(* No verdict turns to passing but for a file the run checked and found    *)
(* quiet.                                                                  *)
THEOREM SilenceIsNoResolution == Spec => SilenceClosesNothing
  <1>1. ASSUME PublicationInv, [Next]_vars, NEW s \in Symbol,
               Latest(timeline[s]) = "FAILURE", Latest(timeline'[s]) = "SUCCESS"
        PROVE  RuleOf[s] \in executed /\ Title(s) \notin Reported
    <2>1. s \in Assertion /\ timeline'[s] # timeline[s]
      BY <1>1 DEF Assertion
    <2>2. CASE Report
      <3>1. PICK a \in todo : Lands(a, VerdictOf(a))
        BY <2>2 DEF Report
      <3>2. /\ Latest(timeline'[a]) = VerdictOf(a)
            /\ \A b \in Assertion \ {a} : timeline'[b] = timeline[b]
        BY <1>1, <3>1, VerdictIsOne, LandsFacts DEF PublicationInv
      <3>3. s = a /\ s \in Records
        BY <1>1, <2>1, <2>2, <3>1, <3>2 DEF Report, PublicationInv, ReportInv
      <3>4. s \in failing
        BY <1>1, <3>3, PublicationAssumption DEF Records, PublicationInv, TypeOK
      <3> QED BY <1>1, <3>2, <3>3, <3>4, ReportedFails
    <2>3. CASE Resolve
      <3>1. PICK a \in todo : Lands(a, "SUCCESS")
        BY <2>3 DEF Resolve
      <3>2. \A b \in Assertion \ {a} : timeline'[b] = timeline[b]
        BY <1>1, <3>1, LandsFacts DEF PublicationInv, Verdict
      <3>3. s = a /\ Settled(s)
        BY <1>1, <2>1, <2>3, <3>1, <3>2 DEF Resolve, PublicationInv, ResolveInv
      <3> QED BY <3>3 DEF Settled
    <2>4. CASE ~Report /\ ~Resolve
      <3>1. timeline' = timeline
        BY <1>1, <2>4 DEF Next, vars, catalog, Begin, Fail, Declare, Refused, Reconcile,
           ReadTimelines, ReadIncidents, Raise, ReadSettled, Close, Finish
      <3> QED BY <2>1, <3>1
    <2> QED BY <2>2, <2>3, <2>4
  <1>2. PublicationInv /\ [Next]_vars =>
           [\A s \in Symbol :
               (Latest(timeline[s]) = "FAILURE" /\ Latest(timeline'[s]) = "SUCCESS")
                   => RuleOf[s] \in executed /\ Title(s) \notin Reported]_vars
    BY <1>1
  <1> QED BY <1>2, Invariance, PTL DEF Spec, SilenceClosesNothing

(* An incident is raised only while its file is recorded as failing and    *)
(* intermittent, however far the index is behind.                          *)
THEOREM RaisesAreTrue == Spec => RaisedWhileFailing
  <1>1. ASSUME PublicationInv, [Next]_vars, NEW i \in incidents' \ incidents
        PROVE  /\ \E s \in Symbol : Title(s) = i.title /\ Alternates(timeline[s])
               /\ \E s \in Symbol : Title(s) = i.title /\ Latest(timeline[s]) = "FAILURE"
    <2>1. CASE Raise
      <3>1. PICK s \in todo, new \in Incident :
                new.title = Title(s) /\ incidents' = incidents \cup {new}
        BY <1>1, <2>1, RaiseFacts
      <3>2. i.title = Title(s)
        BY <1>1, <3>1
      <3>3. s \in Symbol /\ Alternates(timeline[s]) /\ Latest(timeline[s]) = "FAILURE"
        BY <1>1, <2>1 DEF Raise, PublicationInv, RaiseInv
      <3> QED BY <3>2, <3>3
    <2>2. CASE ~Raise
      BY <1>1, <2>2, OnlyRaiseAdds
    <2> QED BY <2>1, <2>2
  <1>2. PublicationInv /\ [Next]_vars =>
           [\A i \in incidents' \ incidents :
               /\ \E s \in Symbol : Title(s) = i.title /\ Alternates(timeline[s])
               /\ \E s \in Symbol : Title(s) = i.title /\ Latest(timeline[s]) = "FAILURE"]_vars
    BY <1>1
  <1> QED BY <1>2, Invariance, PTL DEF Spec, RaisedWhileFailing
================================================================================
