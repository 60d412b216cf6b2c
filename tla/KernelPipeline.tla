--------------------------- MODULE KernelPipeline ---------------------------
(***************************************************************************)
(* One analysis of core/src/pipeline: worker threads extract documents,    *)
(* one thread takes the documents in source order and hands their facts to *)
(* the delivery or to the deferred store, and the repository phase joins,  *)
(* drains and announces what is left before the delivery closes.           *)
(*                                                                         *)
(* AttributeAccessFact stands for StringExpressionFact too, SyntaxFact for *)
(* ImportBindingFact too, TestFunctionFact for itself, and RouteFact for   *)
(* every family the repository phase builds in one piece.                  *)
(***************************************************************************)
EXTENDS Delivery, SequencesExt

CONSTANTS Docs,      \* number of documents
          Threads,   \* rayon::current_num_threads
          Size,      \* facts of each family in each document; document 0 is the repository
          Requests   \* the requests an analysis may start from

AttributeAccess == 1
Call == 2
Class == 3
Directory == 4
Function == 5
Module == 6
Route == 7
Syntax == 8
TestFunction == 9

Families == 1..9

\* typed_rows: the families that have a row type.
Specialized == {AttributeAccess, Call, Class, Function, Syntax}

Doc == 1..Docs
Workers == IF Threads < Docs THEN Threads ELSE IF Docs = 0 THEN 1 ELSE Docs
Worker == 1..Workers

\* The facts a family has in one document, or in the repository, in order.
FactsOf(f, d) == [i \in 1..Size[f][d] |-> <<f, d, i>>]
SomeFacts == UNION {{<<f, d, i>> : i \in 1..Size[f][d]} : f \in Families, d \in 0..Docs}

ASSUME PipelineAssumption ==
    /\ Family = Families
    /\ Docs \in Nat /\ Threads \in Nat \ {0}
    /\ Size \in [Families -> [0..Docs -> Nat]]
    /\ Fact = SomeFacts
    /\ \A f \in Families, d \in 0..Docs :
          Size[f][d] = 0 \/ (d = 0 <=> f \in {Directory, Route})
    /\ Requests \subseteq [kept: SUBSET Family, selected: SUBSET Family,
                          requested: SUBSET Family, typed: SUBSET Specialized]
    /\ \A r \in Requests : r.kept \subseteq r.requested

VARIABLES typed,     \* families selected as typed rows
          count,     \* typed rows collected of each family
          opened,    \* families the deferred store holds
          held,      \* their facts
          index,     \* documents received so far
          todo,      \* the calls left for the document or the repository phase at hand
          stage,     \* "documents" or "repository"
          at,        \* the document each worker is at
          worker,    \* what each worker does
          channel    \* the sync_channel(1) of each worker

workerVars == <<at, worker, channel>>
storage == <<count, opened, held>>
vars == <<deliveryVars, typed, storage, index, todo, stage, workerVars>>

Wanted == requested \cup selected
Needs(f) == f \in Wanted \cup typed

\* per_file_families.
PerFile ==
    (Wanted \ {Directory, Route})
        \cup (IF Needs(Directory) /\ ~Needs(Module) THEN {Module} ELSE {})
        \cup (typed \cap {Class, Syntax})

\* Bug form: a directory join does not open its modules.
SpooledWithoutModules ==
    {f \in PerFile : f \in {Call, Class, Function, TestFunction} /\ (f = Class => f \in Wanted)}

\* spooled_families.
Spooled ==
    {f \in PerFile : \/ f \in {Call, Class, Function, TestFunction} /\ (f = Class => f \in Wanted)
                     \/ f = Module /\ Needs(Directory)}

TypeOK ==
    /\ DeliveryTypeOK
    /\ typed \subseteq Family
    /\ count \in [Family -> Nat]
    /\ opened \subseteq Spooled
    /\ held \in Facts
    /\ index \in 0..Docs
    /\ stage \in {"documents", "repository"}
    /\ at \in [Worker -> 1..(Docs + Workers)]
    /\ worker \in [Worker -> {"extracting", "sending", "gone"}]
    /\ channel \in [Worker -> Seq(Doc)]

Init ==
    /\ \E r \in Requests :
          /\ kept = r.kept /\ selected = r.selected
          /\ requested = r.requested /\ typed = r.typed
    /\ DeliveryInit
    /\ count = [f \in Family |-> 0]
    /\ opened = Spooled
    /\ held = [f \in Family |-> <<>>]
    /\ index = IF PerFile = {} /\ typed = {} THEN Docs ELSE 0
    /\ todo = <<>>
    /\ stage = "documents"
    /\ at = [w \in Worker |-> w]
    /\ worker = [w \in Worker |->
                   IF w > Docs \/ (PerFile = {} /\ typed = {}) THEN "gone" ELSE "extracting"]
    /\ channel = [w \in Worker |-> <<>>]

-----------------------------------------------------------------------------
(* The calls made for one document, and for the repository.                *)

Mark(f, n) == [call |-> "mark", family |-> f, rows |-> n]
Give(f, s) == [call |-> "send", family |-> f, facts |-> s]
Hold(f, s) == [call |-> "hold", family |-> f, facts |-> s]
Take(f, how) == [call |-> "take", family |-> f, how |-> how]
Drain(f) == [call |-> "drain", family |-> f]

\* The calls for those of the families fs that are in S, in the order of fs.
Calls(fs, S, call) == FlattenSeq([i \in DOMAIN fs |-> IF fs[i] \in S THEN <<call[fs[i]]>> ELSE <<>>])
InOrder == [f \in Families |-> f]
Marks(rowsOf) == [f \in Families |-> Mark(f, rowsOf[f])]
Takes(how) == [f \in Families |-> Take(f, how)]

\* Typed rows that are announced by the document that brings the first of them.
FirstRows(d) ==
    {f \in typed : count[f] = 0 /\ Size[f][d] > 0 /\ (f = Class => f \notin Wanted)}

\* ExtractedDocument.selected_values moves the legacy facts of an unwanted typed family.
DocumentFamilies == PerFile \ ((typed \cap {Class, Syntax}) \ Wanted)

\* The calls extract_documents makes for one received document.
DocumentCalls(d) ==
    Calls(<<Class, Syntax, AttributeAccess>>, FirstRows(d), Marks([f \in Families |-> Batch]))
        \o Calls(InOrder, DocumentFamilies,
                 [f \in Families |-> IF f \in opened THEN Hold(f, FactsOf(f, d))
                                                    ELSE Give(f, FactsOf(f, d))])

\* mark_empty_typed.
EmptyCalls ==
    Calls(<<Syntax, Class, AttributeAccess>>, {f \in typed : count[f] = 0}, Marks(count))

\* deliver_class_facts.
ClassCalls ==
    IF ~Needs(Class) /\ ~Needs(Function) THEN <<>>
    ELSE Calls(<<Class, Function>>, Wanted, Takes("whole"))
           \o Calls(<<Function, Class>>, typed \ Wanted, Marks(count))

\* deliver_directory_facts.
DirectoryCalls ==
    IF ~Needs(Directory) THEN <<>>
    ELSE <<Take(Module, IF Module \in Wanted THEN "whole" ELSE "aside"),
           Give(Directory, FactsOf(Directory, 0))>>

\* deliver_repository_scans and deliver_architecture.
ScanCalls == IF Route \in Wanted THEN <<Give(Route, FactsOf(Route, 0))>> ELSE <<>>

\* deliver_calls.
CallCalls ==
    Calls(<<Call, TestFunction>>, Wanted, Takes("drain"))
        \o Calls(<<Call>>, typed \ Wanted, Marks(count))

RepositoryCalls == EmptyCalls \o ClassCalls \o DirectoryCalls \o ScanCalls \o CallCalls

-----------------------------------------------------------------------------
(* The extraction workers.                                                 *)

Receiving == phase # "failed"

Extract(w) ==
    /\ worker[w] = "extracting"
    /\ worker' = [worker EXCEPT ![w] = "sending"]
    /\ UNCHANGED <<deliveryVars, typed, storage, index, todo, stage, at, channel>>

\* A frontend panics, which drops the sender.
Panic(w) ==
    /\ worker[w] = "extracting"
    /\ worker' = [worker EXCEPT ![w] = "gone"]
    /\ UNCHANGED <<deliveryVars, typed, storage, index, todo, stage, at, channel>>

\* Bug form: a worker whose consumer is gone waits for room.
PassWaiting(w) ==
    /\ worker[w] = "sending"
    /\ Len(channel[w]) < 1
    /\ channel' = [channel EXCEPT ![w] = Append(@, at[w])]
    /\ at' = [at EXCEPT ![w] = @ + Workers]
    /\ worker' = [worker EXCEPT ![w] = IF at[w] + Workers > Docs THEN "gone" ELSE "extracting"]
    /\ UNCHANGED <<deliveryVars, typed, storage, index, todo, stage>>

\* Bug form: the channel is unbounded.
PassUnbounded(w) ==
    /\ worker[w] = "sending"
    /\ IF Receiving
       THEN /\ channel' = [channel EXCEPT ![w] = Append(@, at[w])]
            /\ at' = [at EXCEPT ![w] = @ + Workers]
            /\ worker' = [worker EXCEPT ![w] =
                            IF at[w] + Workers > Docs THEN "gone" ELSE "extracting"]
       ELSE worker' = [worker EXCEPT ![w] = "gone"] /\ UNCHANGED <<at, channel>>
    /\ UNCHANGED <<deliveryVars, typed, storage, index, todo, stage>>

\* SyncSender::send blocks while the channel is full and fails once the receiver is dropped.
Pass(w) ==
    /\ worker[w] = "sending"
    /\ IF Receiving
       THEN /\ Len(channel[w]) < 1
            /\ channel' = [channel EXCEPT ![w] = Append(@, at[w])]
            /\ at' = [at EXCEPT ![w] = @ + Workers]
            /\ worker' = [worker EXCEPT ![w] =
                            IF at[w] + Workers > Docs THEN "gone" ELSE "extracting"]
       ELSE worker' = [worker EXCEPT ![w] = "gone"] /\ UNCHANGED <<at, channel>>
    /\ UNCHANGED <<deliveryVars, typed, storage, index, todo, stage>>

-----------------------------------------------------------------------------
(* The delivering thread.                                                  *)

\* Bug form: documents are taken from whichever worker has one.
NextWorkerAny == CHOOSE w \in Worker : \A v \in Worker : Len(channel[v]) <= Len(channel[w])

NextWorker == (index % Workers) + 1

\* extract_documents receives the next document in source order.
Receive ==
    /\ Idle /\ stage = "documents" /\ todo = <<>>
    /\ index < Docs
    /\ channel[NextWorker] # <<>>
    /\ LET d == Head(channel[NextWorker])
       IN /\ todo' = DocumentCalls(d)
          /\ count' = [f \in Family |-> IF f \in typed THEN count[f] + Size[f][d] ELSE count[f]]
    /\ channel' = [channel EXCEPT ![NextWorker] = Tail(@)]
    /\ index' = index + 1
    /\ UNCHANGED <<deliveryVars, typed, opened, held, stage, at, worker>>

\* The worker of the next document stopped before it.
ReceiveFails ==
    /\ Idle /\ stage = "documents" /\ todo = <<>>
    /\ index < Docs
    /\ channel[NextWorker] = <<>> /\ worker[NextWorker] = "gone"
    /\ Fail
    /\ UNCHANGED <<typed, storage, index, todo, stage, workerVars>>

\* thread::scope joins the workers, then the repository phase begins.
Join ==
    /\ Idle /\ stage = "documents" /\ todo = <<>>
    /\ index = Docs
    /\ \A w \in Worker : worker[w] = "gone"
    /\ stage' = "repository"
    /\ todo' = RepositoryCalls
    /\ UNCHANGED <<deliveryVars, typed, storage, index, workerVars>>

\* The next call of the document or the repository phase.
DoSend ==
    /\ todo # <<>> /\ Head(todo).call = "send"
    /\ Send(Head(todo).family, Head(todo).facts)
    /\ todo' = Tail(todo)
    /\ UNCHANGED <<typed, storage, index, stage, workerVars>>

DoMark ==
    /\ todo # <<>> /\ Head(todo).call = "mark"
    /\ MarkTyped(Head(todo).family, Head(todo).rows)
    /\ todo' = Tail(todo)
    /\ UNCHANGED <<typed, storage, index, stage, workerVars>>

\* DeferredFacts::write.
DoHold ==
    /\ Idle /\ todo # <<>> /\ Head(todo).call = "hold"
    /\ held' = [held EXCEPT ![Head(todo).family] = @ \o Head(todo).facts]
    /\ todo' = Tail(todo)
    /\ UNCHANGED <<deliveryVars, typed, count, opened, index, stage, workerVars>>

\* DeferredFacts::read and drain remove the family; drain has its facts still to visit.
DoTake ==
    /\ Idle /\ todo # <<>> /\ Head(todo).call = "take"
    /\ LET f == Head(todo).family
           how == Head(todo).how
       IN /\ f \in opened
          /\ opened' = opened \ {f}
          /\ todo' = (CASE how = "whole" -> <<Give(f, held[f])>>
                        [] how = "drain" -> <<Drain(f)>>
                        [] how = "aside" -> <<>>) \o Tail(todo)
    /\ UNCHANGED <<deliveryVars, typed, count, held, index, stage, workerVars>>

\* Bug form: the last, smaller batch is forgotten.
DrainFull ==
    /\ Idle /\ todo # <<>> /\ Head(todo).call = "drain"
    /\ LET f == Head(todo).family
           facts == held[f]
       IN IF Len(facts) < Batch
          THEN todo' = Tail(todo) /\ UNCHANGED held
          ELSE /\ todo' = <<Give(f, SubSeq(facts, 1, Batch))>> \o todo
               /\ held' = [held EXCEPT ![f] = SubSeq(facts, Batch + 1, Len(facts))]
    /\ UNCHANGED <<deliveryVars, typed, count, opened, index, stage, workerVars>>

\* DeferredFacts::drain visits the facts batch by batch; the last one may be smaller.
DoDrain ==
    /\ Idle /\ todo # <<>> /\ Head(todo).call = "drain"
    /\ LET f == Head(todo).family
           facts == held[f]
       IN IF Len(facts) <= Batch
          THEN /\ todo' = (IF facts = <<>> THEN <<>> ELSE <<Give(f, facts)>>) \o Tail(todo)
               /\ UNCHANGED held
          ELSE /\ todo' = <<Give(f, SubSeq(facts, 1, Batch))>> \o todo
               /\ held' = [held EXCEPT ![f] = SubSeq(facts, Batch + 1, Len(facts))]
    /\ UNCHANGED <<deliveryVars, typed, count, opened, index, stage, workerVars>>

\* Taking a family twice, or one that was never opened, would be an error.
Missing == todo # <<>> /\ Head(todo).call = "take" /\ Head(todo).family \notin opened

Finish ==
    /\ stage = "repository" /\ todo = <<>>
    /\ Close
    /\ UNCHANGED <<typed, storage, index, todo, stage, workerVars>>

Continue ==
    /\ EmitBatch \/ Closing
    /\ UNCHANGED <<typed, storage, index, todo, stage, workerVars>>

Deliver ==
    Receive \/ ReceiveFails \/ Join \/ DoSend \/ DoMark \/ DoHold \/ DoTake \/ DoDrain
        \/ Finish \/ Continue

\* The consumer is gone, or a scan, a conversion or a spool returns an error.
Abandon ==
    /\ Fail
    /\ UNCHANGED <<typed, storage, index, todo, stage, workerVars>>

Work(w) == Extract(w) \/ Pass(w)

Next == Deliver \/ Abandon \/ \E w \in Worker : Work(w) \/ Panic(w)

Spec == Init /\ [][Next]_vars

\* The operating system runs every thread that can run.
FairSpec == Spec /\ WF_vars(Deliver) /\ \A w \in Worker : WF_vars(Work(w))

-----------------------------------------------------------------------------
(* Properties.                                                             *)

\* The facts of a family in the first documents, and in the repository, in source order.
Upto(f, n) == FlattenSeq([d \in 1..n |-> FactsOf(f, d)])
Source(f) == Upto(f, Docs) \o FactsOf(f, 0)

Done == phase = "closed"
Conversed == Done \/ phase = "failed"

\* However the workers are scheduled, the consumer sees the facts of a family in source
\* order and once each, also when the analysis fails half-way.
StreamInOrder ==
    \A f \in Family : /\ IsPrefix(stream[f], Source(f))
                      /\ IsPrefix(rows[f], Source(f))
                      /\ IsPrefix(retained[f], Source(f))

Sum(t) == t[1] + t[2] + t[3] + t[4] + t[5] + t[6] + t[7] + t[8] + t[9]

\* Stats.fact_count, taken when the delivery is about to close.
FactCount ==
    emitted_count + Sum([f \in Families |-> Len(retained[f])])
        + Sum([f \in Families |-> IF f \in typed \ Wanted THEN count[f] ELSE 0])

\* The reported number of facts is the number of wanted facts in the repository, each
\* counted once whether it was streamed, captured, mirrored or retained.
CountHolds ==
    phase = "unseen" =>
        FactCount = Sum([f \in Families |-> IF Needs(f) THEN Len(Source(f)) ELSE 0])

\* A completed analysis has delivered every fact of every wanted family by the way its
\* request asks for, answered for exactly the requested families it streams, and reports
\* how many facts they were.
Complete ==
    /\ CountHolds
    /\ Done => \A f \in Family :
          /\ stream[f] = (IF f \in requested \ kept THEN Source(f) ELSE <<>>)
          /\ retained[f] = (IF f \in kept THEN Source(f) ELSE <<>>)
          /\ rows[f] = (IF f \in selected THEN Source(f) ELSE <<>>)
    /\ Done => answered = requested

\* A table session announces every selected table once and emits no row payload: what
\* SessionState::record_marker and TableExecution._ordered_families insist on.
TablesAnnounced ==
    requested = {} =>
        /\ answered = {}
        /\ IsInjective(markers)
        /\ Done => Listed(markers) = typed \cup selected

\* What the next call hands to the delivery is facts of the family it names, or a count.
NextCallFits ==
    todo # <<>> =>
        LET c == Head(todo)
        IN /\ c.family \in Family
           /\ c.call = "send" => c.facts \in Seq({e \in Fact : e[1] = c.family})
           /\ c.call = "mark" => c.rows \in Nat

\* The repository phase only reads families the deferred store was opened for, and finds
\* in each the facts of that family.
NothingMissing == ~Missing /\ NextCallFits

\* Extraction runs at most two documents per worker ahead of the delivery.
Ahead(w) == Len(channel[w]) + (IF worker[w] = "sending" THEN 1 ELSE 0)
Lookahead == \A w \in Worker : Ahead(w) <= 2

\* The analysis ends and every worker is joined, whoever fails first.
Terminates == <>(Conversed /\ \A w \in Worker : worker[w] = "gone")
=============================================================================
