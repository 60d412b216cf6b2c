------------------------------- MODULE ModelTurns -------------------------------
(***************************************************************************)
(* One repository's questions to a model (answer_many): the candidates of  *)
(* every contextual rule, in grouped packs (OpenRouterBackend) or in       *)
(* batches of one rule (BatchedBackend), as coroutines under one           *)
(* semaphore.  The model service is external.                              *)
(***************************************************************************)
EXTENDS PackPlanner

CONSTANTS
    Contents,    \* how many candidates each has: functions from Query
    BatchSize, Workers,
    Closed       \* rules whose categories have no "uncertain"

ASSUME ModelTurnsAssumption ==
    /\ Contents \subseteq [Query -> Nat]
    /\ \A counts \in Contents : \A q \in Query :
           \A p \in 0..(counts[q] - 1) : <<q, p>> \in Candidate
    /\ {BatchSize, Workers} \subseteq Nat \ {0}
    /\ Closed \subseteq Query

VARIABLES
    rows,        \* the candidates of each rule
    router,      \* OpenRouterBackend; otherwise a command line harness
    grouped,     \* packs of several rules; otherwise batches of one
    packs,       \* what each coroutine asks, as lists of candidates
    turns,       \* where each coroutine is
    requests,    \* turns sent to the model service, retries included
    phase        \* "first", "rest", or how answer_many ended

asked == <<rows, router, grouped, packs>>
vars == <<asked, turns, requests, phase>>

(* The candidates of a rule, and OpenRouterBackend._prepared: those of all *)
(* rules; one without candidates asks nothing.                             *)
CandidatesOf(counts, q) == [p \in 1..counts[q] |-> <<q, p - 1>>]
Prepared(counts) == FlattenSeq([q \in Query |-> CandidatesOf(counts, q)])

(* Bug form: the last, shorter batch is left out.                          *)
BugBatches(list) ==
    [b \in 1..Len(list) \div BatchSize |->
        SubSeq(list, (b - 1) * BatchSize + 1, b * BatchSize)]

(* BatchedBackend._batches.                                                *)
Batches(list) ==
    LET size == Len(list)
        end(b) == IF b * BatchSize < size THEN b * BatchSize ELSE size
    IN [b \in 1..(size + BatchSize - 1) \div BatchSize |->
           SubSeq(list, (b - 1) * BatchSize + 1, end(b))]

Inflight == {"asked", "again"}

(* Bug form: a turn that fails keeps its place in the semaphore.           *)
BugHolding == {t \in DOMAIN turns : turns[t] \in Inflight \cup {"failed"}}

(* BatchedBackend.limiter: who is inside it.                               *)
Holding == {t \in DOMAIN turns : turns[t] \in Inflight}

(* Bug form: every pack is asked at once.                                  *)
BugFirstPhase == "rest"

(* OpenRouterBackend._planned: the first pack goes alone.                  *)
FirstPhase == IF grouped /\ packs # <<>> THEN "first" ELSE "rest"

Init ==
    /\ rows \in Contents
    /\ router \in BOOLEAN
    /\ grouped = (router /\ ~TooLarge(Prepared(rows)))
    /\ packs = IF grouped THEN Planned(Prepared(rows))
               ELSE FlattenSeq([q \in Query |-> Batches(CandidatesOf(rows, q))])
    /\ phase = FirstPhase
    /\ turns = [t \in DOMAIN packs |->
                   IF phase = "first" /\ t > 1 THEN "later" ELSE "waiting"]
    /\ requests = 0

--------------------------------------------------------------------------------
Goes(t, to) ==
    /\ turns' = [turns EXCEPT ![t] = to]
    /\ UNCHANGED <<asked, phase>>

(* The coroutine gets into the semaphore and sends its turn.               *)
Ask(t) ==
    /\ turns[t] = "waiting"
    /\ Cardinality(Holding) < Workers
    /\ requests' = requests + 1
    /\ Goes(t, "asked")

(* OpenRouterClient.exchange: a started response that breaks off is asked  *)
(* for once more.                                                          *)
Retry(t) ==
    /\ router
    /\ turns[t] = "asked"
    /\ requests' = requests + 1
    /\ Goes(t, "again")

(* An answer, or one that cannot be parsed ("unusable").                   *)
Answered(t) ==
    /\ turns[t] \in Inflight
    /\ \E to \in {"answered", "unusable"} : Goes(t, to)
    /\ UNCHANGED requests

(* No connection, an error of the service, a second interruption, a        *)
(* harness that failed or ran out of time.                                 *)
Failed(t) ==
    /\ turns[t] \in Inflight
    /\ Goes(t, "failed")
    /\ UNCHANGED requests

Turn(t) == Ask(t) \/ Retry(t) \/ Answered(t) \/ Failed(t)

--------------------------------------------------------------------------------
Unusable == {t \in DOMAIN turns : turns[t] \in {"unusable", "failed"}}
Over == {t \in DOMAIN turns : turns[t] \in {"answered", "unusable", "failed"}}

TurnsOf(q) == {t \in DOMAIN turns : q \in Rules(packs[t])}

(* Bug form: only a backend that failed every rule is reported.            *)
BugUnanswered(q) == DOMAIN turns # {} /\ \A t \in DOMAIN turns : turns[t] = "failed"

(* BatchedBackend._answered: not one batch of the rule had its turn.       *)
Unanswered(q) == TurnsOf(q) # {} /\ \A t \in TurnsOf(q) : turns[t] = "failed"

(* The exceptions that leave answer_many: a pack's own, a rule's whose     *)
(* batches all failed, and that of a batch whose fallback has no category. *)
(* gather raises the first and leaves the other coroutines running.        *)
Raise ==
    /\ phase \in {"first", "rest"}
    /\ \/ grouped /\ Unusable # {}
       \/ /\ ~grouped
          /\ \E q \in Query :
                \/ TurnsOf(q) \subseteq Over /\ Unanswered(q)
                \/ q \in Closed /\ TurnsOf(q) \cap Unusable # {}
    /\ phase' = "raised"
    /\ UNCHANGED <<asked, turns, requests>>

(* anyio.run cancels what still runs.                                      *)
Cancel ==
    /\ phase = "raised"
    /\ DOMAIN turns # Over
    /\ turns' = [t \in DOMAIN turns |-> IF t \in Over THEN turns[t] ELSE "failed"]
    /\ UNCHANGED <<asked, requests, phase>>

(* The first pack came back: the others go together.                       *)
AskTheRest ==
    /\ phase = "first"
    /\ turns[1] = "answered"
    /\ phase' = "rest"
    /\ turns' = [t \in DOMAIN turns |-> IF turns[t] = "later" THEN "waiting" ELSE turns[t]]
    /\ UNCHANGED <<asked, requests>>

(* What a rule is given by packs, in the order gather keeps.               *)
Given(asks, q) ==
    LET given == Among(FlattenSeq(asks), {c \in Candidate : c[1] = q})
    IN [i \in DOMAIN given |-> given[i][2]]

Positions(q) == Given(packs, q)

(* Grouped answers are put in order; either way they must be as many as    *)
(* the candidates, and grouped ones must be theirs.                        *)
Restored(q) == IF grouped THEN Sorted(Positions(q)) ELSE Positions(q)
Lost(q) ==
    IF grouped THEN Restored(q) # [p \in 1..rows[q] |-> p - 1]
    ELSE Len(Restored(q)) # rows[q]

Assemble ==
    /\ phase = "rest"
    /\ Over = DOMAIN turns
    /\ IF grouped THEN Unusable = {}
       ELSE \A q \in Query : ~Unanswered(q) /\ (q \in Closed => TurnsOf(q) \cap Unusable = {})
    /\ phase' = IF \E q \in Query : Lost(q) THEN "lost" ELSE "answered"
    /\ UNCHANGED <<asked, turns, requests>>

Next ==
    \/ \E t \in DOMAIN turns : Turn(t)
    \/ Raise \/ Cancel \/ AskTheRest \/ Assemble

Spec == Init /\ [][Next]_vars /\ WF_vars(Next)

--------------------------------------------------------------------------------
(* OpenRouterBackend.answered_many, "restore every query's original        *)
(* candidate order": however a rule's candidates were split over packs,    *)
(* an answer comes back for each of them, once, in their order, and the    *)
(* check for lost candidates never fires.                                  *)
EveryCandidateAnswered ==
    /\ phase # "lost"
    /\ phase = "answered" => \A q \in Query : Restored(q) = [p \in 1..rows[q] |-> p - 1]

(* RepositoryPlanner, "under provider input and output limits": no request *)
(* of a plan is larger than the limits by the tokenizer's count, and a     *)
(* plan is refused only for a candidate that is too large alone.           *)
PlanFits ==
    /\ grouped => \A t \in DOMAIN packs : Fits(packs[t], Counted)
    /\ router /\ ~grouped =>
          \E c \in ToSet(Prepared(rows)) :
              \E weight \in {Estimated, Counted} : ~Fits(<<c>>, weight)

(* BatchedBackend._answered, "a report full of manufactured uncertainty":  *)
(* answers are only returned when every rule that asked had the model      *)
(* answer one of its turns, even if other rules had theirs.                *)
NothingManufactured ==
    phase = "answered" =>
        \A q \in Query : rows[q] > 0 =>
            \E t \in TurnsOf(q) : turns[t] \in {"answered", "unusable"}

(* _planned, "a failed packed turn stops once instead of multiplying an    *)
(* unavailable service": until a pack has come back the service was sent   *)
(* one pack, at most twice.                                                *)
UnavailableIsAskedOnce ==
    grouped /\ (\A t \in DOMAIN turns : turns[t] \notin {"answered", "unusable"})
        => requests <= 2

(* Every question ends: an answer or an exception, and no coroutine waits  *)
(* for the semaphore or the service.                                       *)
TurnsEnd == <>(phase \notin {"first", "rest"} /\ Over = DOMAIN turns)
================================================================================
