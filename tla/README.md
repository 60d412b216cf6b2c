# TLA+ models of MCMR

MCMR judges a repository with rules. A Rust kernel (`src/src/core`) parses the sources and
extracts *facts*, Python (`src/src/mcmr`) turns them into tables and runs rules over them, some of
which ask a model service. The findings become a report; with `--fix` some of them are repaired
and the repairs verified; a run can be published to a DataHub catalog (`src/src/mcmr_datahub`).
This directory models the parts of that path whose control is hard to test, checks them with TLC
on small instances and proves the central properties with TLAPS for every instance.

Every definition is translated from the source; `PROJECT.json` (`map`) names the lines.

## The system

| Part | State it keeps | Operations | Talks to | Hard behaviour | Correct when |
|---|---|---|---|---|---|
| Fix session (`presentation/fixes/application/session.py`) | kept fixes, refused signatures, failures | `run`, `retain`, `_verified`, `_improved` | judgment callback, writer, renderer | halving and retry, a callback that raises, other programs editing | what is on disk at rest is what was verified |
| Atomic writer (`.../application/writer.py`) | files of the tree, temporary files | `apply_changes`, `restore_changes`, `_commit`, `_rollback` | operating system | errors half-way, kills, check and replace are two calls | a failed batch leaves no trace, foreign edits survive |
| Edit normalizer (`.../rendering`) | none | join, sort, overlap check, application | writer | only neighbours are compared; edits shift one another | different edits that collide are refused, the others land where they meant to |
| Fact delivery (`core/src/delivery`) | retained, pending and captured facts, markers | `send`, `mark_typed`, `close` | pipeline, one consumer callback | batches that fill mid-send, a consumer that fails | nothing lost, repeated or reordered |
| Kernel pipeline (`core/src/pipeline`, `session`, `deferred`) | worker channels, deferred families, typed rows | `analyze`, `run`, `run_stream`, `run_session` | frontends, delivery | worker schedules, panics, spools opened before and read after extraction | the answer is complete and in source order |
| Kernel exchange (`mcmr/kernel`) | a process, its pipe, the footer, families seen | `read`, `_responses`, `batch`, `footer` | kernel process, caller | a killed kernel, a caller that leaves, a full pipe | an answer called complete is complete |
| Rule engine (`mcmr/checking/engine`) | the list of batches | `prepared`, `batches` | table execution | a rule that ties several batches together | the batches are the connected components of the rules |
| Table session (`core/src/bindings/session`) | markers, tables not yet released | `next_table_marker`, `table` | table execution | a table asked for twice | each table is released once |
| External evidence (`mcmr/execution/providers`) | provider families ready so far | `requirements`, `tables` | plugins | dependencies between providers | every provider runs after its inputs |
| Table execution (`mcmr/query/orchestration`, `checking/session`) | tables taken, batches behind, failures retained | `run`, `_tables_for`, `_run_rules`, `add_table` | table session, rules, evidence | a table needed by several rules | each table is read once, each runnable rule runs once |
| Model backends (`mcmr/execution/backends`) | packs, coroutines, requests | `plan`, `answer_many`, `exchange` | model service | candidates cut up and joined again, partial answers, retries, a shared semaphore | every candidate is answered once, in its place, or an exception leaves |
| DataHub publication (`mcmr_datahub/services`) | assertions, verdict timelines and incidents in the catalog | `record`, `reconcile`, `_raise`, `_close`, `publish` | GraphQL and OpenAPI of the catalog | index lag, refused results, a publication cut anywhere, runs of other rules | the catalog says what the last complete runs found |
| Subprocess runner, dependency refresh (`mcmr/execution/contracts`, `mcmr/project/dependencies`) | nothing across calls | run, refresh | processes, registries | timeouts | their own tests |
| Frontends, graph, clones, rules, reports | none that outlives a call | | | large data, no concurrency | their own tests |

## Modules

### Repairs

`FixWriter` holds the tree and the writer's file operations: what a batch writes and removes, the
staleness check (`Appliable`), the check before a rollback (`Restorable`), one file written or
directory removed, and the rollback. A file is the set of fixes its bytes carry, or the bytes
of another program; rendering is left to the constants `Writes`, `Prunes`, `Overlaps`.

`FixSession` is the session over that tree, one action per step the code can stop at: `Offer`
(the next candidates, cut by the budget), `Check` and `Unrenderable`, `Write` of one file at a
time, `WriteFails`, `Written`, the judgment with `Keep`, `Reject` and `JudgmentFails`,
`StartRestore` and `Restore` one file at a time, `RestoreFails`, `Halve` and `Refuse`, `Finish`,
`Raise`, `Die` (a kill), and what other programs do: `EditFile` and `FillDirectory` add something new,
`RevertFile` and `RevertDirectory` (both by `PutBack`) restore older bytes of a file, as a checkout does or
an editor that saves its old buffer, and make, clear or remove a directory. `meddled` remembers the paths
put back and, when the batch in flight had already written or removed such a path, all that is `AtStake` in it.
A report holds the findings of the session's fixes and `Other` ones, which nothing in the session repairs; the
count of `_improved` (`Matching`) is over both.

`FixTransaction` is the promise: a set of fixes verified so far, a batch that is atomically
applied, kept or taken back, over a tree that loses the files other programs put back (`Meddle`).
`FixSession` implements it (`Transactional`); a kill and a failure inside a rollback map to a
transaction that halts, of which nothing more is promised. `FixSessionProofs` proves it.

`EditNormalizer` is the pure part under `Overlaps`: `Unique`, `Combined`, the sort, `Overlap` of
neighbours, and the application from right to left. It is compared with a reference in the same
module: two edits collide when they claim a common byte or one inserts inside the other (`Apart`),
and the revision is the document written down offset by offset (`Spliced`). `NeighboursDecide`
says that comparing neighbours refuses exactly the lists with two different colliding edits;
`AppliedInPlace` that what is not refused comes out as the reference. `FixSessionProofs` proves the first
of them for every list of edits; `MCFixSession` has TLC
evaluate both over every list of up to three edits of a document of three bytes
(`NormalizerAssumption`), and evaluate that the `Overlaps` of the session's instance are what the
normalizer refuses of its fixes' byte edits (`OverlapsAssumption`).

### The kernel

`Delivery` is `core/src/delivery` with its consumer: `Send` has one disjunct per way a family is
delivered (captured for a table, retained for a join, streamed), `EmitBatch` is one full batch of a
send, so a consumer can fail between two batches of one call, and closing is the three actions
`MarkUnseen`, `Flush`, `Answer`. `DeliverySpec` allows any sequence of calls. `sent` is a history
variable.

`KernelPipeline` extends it with the pipeline: worker threads with a `sync_channel(1)` each
(`Extract`, `Pass`, `Panic`), the ordered receive (`Receive`), the calls made for one document and
for the repository phase as data (`DocumentCalls`, `RepositoryCalls`) that `DoSend`, `DoMark`,
`DoHold`, `DoTake`, `DoDrain` carry out one at a time, and `Fail` between any two of them. A call of
each family in a list of families is `Calls`; `DoTake` takes a family from the deferred store, and
`DoDrain` hands one on from it a batch at a time. One family stands
for each group the pipeline treats alike: `AttributeAccess` for string expressions too, `Syntax`
for import bindings, `Route` for everything the repository phase builds in one piece.
`DeliveryProofs` proves the safety of both modules.

`KernelExchange` is the streamed exchange between the Python reader and the kernel process: the
kernel starts a line and is stuck on it until the pipe has room; `KernelExchange.read`'s steps
are `WriteRequest` to `Stop`; `Accept` and `Complete` are `KernelRuntime.Reader`; `Killed` and
`Leave` happen at any time. A kernel of another build (`foreign`) may write lines of any kind.
`KernelExchangeProofs` proves its safety.

### One judgment

`FactFamilies` and `RuleContracts` hold what rules are made of: the families they read, whether
they ask the model, and `Connected`, the relation between a batch and a rule.

`RuleBatches` is the promise of `RuleEngine.batches`: a partition of the rules into the connected
components of `Linked`. It is a set of sets, placed in any order. `RuleEngine` is the loop as
written, a list of lists with one iteration per step (`PlaceRule`), and implements it
(`ImplementsRuleBatches`); `EntriesAreApart` says what the list needs beyond the set of its
entries, and `EntriesHoldAll` that in the end it holds every prepared rule. `RuleEngineProofs` proves
the partition, and that the loop implements it.

`Lists` holds the operators on lists that several modules share: `Among`, the filter of a list
comprehension, `Firsts`, the keys of a dictionary in the order they came in, and `SortedBy` and `Sorted`,
a stable sort. `ListProofs` proves what they, `SelectSeq`, `FlattenSeq` and a projection of a list
return, and that a list of lists still divides a set after its parts are cut, joined or
reordered (`Divides`); every later proof about lists cites it.

`ExternalEvidence` is `ExternalEvidence.tables`: `Collect` resolves what is needed of whom,
`StartPass` is the head of the `while` loop (who is ready, or which error), `Read` the pop and the
await of one provider, `Supply` and `ProviderRaises` its answer, `Finish` the end. `selection`,
a worklist in the code, is the least closed set (`Resolved`). The declarations of the installed
providers are chosen in `Init`.

`TableExecution` extends both and is one judgment from the engine to the report: `Open`,
`NextMarker`, `MarkersEnd` (the native session), `TakeEager` (provider inputs and the language
probe), the evidence steps, and per batch `StartBatch`, `TakeTable`, `TablesReady`, `RunRules`.
`Release` is the session's side of a table moved out of it. The order in which the kernel
lists families only decides the order in which tables are taken, so `seen` is a set. What a rule finds is
a number of failures; `Kept` is the share of them the bounded report retains. The coroutine is
the only user of its session and of its accumulator, so no step of it interleaves with another of
the same run. `TableExecutionProofs` proves the safety of the collection and of the whole judgment on
top of `RuleEngineProofs`.

### Questions to a model

`RunRules` above takes the one model turn of a run as a step. `ModelTurns` is what happens in it.

`PackPlanner` is the planner of `backends/openrouter/planning` as operators. A pack is the list of the
candidates one request asks about, rule by rule; a slice of the code is a rule's part of it. The components of
rules that share evidence (`Components`) are cut by directory and then by halves (`Areas`, `Split`), packed
first-fit, cut again where the tokenizer counts more than the estimate did, and packed again (`Units`,
`Provisional`, `Verified`, `Planned`: the variables of `plan`). A prompt's size is a frame, the rules, the
candidates and each retained claim once. `_bounded` recurses into the parts of a pack and keeps their order;
`Bounded` cuts all packs of one depth before the next, in as many rounds as there are candidates, which leaves the
same list. A candidate that does not fit alone stays where the code raises, and `TooLarge` is that `ValueError`, which makes
the backend fall back to batches of one rule.

`ModelTurns` runs a plan: every pack or batch is a coroutine that is `waiting` for the semaphore,
`asked`, asked `again` after an interrupted stream, then `answered`, `unusable` or `failed`. The
first pack of a grouped plan goes alone (`AskTheRest`). `Raise` is the exception that leaves
`gather`, whose other coroutines run on until `Cancel`; `Assemble` puts the answers back in the
order of the candidates. Both backends are in it, `router` and `grouped` tell which. `Prepared` is the list of candidates
the planner is given; `Given` lists the positions of a rule in all turns, and `Restored` puts them in order.
`ModelTurnsProofs` proves the bound on turns and on requests, the planner and the answers.

### Publication

`Publication` is the part of `DataHubProvider.publish` in which the order of writes matters, over any number
of successive runs of one repository: `Declare` the assertions, `Report` each result with its
refusals (`Refused`), `Reconcile` and `Resolve` the files that went quiet, `ReadTimelines`,
`ReadIncidents` and `Raise`, `ReadSettled` and `Close`, and `Finish`, the run instance. `Fail` ends
a publication anywhere, `late` is what the index does not show yet. A timeline remembers its last
four changes, which decide whether it alternates and is failing.

The assertions and the incidents of a table are read one page of 50 at a time and no second page is ever
asked for (`recording.py:25`, `incidents.py:22`: "which bounds the idempotency check"). `Pages` is what such a query returns:
everything if it fits, otherwise any subset of the size of a page, since the order is the catalog's. `Reconcile` and
`ReadTimelines` each read a page of the assertions (`shown`), `ReadIncidents` a page of the incidents;
`held` is the one incident it keeps of each title in that page and `missed` the other open ones. `_raise` and
`_close` both work from that one read. `PublicationProofs` proves the module's safety.

## What is checked

| Run | Instance | Shows |
|---|---|---|
| `fix_session` | 3 fixes and 1 finding nothing repairs, 2 files, 1 directory, 1 foreign edit, 1 path put back, 2 faults, a kill | rest states hold exactly the verified fixes, but for what others put back (`RestIsVerified`), one failure is undone (`OneFailureIsUndone`), foreign edits survive, every kept plan closes its finding when all messages differ, the session ends and implements the transaction; before it, the two assumptions about the normalizer |
| `fix_messages` | the same fixes with a shared message | **violation**: a batch is kept although one plan closed nothing |
| `pipeline_requests` | all requests of the four entry points over 9 families, 2 documents, 1 worker (3508 requests) | completeness and the fact count (`Complete`), one marker per table and none of the rows, no unopened family is read |
| `pipeline_workers` | 3 requests, 7 documents of 0 to 3 facts, 3 workers, batches of 2 | source order under every schedule, conservation, lookahead, batch size, termination with panics and errors |
| `kernel_exchange` | 2 families, 3 batches, a pipe of 2 lines, this kernel or another | a complete answer is whole and a failed analysis surfaces (`OutcomeIsTrue`), no orphan process, an exchange with this kernel ends |
| `exchange_blocked` | the same, another kernel | **violation**: after a record that breaks the protocol the reader waits for a kernel that is blocked on the pipe |
| `rule_engine` | every ordered selection of 6 rules over 5 families | the list holds every connected component of the rules placed so far, once (`BatchesAreComponents`), and implements the partition |
| `external_evidence` | 2 providers of 3 families, 512 declarations, every request, 3 sets of tables in hand | no provider on a ring does any work, errors name their cause, a good end has exactly what was needed, the passes end |
| `table_execution` | every ordered selection of 4 rules, 5 installations of providers, 4 observations of languages, 2 limits | no table is asked of the session twice and none is merged from the kernel and a provider once the providers are read, every rule with its tables is judged once, one model turn, a full but bounded report, the run ends |
| `model_turns` | 3 rules, 31 choices of up to 4 candidates each, both kinds of backend, 2 workers, batches of 2 | every candidate answered once and in place, no request over budget by the tokenizer's count, nothing manufactured for a rule nobody answered, an unavailable service is asked once, every turn ends |
| `publication` | any number of runs of 1 of 2 rules, 3 symbols in 2 files, 1 delay, pages of 4 assertions and 2 incidents, 2 incidents of a title | silence closes nothing; a complete publication has every verdict and, where one page shows the assertions, leaves no quiet file failing and no incident on it that it knew; no incident is raised beside an open one while one page shows them all; all are raised on what alternates and is failing |
| `publication_resolves` | 2 symbols in one file, nothing fails | **violation**: an incident the third run raised is resolved as passing by the fourth, which reports the file as failing |

Why the bounds are enough. Three fixes are needed for halving to leave a rest that is offered
again, two files for a batch that is half written, one directory for the order of removals. One path put
back (`MaxReverts`) is what the retry of a refused rollback needs to pass its checks: without the exception
for `meddled` paths the run refutes `RestIsVerified`. Three edits
are two that collide and one between them. Nine
families are every group `per_file_families`, `spooled_families` and the repository phase
distinguish. The schedules and the requests are split into two runs: the request decides which
calls are made, the schedule only when a document arrives. Seven documents on three workers give
workers of two and three documents, enough for one to run ahead of a full channel, three facts in a document with batches of
two give a full batch, a remainder and an exact cut, and documents without facts exist. In the
exchange the pipe is shorter than the answer (header, two or three batches, footer), which is what blocks. Three rules are
needed to merge two batches, and a fourth and fifth to merge across a batch that stays and to tie rules
by the model turn alone. Two providers, one with two families, distinguish a ring of families
from a ring of providers and a provider that needs its own output; the third set of tables in
hand is one a provider owns as well. In `table_execution` the limit is 3 and a batch reports at most 2 failures, so it
is reached within a batch, between batches and not at all.

In `model_turns` the counts and weights are chosen so that rules share evidence or do not, a pack is
cut by directory, by halves and by dealing out single candidates, the tokenizer refuses what the estimate
packed, packs are joined again, and a single candidate does not fit. Two workers and up to six coroutines
leave some waiting while others fail. In `publication` the two symbols of one file share a title and the third has its own;
`Kept = 4` (a definition of the module) keeps the last change and the three before it, and an alternation that
happened longer ago than the events a timeline is read with is covered by `ReadIncidents`, which may leave any of them out. `Delays`
is 1 instead of 4: every refusal but the last does the same. There are five assertions and a page holds
`AssertionWindow = 4`; a page holds `IncidentWindow = 2` of up to four incidents: tables that fit a page and tables
that do not are both reached, and `QuietFilesClose`, `SettledIncidentsEnd` and `RaisedOnce` without their conditions are
violated within these bounds. `Copies = 2` bounds the open incidents of one title: with
two open, a third is not raised and such a publication can only end by `Fail`. In the catalog other
assertions and incidents of the table, of people and of other tools, fill the same pages.

Deadlock is checked in the publication runs, which never end. It is not in the others: each
of these systems ends, and a state with no successor is the end. That nothing stops earlier is
what the liveness properties say. `TypeOK` of a module is the starting point of its proofs and not
the property of a run, `CountHolds` and others are conjuncts of the property that is.

### Assumptions

- The index of the catalog has caught up with a run when the next one of the same repository
  begins, and no two publications of a repository overlap. Verdicts land on one fact table. The code takes no lock and makes no check of this.
- `asyncio`'s semaphore is first come, first served; in the model any waiting coroutine may get a place.
- What a judgment, a frontend, a provider or a model returns is arbitrary within its type.

### Fairness

`FixSession!FairSpec` is weak fairness of the session's own steps; faults, kills and other
programs need never act. `KernelPipeline!FairSpec` is weak fairness of the delivering thread and
of each worker: the operating system runs runnable threads. No fairness is put on panics or
errors. `KernelExchange!FairSpec` is weak fairness of the kernel process and of the reading
process; a caller that holds a batch asks for the next one or leaves, and nobody has to kill
anything. `EvidenceSpec` and `TableExecution!Spec`
are weak fairness of the coroutine: the event loop resumes it, and what it awaits (the kernel, a
provider, a backend) answers or raises. A provider that never answers would hang the run: there is no deadline around it.
`ModelTurns!Spec` is weak fairness of the event loop: every turn has a timeout, so it comes back. The
timeout of the HTTP client is per read; a stream that drips for ever is assumed away.
`Publication` has no fairness and no liveness: nothing obliges anybody to publish again.
Strong fairness is used nowhere.

## What is proved

For every set of families, batch size and sequence of calls (`DeliveryProofs`), assuming only that
families are natural numbers (the order of a `BTreeMap`), the batch size is at least one and `Unset`
is not a family:

- `DeliveryInvariant`: the inductive invariant `DeliveryInv`. `Conserved` alone is not
  inductive: that a close loses nothing needs `PendingInv`, which says when a family may be
  pending (only while its full batches are emitted may it hold a whole batch, nothing is
  pending after the flush), and that the two stores mirror what was sent (`StoreInv`).
- `DeliveryConserves`, `DeliveryHandsOver`, `BatchesBounded`: `Conserved`, `HandedOver` and
  `BatchBound` from it. `CutBatch` is the fact about sequences they rest on.

For every request, number of documents and threads, and size of every family (`DeliveryProofs`), assuming
`PipelineAssumption`: a family has facts in documents or, like directories and routes, in the
repository, but not in both; only families with a row type are selected as typed rows (`typed_rows`);
and what a join retains was requested (`retained` filters the request, `session/mod.rs:13-28`):

- `PipelineIsADelivery`: `KernelPipeline!Spec` implements `DeliverySpec`, so `Conserved`, `HandedOver` and
  `BatchBound` hold of every analysis (`PipelineConserves`, `PipelineHandsOver`,
  `PipelineBatchesBounded`). A worker's step, a received document, a deferred write
  and a take change nothing of the delivery; every other step is a call that names a family and hands
  over facts of it.
- `NothingIsMissing`, `StreamIsInOrder`, `TablesAreAnnounced`, `AnalysisIsComplete`: the properties
  the two pipeline runs check, from one inductive invariant, `AnalysisInv`. Its parts: `DeliveryInv`;
  `WorkersInv` and `PlaceInv`, which document every worker is at; and `PipelineInv`. The last is about the calls
  still to be made: which calls are legal in which stage and that no family is read twice
  (`CallsInv`); that what has become of a family, and what the remaining calls hold of it, is
  together what it has to be (`ContentInv`), so that nothing is lost between a document and its
  spool, or between the spool and the phase that reads it; that the counts announced with the
  typed rows are those of the documents so far (`CountInv`); that a typed table is announced, is about to be, or still waits
  for its first row (`MarksInv`). `ConsumerInv` adds what the consumer has heard of, `EmittedInv` that the count
  the analysis returns is the sum over the families that are not joined. None of the four
  properties is inductive: they speak of the end, or of what was received, and not of the list of calls.
- `LookaheadIsBounded`: no worker is further ahead than one document in its channel and one in
  its hands. `PipelineTypes`: the types.

The calls are computed by filtering and flattening lists. What these return is an induction over the length,
which the library's induction theorems cannot do here; `ListProofs` carries it out on the set of
lengths for which a statement holds, by the well-foundedness of the order on the naturals.

For every set of fixes, files, directories, failures and edits (`FixSessionProofs`):

- `TypeCorrect`, `RestVerified`, `FailureUndone`, `ForeignKept`, and the refinement
  `SessionRefines` of `FixTransaction`, all from the inductive invariant `IInv`: in every phase, which
  fixes each file carries, and that a batch left on disk is seen by the next staleness check (`Stuck`)
  unless others put back a path of it while it was there, in which case all its paths are `meddled`
  (`Spoiled`) and nothing is claimed of them. `ForeignKept` needs `SeenInv` besides.
- `KeptIsClosed`: `KeptClosesItsFinding`, if no finding, repairable or not, has the rule and message of one
  that the session repairs (`MessagesDiffer`): then a count that
  declines is the finding's own (`CountIsOfOne`), so no plan of a batch is kept on another's merit.
  The hypothesis is needed: `fix_messages` refutes the property without it.

For every list of byte edits, and any bytes (`FixSessionProofs`, with no assumption):

- `NeighboursAreEnough`: `NeighboursDecide`, that comparing neighbours is enough. In a sorted list whose neighbours do
  not overlap, an edit that is no insertion ends before its neighbour starts, and so before everything after it
  (`NeighboursOfSorted`); the normalized list has the range of every edit once, only insertions sharing one
  (`CombinedFacts`, `OrderedFacts`, `NormalizedFacts`).
- `BatchesMergeInPairs`: so the edits of several repairs merge exactly when those of every two do. This is what lets
  `FixSession` take colliding repairs as pairs (`Overlaps`, `Compatible`).

For every set of families, capacity of the pipe, number of batches and kernel
(`KernelExchangeProofs`), assuming only `ExchangeAssumption`:

- `ExchangeInvariant`: the inductive invariant `Inv`. Batches are numbered, and `PipeInv` says that
  the pipe holds exactly those the kernel has written and the reader has not taken, in order, as long as the
  exchange lives; so an end of stream without an exception means that nothing is missing (`WholeInv`).
  `NativeInv` is why a failure of this release's kernel surfaces: its lines are all accepted, so the
  reader stops reading before it has exited only if the caller left.
- `OutcomesAreTrue` and `NoKernelIsLeft`: `OutcomeIsTrue` and `NoOrphan` from it.

For every finite set of rules, every table they read, every choice of contextual rules and every order
in which they are prepared (`RuleEngineProofs`), assuming only that each rule reads at least one table, which a
rule needs to have a primary family:

- `BatchesCorrect`: the batches of `RuleBatches` are components, by one induction over the loop. Its inductive
  invariant is the property itself with the types of the state. That nothing is linked across
  batches is what `connected` tests; that no batch can be split
  (`MergedIsNotSplittable`) needs the rule that was just placed as the bridge between the merged batches.
- `EngineImplementsBatches`: the loop over lists takes the steps of `RuleBatches`. `ListInv` says that a rule is prepared
  once, that two entries of the list are apart and that they hold the rules placed so far. An
  iteration filters the list and appends the merged batch, or puts it where its first part was (`Merged`, `First`).
- `EngineCorrect`: so `BatchesAreComponents` holds of the list itself, `EntriesAreApart` and
  `EntriesHoldAll` included.
- `TablesHaveOneBatch`: what the table session relies on, that no family and no model turn
  belongs to two batches.

For every set of providers, every declaration of owners and inputs, and every call
(`TableExecutionProofs`), assuming only that no two providers own the same family (refused when
the providers are loaded):

- `EvidenceInvariant`: the inductive invariant `EvidenceInv`. Besides the properties it says that a
  request is popped whole (`SelectedInv`), that whoever may be read, or was read, has its
  inputs (`ReadyInv`), and that what was supplied or is being read is exactly what the
  workers were asked for (`GivenInv`).
- `RingsDoNoWork`, `ErrorsAreTrue`, `SupplyIsWhole`: the three safety properties from it. A ring
  stays unread because each member's input is owned by another member and nobody supplies
  another's family; a missing input is owned by nobody because `Resolved` is closed under what is
  provided.

For every judgment, with any rules, providers, limits and failures (`TableExecutionProofs`):

- `ReportsAreFull`: `ReportIsFull`, with no hypothesis but the types of the constants.
- `JudgmentRunsTheEngine`: the judgment's first steps are the engine's and the others leave its
  list alone, so `BatchesAreComponents` holds of the list the judgment runs.
- `TurnsAreSingle`: `OneModelTurn`. A turn that was taken was taken by an
  entry that is behind (`TurnInv`), and a second contextual entry would be linked to it.
- `RulesAreJudged`: `EveryRuleJudgedOnce`. `JudgeInv` says that a rule was judged exactly if it is
  applicable in an entry that is behind; a rule in two entries would be linked to itself.
- `TablesAreTakenOnce`: `NoTableAskedTwice`, where providers own external families, or ones the kernel
  builds (`ProvidersOwnNoOther`). That is what providers are for ("Build the external fact
  families", `contracts/provider.py:11`), and every installation of the run is such; but the loader refuses only a second owner, so it is a
  hypothesis of the theorem. A provider that owned any other family would supply it beside the kernel.
  `HeldInv` says that a table the session no longer holds was materialized, or
  taken by this batch or one behind. `SuppliedIsNotNative` is the other half: a native family among the resolved ones is
  somebody's input (`ResolvedIsAskedOrInput`, from the leastness of `Resolved`), so it was
  materialized before and a provider that supplies it is refused. That refusal ends the run in
  "repository tables repeated" (`evidence.py:157`, the problem `evidence`), which the property does
  not exclude: see the behaviours below.

For every set of rules and candidates, all evidence, paths and limits, and any batch size and number of workers
(`ModelTurnsProofs`), assuming that sizes, workers and limits are at least one, that the rules are
numbered from one in the order of their list, and that weights are functions from sets of claims to the naturals:

- `PlanDividesCandidates`: every candidate is in exactly one request of a plan. The invariant is `Divides`: the packs
  are lists without repetition, not empty, disjoint, and together the candidates that were prepared.
  Components, directories and halves cut one pack into a division of it (`DividedFacts`, `SplitFacts`),
  a round does so to every pack at once (`RoundFacts`), a sort permutes packs (`DividesSorted`), and a bin that
  takes a unit takes all of it (`PlacedFacts`).
- `PlanWithinLimits`, `RefusedForOneCandidate`: a plan that is not refused has only requests within the limits by the
  tokenizer's count, and one is refused only if a candidate alone is over a limit. The argument is that
  bounding comes to an end (`Settled`): after round `n` a pack either fits, or has one candidate, or has at least
  `n` fewer than there were in all (`RoundFacts`; `Split` leaves both halves smaller), so after as many rounds as there are
  candidates the third case is empty (`BoundedFacts`). Packing then only joins what fits joined (`PackedFacts`).
- `PlansAreWithinLimits`: so `PlanFits` holds of every run.
- `TurnsInvariant`, `WorkersBoundTurns`: no more turns are in flight than there are workers,
  also while coroutines that were left behind run on.
- `OneRequestToTheUnavailable`: `UnavailableIsAskedOnce`. `AloneInv` says that until a pack has come back
  only the first can have been asked.
- `CandidatesAreAnswered`, `NoReportIsManufactured`: `EveryCandidateAnswered` and `NothingManufactured`, with no
  hypothesis on the planner. `KeptInv` says that the positions a rule is given by all turns are those of its
  candidates when sorted: of a grouped plan because it divides the candidates, of the batches
  of one rule because cutting a list every so many elements and joining the pieces gives it back
  (`CutsJoin`, `BatchesKeepCandidates`). `AssembledInv` says that answers are only returned when every coroutine is over.

For every set of rules, symbols, files and selections, any number of delays and pages of any size
(`PublicationProofs`), assuming only that a symbol has one rule and one file:

- `Invariance`: the inductive invariant `PublicationInv`: what each phase has written already
  (`ReportInv`, `ResolveInv`), that a read can only miss a verdict this run wrote (`LateInv`), that the
  open incidents were read before any decision on them (`RaiseInv`, `CloseInv`), what holds only if the
  assertions fit one page (`Within`) and only of the incidents that are not among the missed ones (`Known`), and that an
  incident's timeline has a past (`CatalogInv`), so that even a read that misses its last change finds it.
- `TypeCorrect`, `VerdictsAreComplete`, `QuietFilesAreClosed`, `IncidentsAreSingle`, `IncidentsEnd`,
  `SilenceIsNoResolution`, `RaisesAreTrue`: the types and the six checked properties.

Only model-checked:

- everything about liveness, and `ENABLED`;
- that the program of a file comes out as the reference revision (`AppliedInPlace`): what a fold from right to left computes
  is an induction over data; and that the instance's `Overlaps` are what the normalizer refuses.

## Findings

- `exchange_blocked`: `KernelExchange._failed_response` waits for the producer before the pipe
  is closed (`exchange.py:115`); a producer with more output than the pipe holds never exits.
  Only a kernel that breaks the protocol triggers it.
- `fix_messages`: `FixSession._improved` counts messages, so of two plans whose findings share
  rule and message one can be kept without having closed anything (`session.py:109`).
- `publication_resolves`: whether a history fails is decided per symbol, an incident is named by
  rule and file; with two symbols in a file a run resolves, as passing, an incident on a file it
  reports as failing (`incidents.py:153`). It is never the run that raised it: the incidents are read before
  `_raise` and the same ones are given to `_close` (`incidents.py:111-116`).

Behaviours that no run refutes a text with, but that a reader of the models will meet:

- A fix session can return normally with an unverified plan on disk. A batch of plan 1 on `a` and plan 3 on
  `b` is being judged; another program puts back the original `a`; the judgment does not improve, and
  `restore_changes` refuses, since `a` is not the revised text (`writer.py:49-51`); `retain` takes that
  for a conflict and retries plan 1 alone (`session.py:58-59`), whose file is the original one and passes; plan 1 is
  kept, and `b` carries plan 3, which is neither in `applied` nor in `refused`. The class says "retain only fixes
  their own rule verifies" (`session.py:23`), SYSTEM.md:477 "Safe application is transactional". `RestIsVerified`
  and `Transactional` except exactly such a batch, and its comment says so; every other interference is
  covered.
- Providers are ready as a whole. If `authors` of one provider needs `assets` of another, which needs
  `commits` of the first, the families could be built in order, but the run ends with a
  dependency cycle (`ErrorNamesTheCause` says there is one, between providers). A provider one of whose
  families needs another of its own is refused in the same way.
- A provider that owns a family the kernel builds supplies it a second time when another
  family needs it, and the run ends in "repository tables repeated" (outcome `repeated` of the providers,
  problem `evidence` of the run; one installation of `table_execution` ends so).
- Insertions at one offset are joined, identical ones are dropped, and "A" with "AB" becomes "AAB": nothing
  recognises that one contains the other (`Unique`, `Combined`).
- Once the first pack has succeeded, the exception of a later one leaves the other coroutines of
  `gather` behind; those still queued for the semaphore may send their requests until the run's
  event loop cancels them (`Raise`, `Ask`, `Cancel`).
- Two symbols of a file that begin to alternate in the same run raise two incidents under one title,
  where the documentation says "Its stable identity prevents duplicate incidents"
  (`incidents-and-contracts.md:12-13`). A later run keeps the first of a title and resolves that one; the other
  outlives the run (`missed`). `RaisedOnce` is about titles with one symbol.
- Past 50 assertions on a table, which only accumulate, a file that went quiet reads as failing for as long as its assertion is
  beyond the page, and an incident on it stays open (the condition of `QuietFilesClose` and
  `SettledIncidentsEnd`). Past 50 open incidents a run raises a duplicate (the condition of `RaisedOnce`).

## Not modelled

The frontends, the graph and clone algorithms and the rules compute over source text and tables
without shared state; their data is out of TLC's reach and the models take it as given. What a
judgment returns is a constant of the fix session. The enrichment of facts between the deferred
store and the delivery is left out: it changes a fact, never which facts there are. Reports,
structure, accounting and the command line format values. The buffered exchange is a single
`subprocess.run`. The subprocess runner is one process per call; `ModelTurns` takes its answer, its
failure and its timeout as outcomes of a turn. Dependency refresh sends independent requests under
one semaphore, writes one record per declaration and keeps nothing between runs.

Of the publication, the code graph, contracts, receipts, links and scores are upserts that repeat
what the catalog holds, the rulebook is a document merged from what is read, and assets of
other platforms are judged by their owners' assertions; these, and two publications at once, are
left out, which is why that component is modelled in part.

## Plan

1. `AppliedInPlace` for any program of edits.
2. The rulebook of the publication, whose read, merge and write race with another run's.
