-------------------------- MODULE MCKernelPipeline --------------------------
(***************************************************************************)
(* Instances of KernelPipeline: every request on one worker, and a few     *)
(* requests on all schedules of three workers.                               *)
(***************************************************************************)
EXTENDS KernelPipeline

\* Facts per document; a directory and a route belong to the repository.
SizesOf(perDocument) ==
    [f \in Families |-> [d \in 0..Docs |->
        IF d = 0 THEN IF f \in {Directory, Route} THEN 3 ELSE 0
        ELSE IF f \in {Directory, Route} THEN 0 ELSE perDocument[d]]]
TwoSizes == SizesOf(<<0, 3>>)
SevenSizes == SizesOf(<<1, 0, 2, 1, 0, 3, 1>>)

Request(k, s, r, t) == [kept |-> k, selected |-> s, requested |-> r, typed |-> t]

\* run keeps every requested family, run_stream streams it, run_session also collects
\* typed rows, and the table session has tables only.
RunRequests == {Request(r, {}, r, {}) : r \in SUBSET Families}
StreamRequests == {Request({}, {}, r, {}) : r \in SUBSET Families}
SessionRequests == {Request({}, {}, r, t) : r \in SUBSET (Specialized \cup {Directory}),
                                            t \in SUBSET Specialized}
TableRequests == {Request({}, s, {}, t) : s \in SUBSET (Families \ Specialized),
                                          t \in SUBSET Specialized}
MirrorRequests == {Request({}, s, r, {}) : s \in SUBSET {Module, Route, TestFunction},
                                           r \in SUBSET {Module, TestFunction}}
AllRequests == RunRequests \cup StreamRequests \cup SessionRequests \cup TableRequests
                 \cup MirrorRequests

FewRequests == {Request({}, {}, {Module, Call, Directory}, {}),
                Request({}, {Module, TestFunction}, {}, {Class, Call}),
                Request({Module, Syntax}, {}, {Module, Syntax}, {})}
=============================================================================
