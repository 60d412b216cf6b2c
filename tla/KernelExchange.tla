--------------------------- MODULE KernelExchange ---------------------------
(***************************************************************************)
(* One streamed exchange of mcmr/kernel: the kernel process writes a       *)
(* header, fact batches and a footer into its output pipe                  *)
(* (core/src/main.rs), KernelExchange reads and checks the lines, and      *)
(* KernelRuntime.Reader checks the families before the caller sees them.   *)
(* The caller may leave at any batch and the process may be killed at any  *)
(* time.                                                                   *)
(*                                                                         *)
(* KernelClient takes any binary, so a foreign kernel, which writes lines  *)
(* of any kind in any order, stands beside the kernel of this release.     *)
(***************************************************************************)
EXTENDS Naturals, Sequences, SequencesExt

CONSTANTS Family,     \* the requested families
          Other,      \* a family nobody asked for
          Capacity,   \* lines that fit the output pipe
          MaxLines,   \* bound on the batches a kernel writes
          Foreign     \* whether the kernel may be, or must be, another binary

ASSUME ExchangeAssumption ==
    /\ Other \notin Family
    /\ Capacity \in Nat \ {0} /\ MaxLines \in Nat
    /\ Foreign \subseteq BOOLEAN

VARIABLES foreign,     \* the binary is not of this release
          kernel,      \* "reading" the request, "writing" lines, or "exited"
          code,        \* its exit code: 0, 1, or 2 for a signal
          line,        \* the line it is writing
          wrote,       \* header and footer written so far
          written,     \* the batches it wrote (history)
          failed,      \* the analysis itself failed (history)
          pipe, open,  \* lines in the output pipe, and its reading end
          exchange,    \* where KernelExchange.read stands
          held,        \* the record handed to the Reader
          footer,      \* statistics is not None
          failure,     \* the exception on its way to the caller
          received,    \* the batches the caller was given
          outcome      \* what the caller is left with

kernelVars == <<kernel, code, line, wrote, written, failed>>
readerVars == <<exchange, held, footer, failure, received, outcome>>
vars == <<foreign, kernelVars, pipe, open, readerVars>>

Header == [kind |-> "header"]
Footer == [kind |-> "footer"]
BatchOf(f, n) == [kind |-> "batch", family |-> f, number |-> n]
Batches == {BatchOf(f, n) : f \in Family \cup {Other}, n \in 1..MaxLines}

\* Lines that are cut off when the kernel is killed: within the family, the facts, or the footer.
CutFamily == [kind |-> "cut family"]
CutFacts == [kind |-> "cut facts"]
CutFooter == [kind |-> "cut footer"]

\* Lines no release writes: a bad record, and a header of another protocol.
Junk == [kind |-> "junk"]
OldHeader == [kind |-> "old header"]
Nothing == [kind |-> "nothing"]

Line == Batches \cup {Header, Footer, CutFamily, CutFacts, CutFooter, Junk, OldHeader}
Outcomes == {"none", "complete", "left", "kernel failed", "protocol", "invalid"}

TypeOK ==
    /\ foreign \in Foreign
    /\ kernel \in {"reading", "writing", "exited"} /\ code \in 0..2
    /\ line \in Line \cup {Nothing}
    /\ wrote \subseteq {"header", "footer"}
    /\ written \in Seq(Batches) /\ failed \in BOOLEAN
    /\ pipe \in Seq(Line) /\ Len(pipe) <= Capacity /\ open \in BOOLEAN
    /\ exchange \in {"request", "header", "responses", "holding", "finish", "statistics",
                     "close", "stop", "ended"}
    /\ held \in Line /\ footer \in BOOLEAN
    /\ failure \in Outcomes \ {"none"} /\ outcome \in Outcomes
    /\ received \in Seq(Batches)

Init ==
    /\ foreign \in Foreign
    /\ kernel = "reading" /\ code = 0 /\ line = Nothing
    /\ wrote = {} /\ written = <<>> /\ failed = FALSE
    /\ pipe = <<>> /\ open = TRUE
    /\ exchange = "request" /\ held = Header /\ footer = FALSE
    /\ failure = "complete" /\ received = <<>> /\ outcome = "none"

-----------------------------------------------------------------------------
(* The kernel process.                                                     *)

ReadRequest ==
    /\ kernel = "reading"
    /\ exchange # "request" \/ foreign
    /\ kernel' = "writing"
    /\ UNCHANGED <<foreign, code, line, wrote, written, failed, pipe, open, readerVars>>

\* It starts on its next line, and is stuck on it until it is in the pipe.
Start(next) ==
    /\ kernel = "writing" /\ line = Nothing
    /\ line' = next
    /\ UNCHANGED <<foreign, kernel, code, wrote, written, failed, pipe, open, readerVars>>

StartHeader == "header" \notin wrote /\ Start(Header)

StartBatch ==
    /\ "header" \in wrote /\ "footer" \notin wrote
    /\ Len(written) < MaxLines
    /\ \E f \in Family : Start(BatchOf(f, Len(written) + 1))

Answered == {written[i].family : i \in DOMAIN written}

\* The delivery has answered for every requested family by then.
StartFooter ==
    /\ "header" \in wrote /\ "footer" \notin wrote
    /\ Family \subseteq Answered
    /\ Start(Footer)

\* Another binary writes what it likes.
StartForeign ==
    /\ foreign
    /\ \/ \E next \in {Junk, OldHeader, Header, Footer} : Start(next)
       \/ /\ Len(written) < MaxLines
          /\ \E f \in Family \cup {Other} : Start(BatchOf(f, Len(written) + 1))

\* A write blocks while the pipe is full.
PutLine ==
    /\ line # Nothing
    /\ open /\ Len(pipe) < Capacity
    /\ pipe' = Append(pipe, line) /\ line' = Nothing
    /\ wrote' = wrote \cup ({line.kind} \cap {"header", "footer"})
    /\ written' = IF line.kind = "batch" THEN Append(written, line) ELSE written
    /\ UNCHANGED <<foreign, kernel, code, failed, open, readerVars>>

Exit(status) ==
    /\ kernel' = "exited" /\ code' = status /\ line' = Nothing
    /\ UNCHANGED <<foreign, wrote, written, open, readerVars>>

ExitWell ==
    /\ kernel = "writing" /\ line = Nothing
    /\ "footer" \in wrote \/ foreign
    /\ Exit(0) /\ UNCHANGED <<failed, pipe>>

\* The request is invalid or the analysis returns an error.
ExitFailing ==
    /\ kernel = "writing" /\ line = Nothing
    /\ "footer" \notin wrote
    /\ Exit(1) /\ failed' = TRUE /\ UNCHANGED pipe

\* A write whose reader is gone fails.
ExitUnread ==
    /\ line # Nothing /\ ~open
    /\ Exit(1) /\ UNCHANGED <<failed, pipe>>

\* What may be in the pipe of a line that a signal cuts short.
Cut(l) == IF l.kind = "batch" THEN {CutFamily, CutFacts}
          ELSE IF l = Footer THEN {CutFooter} ELSE {}

\* A signal, between two lines or in the middle of one.
Killed ==
    /\ kernel # "exited"
    /\ Exit(2) /\ UNCHANGED failed
    /\ \/ UNCHANGED pipe
       \/ /\ line # Nothing /\ open /\ Len(pipe) < Capacity
          /\ \E part \in Cut(line) : pipe' = Append(pipe, part)

Kernel ==
    ReadRequest \/ StartHeader \/ StartBatch \/ StartFooter \/ StartForeign \/ PutLine
        \/ ExitWell \/ ExitFailing \/ ExitUnread

-----------------------------------------------------------------------------
(* KernelExchange.read.                                                    *)

Raise(why, where) == failure' = why /\ exchange' = where

Ready == pipe # <<>>
Drained == pipe = <<>> /\ kernel = "exited"
Take == pipe' = Tail(pipe)

\* _write, whose BrokenPipeError waits for the kernel's diagnostic.
WriteRequest ==
    /\ exchange = "request"
    /\ IF kernel = "exited" THEN Raise("protocol", "finish")
                            ELSE exchange' = "header" /\ UNCHANGED failure
    /\ UNCHANGED <<foreign, kernelVars, pipe, open, held, footer, received, outcome>>

ReadHeader ==
    /\ exchange = "header"
    /\ \/ /\ Ready /\ Take
          /\ IF Head(pipe) = Header THEN exchange' = "responses" /\ UNCHANGED failure
                                    ELSE Raise("protocol", "close")
       \/ Drained /\ Raise("protocol", "finish") /\ UNCHANGED pipe
    /\ UNCHANGED <<foreign, kernelVars, open, held, footer, received, outcome>>

Broken(l) == l.kind \in {"junk", "cut family", "header", "old header"}
IsBatch(l) == l.kind \in {"batch", "cut facts"}

ReadBatch ==
    /\ exchange = "responses"
    /\ Ready /\ Take /\ IsBatch(Head(pipe))
    /\ IF footer THEN Raise("protocol", "finish") /\ UNCHANGED held
                 ELSE exchange' = "holding" /\ held' = Head(pipe) /\ UNCHANGED failure
    /\ UNCHANGED <<foreign, kernelVars, open, footer, received, outcome>>

ReadFooter ==
    /\ exchange = "responses"
    /\ Ready /\ Take /\ Head(pipe) = Footer
    /\ IF footer THEN Raise("protocol", "finish") /\ UNCHANGED footer
                 ELSE footer' = TRUE /\ UNCHANGED <<exchange, failure>>
    /\ UNCHANGED <<foreign, kernelVars, open, held, received, outcome>>

\* A line that is no record, and a footer that is no statistics: a ValidationError passes
\* the handler of RuntimeError.
ReadBroken ==
    /\ exchange = "responses"
    /\ Ready /\ Take
    /\ \/ Broken(Head(pipe)) /\ Raise("protocol", "finish")
       \/ Head(pipe) = CutFooter /\ Raise("invalid", "close")
    /\ UNCHANGED <<foreign, kernelVars, open, held, footer, received, outcome>>

ReadEnd ==
    /\ exchange = "responses"
    /\ Drained
    /\ IF footer THEN exchange' = "finish" /\ UNCHANGED failure
                 ELSE Raise("protocol", "finish")
    /\ UNCHANGED <<foreign, kernelVars, pipe, open, held, footer, received, outcome>>

\* _finish: process.wait(), and the kernel's own failure before any other.
Finish ==
    /\ exchange = "finish"
    /\ kernel = "exited"
    /\ IF code # 0 THEN Raise("kernel failed", "close")
       ELSE exchange' = (IF failure # "complete" THEN "close" ELSE "statistics")
            /\ UNCHANGED failure
    /\ UNCHANGED <<foreign, kernelVars, pipe, open, held, footer, received, outcome>>

\* Reader.batch on the record the exchange yielded; a rejection closes the generator.
Accept ==
    /\ exchange = "holding"
    /\ IF held.kind = "cut facts" THEN Raise("invalid", "close") /\ UNCHANGED received
       ELSE IF held.family \notin Family THEN Raise("protocol", "close") /\ UNCHANGED received
       ELSE /\ received' = Append(received, held)
            /\ exchange' = "responses" /\ UNCHANGED failure
    /\ UNCHANGED <<foreign, kernelVars, pipe, open, held, footer, outcome>>

\* Bug form: the kernel a caller has left is waited for.
LeaveWaiting ==
    /\ exchange = "holding" /\ held.kind = "batch" /\ held.family \in Family
    /\ received' = Append(received, held)
    /\ Raise("left", "finish")
    /\ UNCHANGED <<foreign, kernelVars, pipe, open, held, footer, outcome>>

\* The caller closes the generator while it holds a batch.
Leave ==
    /\ exchange = "holding" /\ held.kind = "batch" /\ held.family \in Family
    /\ received' = Append(received, held)
    /\ Raise("left", "close")
    /\ UNCHANGED <<foreign, kernelVars, pipe, open, held, footer, outcome>>

\* Bug form: the footer is passed on without the families it must answer for.
CompleteUnseen ==
    /\ exchange = "statistics"
    /\ exchange' = "close" /\ UNCHANGED failure
    /\ UNCHANGED <<foreign, kernelVars, pipe, open, held, footer, received, outcome>>

\* Reader.footer.
Complete ==
    /\ exchange = "statistics"
    /\ IF Family \subseteq {received[i].family : i \in DOMAIN received}
       THEN exchange' = "close" /\ UNCHANGED failure
       ELSE Raise("protocol", "close")
    /\ UNCHANGED <<foreign, kernelVars, pipe, open, held, footer, received, outcome>>

\* _close drops the reading end of the pipe.
CloseOutput ==
    /\ exchange = "close"
    /\ open' = FALSE /\ pipe' = <<>>
    /\ exchange' = "stop"
    /\ UNCHANGED <<foreign, kernelVars, held, footer, failure, received, outcome>>

\* Bug form: a kernel that is still running is left alone.
StopNothing ==
    /\ exchange = "stop"
    /\ exchange' = "ended" /\ outcome' = failure
    /\ UNCHANGED <<foreign, kernelVars, pipe, open, held, footer, failure, received>>

\* _stop: terminate a kernel that still runs, and wait for it.
Stop ==
    /\ exchange = "stop"
    /\ kernel' = "exited"
    /\ code' = IF kernel = "exited" THEN code ELSE 2
    /\ line' = Nothing
    /\ exchange' = "ended" /\ outcome' = failure
    /\ UNCHANGED <<foreign, wrote, written, failed, pipe, open, held, footer, failure, received>>

Reader ==
    WriteRequest \/ ReadHeader \/ ReadBatch \/ ReadFooter \/ ReadBroken \/ ReadEnd \/ Finish
        \/ Accept \/ Complete \/ CloseOutput \/ Stop

Next == Kernel \/ Killed \/ Reader \/ Leave

Spec == Init /\ [][Next]_vars

\* Both processes run; nobody has to kill the kernel or leave.
FairSpec == Spec /\ WF_vars(Kernel) /\ WF_vars(Reader)

-----------------------------------------------------------------------------
(* Properties.                                                             *)

\* What the caller is told is complete is everything the kernel wrote, for every requested
\* family, by a kernel that ended well; and whatever happens, the caller has only ever been
\* given a beginning of it.
AnswerIsWhole ==
    /\ IsPrefix(received, written)
    /\ outcome = "complete" =>
          /\ received = written /\ code = 0
          /\ Family \subseteq {received[i].family : i \in DOMAIN received}

\* When the exchange is over, whoever ended it, the kernel process is too.
NoOrphan == outcome # "none" => kernel = "exited" /\ ~open

\* A kernel of this release that fails is reported as having failed, with its diagnostic,
\* unless the caller left first.
FailureSurfaces ==
    ~foreign /\ failed /\ outcome # "none" => outcome \in {"kernel failed", "left"}

\* An exchange reports what happened: success only of a whole answer, and every failure
\* of the analysis, even one after the reader has all families and the footer.
OutcomeIsTrue == AnswerIsWhole /\ FailureSurfaces

\* An exchange with a kernel of this release ends, whoever fails or leaves.
Ends == ~foreign => <>(outcome # "none")

\* "Closing a consumer releases a producer rather than leaving it blocked on its output
\* pipe": the exchange ends with any producer.
EndsAlways == <>(outcome # "none")
=============================================================================
