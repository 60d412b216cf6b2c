-------------------------- MODULE KernelExchangeProofs --------------------------
(***************************************************************************)
(* For every set of families, every capacity of the pipe, any number of    *)
(* batches and every kernel: an exchange that reports a complete answer    *)
(* gave the caller everything the kernel wrote, a failed analysis is       *)
(* reported as one, and no process outlives its exchange.                  *)
(***************************************************************************)
EXTENDS KernelExchange, SequenceTheorems, TLAPS

--------------------------------------------------------------------------------
(* The inductive invariant, in parts.                                      *)

Live == exchange \in {"request", "header", "responses", "holding"}

(* What the reader still follows of the kernel's batches: those it was     *)
(* given, and the one it holds.                                            *)
Got == Len(received) + IF exchange = "holding" /\ held.kind = "batch" THEN 1 ELSE 0

(* A kernel at work is not stuck before its request nor after its exit;    *)
(* what it counts is what it wrote.                                        *)
KernelInv ==
    /\ kernel # "writing" => line = Nothing
    /\ line.kind = "batch" => line.number = Len(written) + 1
    /\ \A n \in DOMAIN written : written[n].number = n
    /\ line.kind \notin {"cut family", "cut facts", "cut footer"}
    /\ failed => kernel = "exited" /\ code = 1

(* The batches in the pipe are the next ones in the kernel's order, and    *)
(* none between them and the caller is missing.                            *)
PipeInv ==
    /\ \A i \in DOMAIN pipe : pipe[i].kind = "batch" =>
          pipe[i].number \in Got + 1..Len(written) /\ pipe[i] = written[pipe[i].number]
    /\ \A i, j \in DOMAIN pipe :
          i < j /\ pipe[i].kind = "batch" /\ pipe[j].kind = "batch"
              => pipe[i].number < pipe[j].number
    /\ \A n \in Got + 1..Len(written) : \E i \in DOMAIN pipe : pipe[i] = written[n]

(* What the caller has is a beginning of what the kernel wrote.            *)
GivenInv ==
    /\ Len(received) <= Len(written)
    /\ \A i \in DOMAIN received : received[i] = written[i]
    /\ exchange = "holding" /\ held.kind = "batch" =>
          Len(received) < Len(written) /\ held = written[Len(received) + 1]
    /\ exchange = "holding" => IsBatch(held)

(* No exception has been raised before the reading ends.                   *)
LiveInv == Live => failure = "complete" /\ PipeInv

(* How an exchange ends.                                                   *)
EndInv ==
    /\ open <=> exchange \notin {"stop", "ended"}
    /\ outcome = IF exchange = "ended" THEN failure ELSE "none"
    /\ exchange = "ended" => kernel = "exited"

(* Without an exception, the reading ends with all that was written.       *)
WholeInv ==
    /\ exchange \in {"finish", "statistics", "close", "stop", "ended"} /\ failure = "complete" =>
          kernel = "exited" /\ received = written
    /\ exchange \in {"statistics", "close", "stop", "ended"} /\ failure = "complete" => code = 0
    /\ exchange = "statistics" => failure = "complete"
    /\ exchange \in {"close", "stop", "ended"} /\ failure = "complete" =>
          Family \subseteq {received[i].family : i \in DOMAIN received}

(* Lines that are cut short come from a signal.                            *)
CutLine(l) == l.kind \in {"cut family", "cut facts", "cut footer"}
CutInv ==
    /\ \A i \in DOMAIN pipe : CutLine(pipe[i]) => kernel = "exited" /\ code = 2
    /\ exchange = "holding" /\ CutLine(held) => kernel = "exited" /\ code = 2

(* What a kernel of this release writes, and why the reader never stops    *)
(* reading one before it has exited.                                       *)
NativeInv ==
    ~foreign =>
        /\ line.kind = "batch" => line.family \in Family
        /\ \A i \in DOMAIN pipe : pipe[i].kind = "batch" => pipe[i].family \in Family
        /\ exchange = "holding" /\ held.kind = "batch" => held.family \in Family
        /\ kernel = "reading" => "header" \notin wrote
        /\ "header" \notin wrote => line \in {Nothing, Header}
        /\ exchange \in {"request", "header"} =>
              /\ "header" \in wrote => pipe # <<>> /\ pipe[1] = Header
              /\ "header" \notin wrote => pipe = <<>>
        /\ exchange \in {"close", "stop", "ended"} =>
              failure \in {"left", "kernel failed"} \/ (kernel = "exited" /\ ~failed)

Inv ==
    /\ TypeOK /\ KernelInv /\ GivenInv /\ LiveInv /\ EndInv
    /\ WholeInv /\ CutInv /\ NativeInv

--------------------------------------------------------------------------------
(* What tells the lines apart.                                             *)
LEMMA BatchKind ==
    \A l \in Batches : l.kind = "batch" /\ l.number \in Nat /\ l.family \in Family \cup {Other}
<1> TAKE l \in Batches
<1>1. PICK f \in Family \cup {Other}, n \in 1..MaxLines : l = BatchOf(f, n)
    BY DEF Batches
<1>2. n \in Nat
    BY ExchangeAssumption
<1> QED BY <1>1, <1>2 DEF BatchOf

LEMMA BatchKinds ==
    \A f, n : BatchOf(f, n).kind = "batch" /\ BatchOf(f, n).number = n /\ BatchOf(f, n).family = f
BY DEF BatchOf

LEMMA OtherKinds ==
    /\ Header.kind = "header" /\ Footer.kind = "footer" /\ Junk.kind = "junk"
    /\ OldHeader.kind = "old header" /\ Nothing.kind = "nothing"
    /\ CutFamily.kind = "cut family" /\ CutFacts.kind = "cut facts" /\ CutFooter.kind = "cut footer"
BY DEF Header, Footer, CutFamily, CutFacts, CutFooter, Junk, OldHeader, Nothing

LEMMA LineKind ==
    \A l \in Line : \/ l.kind = "batch" /\ l \in Batches
                    \/ l.kind = "header" /\ l = Header
                    \/ l.kind = "footer" /\ l = Footer
                    \/ l.kind = "cut family" /\ l = CutFamily
                    \/ l.kind = "cut facts" /\ l = CutFacts
                    \/ l.kind = "cut footer" /\ l = CutFooter
                    \/ l.kind = "junk" /\ l = Junk
                    \/ l.kind = "old header" /\ l = OldHeader
BY BatchKind, OtherKinds DEF Line

LEMMA Lines ==
    /\ {Header, Footer, CutFamily, CutFacts, CutFooter, Junk, OldHeader} \subseteq Line
    /\ Batches \subseteq Line
    /\ \A f \in Family \cup {Other}, n \in 1..MaxLines : BatchOf(f, n) \in Batches
BY DEF Line, Batches

LEMMA Outcome == {"complete", "left", "kernel failed", "protocol", "invalid"} = Outcomes \ {"none"}
BY DEF Outcomes

(* A line taken from the pipe, and one put into it.                        *)
LEMMA Taken ==
    ASSUME TypeOK, Ready, Take
    PROVE  /\ Len(pipe) \in Nat \ {0} /\ DOMAIN pipe = 1..Len(pipe)
           /\ Head(pipe) \in Line /\ Head(pipe) = pipe[1]
           /\ pipe' \in Seq(Line) /\ Len(pipe') = Len(pipe) - 1
           /\ DOMAIN pipe' = 1..Len(pipe) - 1
           /\ \A i \in 1..Len(pipe) - 1 : pipe'[i] = pipe[i + 1]
BY HeadTailProperties, LenProperties DEF TypeOK, Ready, Take

LEMMA Appended ==
    ASSUME NEW S, NEW s \in Seq(S), NEW e \in S
    PROVE  /\ Append(s, e) \in Seq(S)
           /\ Len(s) \in Nat /\ DOMAIN s = 1..Len(s)
           /\ Len(Append(s, e)) = Len(s) + 1
           /\ DOMAIN Append(s, e) = 1..Len(s) + 1
           /\ \A i \in 1..Len(s) : Append(s, e)[i] = s[i]
           /\ Append(s, e)[Len(s) + 1] = e
BY LenProperties

--------------------------------------------------------------------------------
LEMMA InitInv == Init => Inv
<1> SUFFICES ASSUME Init PROVE Inv
    OBVIOUS
<1>1. /\ failed \in BOOLEAN /\ ~failed /\ open \in BOOLEAN /\ open
      /\ footer \in BOOLEAN /\ foreign \in Foreign
    BY DEF Init
<1>2. /\ kernel = "reading" /\ code = 0 /\ line = Nothing /\ wrote = {} /\ written = <<>>
      /\ pipe = <<>> /\ exchange = "request" /\ held = Header
      /\ failure = "complete" /\ received = <<>> /\ outcome = "none"
    BY DEF Init
<1> HIDE DEF Init
<1>3. TypeOK
    <2>1. <<>> \in Seq(Line) /\ <<>> \in Seq(Batches) /\ Len(<<>>) = 0
        BY EmptySeq
    <2>2. "complete" \in Outcomes /\ "none" \in Outcomes
        BY DEF Outcomes
    <2>3. failure \in Outcomes \ {"none"} /\ outcome \in Outcomes
        BY <1>2, <2>2, Outcome
    <2>4. pipe \in Seq(Line) /\ Len(pipe) <= Capacity /\ written \in Seq(Batches)
        BY <1>2, <2>1, ExchangeAssumption
    <2>5. received \in Seq(Batches) /\ held \in Line /\ line \in Line \cup {Nothing}
        BY <1>2, <2>1, Lines
    <2> QED BY <1>1, <1>2, <2>3, <2>4, <2>5 DEF TypeOK
<1>4. KernelInv
    <2>1. DOMAIN written = {}
        BY <1>2
    <2> QED BY <1>1, <1>2, <2>1, OtherKinds DEF KernelInv
<1>5. CutInv
    BY <1>1, <1>2 DEF CutInv
<1>7. WholeInv
    BY <1>1, <1>2 DEF WholeInv
<1>8. NativeInv
    <2>1. line.kind # "batch"
        BY <1>2, OtherKinds
    <2>2. DOMAIN pipe = {}
        BY <1>2
    <2>3. "header" \notin wrote
        BY <1>2
    <2> QED BY <1>2, <2>1, <2>2, <2>3 DEF NativeInv
<1>9. GivenInv
    BY <1>1, <1>2 DEF GivenInv
<1>6. LiveInv
    BY <1>1, <1>2 DEF LiveInv, PipeInv, Live, Got
<1>10. EndInv
    BY <1>1, <1>2 DEF EndInv
<1> QED BY <1>3, <1>4, <1>5, <1>6, <1>7, <1>8, <1>9, <1>10 DEF Inv

(* Types.                                                                  *)
LEMMA TypeNext == TypeOK /\ GivenInv /\ [Next]_vars => TypeOK'
<1> SUFFICES ASSUME TypeOK, GivenInv, [Next]_vars PROVE TypeOK'
    OBVIOUS
<1> USE DEF kernelVars, readerVars
<1>1. CASE Kernel
    <2>1. CASE ReadRequest
        BY <2>1 DEF TypeOK, ReadRequest
    <2>2. ASSUME NEW next \in Line, Start(next) PROVE TypeOK'
        BY <2>2 DEF TypeOK, Start
    <2>3. Len(written) \in Nat
        BY LenProperties DEF TypeOK
    <2>4. CASE StartHeader \/ StartFooter
        BY <2>2, <2>4, Lines DEF StartHeader, StartFooter
    <2>5. CASE StartBatch
        <3>1. PICK f \in Family : Start(BatchOf(f, Len(written) + 1)) /\ Len(written) < MaxLines
            BY <2>5 DEF StartBatch
        <3>2. BatchOf(f, Len(written) + 1) \in Line
            BY <2>3, <3>1, Lines, ExchangeAssumption
        <3> QED BY <2>2, <3>1, <3>2
    <2>6. CASE StartForeign
        <3>1. CASE \E next \in {Junk, OldHeader, Header, Footer} : Start(next)
            BY <2>2, <3>1, Lines
        <3>2. ASSUME NEW f \in Family \cup {Other}, Start(BatchOf(f, Len(written) + 1)),
                     Len(written) < MaxLines
              PROVE  TypeOK'
            <4>1. BatchOf(f, Len(written) + 1) \in Line
                BY <2>3, <3>2, Lines, ExchangeAssumption
            <4> QED BY <2>2, <3>2, <4>1
        <3> QED BY <2>6, <3>1, <3>2 DEF StartForeign
    <2>7. CASE PutLine
        <3>1. line \in Line
            BY <2>7 DEF TypeOK, PutLine
        <3>2. pipe' \in Seq(Line) /\ Len(pipe') <= Capacity
            BY <2>7, <3>1, Appended, ExchangeAssumption DEF TypeOK, PutLine
        <3>3. written' \in Seq(Batches)
            <4>1. CASE line.kind = "batch"
                <5>1. line \in Batches
                    BY <3>1, <4>1, LineKind
                <5> QED BY <2>7, <4>1, <5>1, Appended DEF TypeOK, PutLine
            <4>2. CASE line.kind # "batch"
                BY <2>7, <4>2 DEF TypeOK, PutLine
            <4> QED BY <4>1, <4>2
        <3>4. wrote' \subseteq {"header", "footer"}
            BY <2>7 DEF TypeOK, PutLine
        <3> QED BY <2>7, <3>2, <3>3, <3>4 DEF TypeOK, PutLine
    <2>8. CASE ExitWell \/ ExitUnread
        <3>1. /\ kernel' = "exited" /\ code' \in 0..2 /\ line' = Nothing
              /\ UNCHANGED <<foreign, wrote, written, open, failed, pipe, readerVars>>
            BY <2>8 DEF ExitWell, ExitUnread, Exit
        <3> QED BY <3>1 DEF TypeOK
    <2>9. CASE ExitFailing
        <3>1. failed' \in BOOLEAN
            BY <2>9 DEF ExitFailing
        <3> QED BY <2>9, <3>1 DEF TypeOK, ExitFailing, Exit
    <2> QED BY <1>1, <2>1, <2>4, <2>5, <2>6, <2>7, <2>8, <2>9 DEF Kernel
<1>2. CASE Killed
    <2>1. pipe' \in Seq(Line) /\ Len(pipe') <= Capacity
        <3>1. CASE UNCHANGED pipe
            BY <3>1 DEF TypeOK
        <3>2. ASSUME NEW part \in Cut(line), Len(pipe) < Capacity, pipe' = Append(pipe, part)
              PROVE  pipe' \in Seq(Line) /\ Len(pipe') <= Capacity
            <4>1. part \in Line
                BY Lines DEF Cut
            <4> QED BY <3>2, <4>1, Appended, ExchangeAssumption DEF TypeOK
        <3> QED BY <1>2, <3>1, <3>2 DEF Killed
    <2> QED BY <1>2, <2>1 DEF TypeOK, Killed, Exit
<1>3. CASE Reader
    <2>1. CASE WriteRequest \/ ReadEnd \/ Finish \/ Complete
        BY <2>1, Outcome DEF TypeOK, WriteRequest, ReadEnd, Finish, Complete, Raise
    <2>2. CASE ReadHeader \/ ReadBatch \/ ReadFooter \/ ReadBroken
        <3>1. pipe' \in Seq(Line) /\ Len(pipe') <= Capacity
            <4>1. CASE Ready /\ Take
                BY <4>1, Taken, ExchangeAssumption DEF TypeOK
            <4>2. CASE UNCHANGED pipe
                BY <4>2 DEF TypeOK
            <4> QED BY <2>2, <4>1, <4>2 DEF ReadHeader, ReadBatch, ReadFooter, ReadBroken
        <3>2. held' \in Line
            BY <2>2, Taken DEF TypeOK, ReadHeader, ReadBatch, ReadFooter, ReadBroken
        <3> QED BY <2>2, <3>1, <3>2, Outcome
                DEF TypeOK, ReadHeader, ReadBatch, ReadFooter, ReadBroken, Raise
    <2>3. CASE Accept
        <3>1. received' \in Seq(Batches)
            <4>1. CASE received' = received
                BY <4>1 DEF TypeOK
            <4>2. CASE held.kind # "cut facts" /\ received' = Append(received, held)
                <5>1. held \in Batches
                    BY <4>2, <2>3, LineKind DEF TypeOK, GivenInv, IsBatch, Accept
                <5> QED BY <4>2, <5>1, Appended DEF TypeOK
            <4> QED BY <2>3, <4>1, <4>2 DEF Accept
        <3> QED BY <2>3, <3>1, Outcome DEF TypeOK, Accept, Raise
    <2>4. CASE CloseOutput
        <3>1. <<>> \in Seq(Line) /\ Len(<<>>) = 0
            BY EmptySeq
        <3>2. open' \in BOOLEAN
            BY <2>4 DEF CloseOutput
        <3> QED BY <2>4, <3>1, <3>2, ExchangeAssumption DEF TypeOK, CloseOutput
    <2>5. CASE Stop
        BY <2>5 DEF TypeOK, Stop
    <2> QED BY <1>3, <2>1, <2>2, <2>3, <2>4, <2>5 DEF Reader
<1>4. CASE Leave
    <2>1. held \in Batches
        BY <1>4, LineKind DEF TypeOK, Leave
    <2>2. received' \in Seq(Batches)
        BY <1>4, <2>1, Appended DEF TypeOK, Leave
    <2> QED BY <1>4, <2>2, Outcome DEF TypeOK, Leave, Raise
<1>5. CASE UNCHANGED vars
    BY <1>5 DEF TypeOK, vars
<1> QED BY <1>1, <1>2, <1>3, <1>4, <1>5 DEF Next

--------------------------------------------------------------------------------
(* What each side leaves alone.                                            *)
LEMMA ReaderFrame ==
    ASSUME Reader \/ Leave
    PROVE  /\ UNCHANGED <<foreign, wrote, written, failed>>
           /\ ~Stop => UNCHANGED <<kernel, code, line>>
BY DEF Reader, WriteRequest, ReadHeader, ReadBatch, ReadFooter, ReadBroken, ReadEnd, Finish, Accept,
       Complete, CloseOutput, Stop, Leave, kernelVars

LEMMA KernelFrame ==
    ASSUME Kernel \/ Killed
    PROVE  UNCHANGED <<foreign, open, readerVars>>
BY DEF Kernel, ReadRequest, StartHeader, StartBatch, StartFooter, StartForeign, Start, PutLine,
       ExitWell, ExitFailing, ExitUnread, Killed, Exit

(* The lines a kernel can start.                                           *)
LEMMA Started ==
    ASSUME StartHeader \/ StartBatch \/ StartFooter \/ StartForeign
    PROVE  \E next : /\ Start(next)
                     /\ \/ next \in {Junk, OldHeader, Header, Footer}
                        \/ \E f \in Family \cup {Other} : next = BatchOf(f, Len(written) + 1)
                     /\ \/ foreign
                        \/ next = Header
                        \/ next = Footer /\ "header" \in wrote
                        \/ /\ "header" \in wrote
                           /\ \E f \in Family : next = BatchOf(f, Len(written) + 1)
<1>1. CASE StartHeader
    BY <1>1 DEF StartHeader
<1>2. CASE StartBatch
    BY <1>2 DEF StartBatch
<1>3. CASE StartFooter
    BY <1>3 DEF StartFooter
<1>4. CASE StartForeign
    BY <1>4 DEF StartForeign
<1> QED BY <1>1, <1>2, <1>3, <1>4

(* Of this kernel: its line is numbered, and an exit is final.             *)
LEMMA KernelNext == Inv /\ [Next]_vars => KernelInv'
<1> SUFFICES ASSUME Inv, [Next]_vars PROVE KernelInv'
    OBVIOUS
<1> USE DEF Inv, kernelVars, readerVars
<1>1. CASE ReadRequest
    BY <1>1 DEF KernelInv, ReadRequest
<1>7. CASE ExitWell \/ ExitUnread \/ Killed
    <2>1. /\ kernel # "exited" /\ kernel' = "exited" /\ line' = Nothing
          /\ UNCHANGED <<written, failed>>
        BY <1>7 DEF KernelInv, ExitWell, ExitUnread, Killed, Exit
    <2> QED BY <2>1, OtherKinds DEF KernelInv
<1>2. CASE ExitFailing
    BY <1>2, OtherKinds DEF KernelInv, ExitFailing, Exit
<1>3. CASE StartHeader \/ StartBatch \/ StartFooter \/ StartForeign
    <2>1. PICK next : /\ Start(next)
                      /\ \/ next \in {Junk, OldHeader, Header, Footer}
                         \/ \E f \in Family \cup {Other} : next = BatchOf(f, Len(written) + 1)
        BY <1>3, Started
    <2>2. /\ next.kind = "batch" => next.number = Len(written) + 1
          /\ next.kind \notin {"cut family", "cut facts", "cut footer"}
        <3>1. CASE next \in {Junk, OldHeader, Header, Footer}
            BY <3>1, OtherKinds
        <3>2. CASE \E f \in Family \cup {Other} : next = BatchOf(f, Len(written) + 1)
            <4>1. PICK f : next = BatchOf(f, Len(written) + 1)
                BY <3>2
            <4>2. next.kind = "batch" /\ next.number = Len(written) + 1
                BY <4>1, BatchKinds
            <4> QED BY <4>2
        <3> QED BY <2>1, <3>1, <3>2
    <2> QED BY <2>1, <2>2 DEF KernelInv, Start
<1>4. CASE PutLine
    <2>1. line \in Line
        BY <1>4 DEF PutLine, TypeOK
    <2>2. \A n \in DOMAIN written' : written'[n].number = n
        <3>1. CASE line.kind = "batch"
            <4>1. line \in Batches /\ line.number = Len(written) + 1
                BY <2>1, <3>1, LineKind DEF KernelInv
            <4>2. written' = Append(written, line)
                BY <1>4, <3>1 DEF PutLine
            <4>3. /\ DOMAIN written = 1..Len(written) /\ DOMAIN written' = 1..Len(written) + 1
                  /\ \A n \in 1..Len(written) : written'[n] = written[n]
                  /\ written'[Len(written) + 1] = line /\ Len(written) \in Nat
                BY <4>1, <4>2, Appended DEF TypeOK
            <4>4. \A n \in 1..Len(written) : written[n].number = n
                BY <4>3 DEF KernelInv
            <4> QED BY <4>1, <4>3, <4>4
        <3>2. CASE line.kind # "batch"
            BY <1>4, <3>2 DEF PutLine, KernelInv
        <3> QED BY <3>1, <3>2
    <2>3. kernel = "writing" /\ line' = Nothing /\ UNCHANGED <<kernel, failed>>
        BY <1>4 DEF PutLine, KernelInv
    <2> QED BY <2>2, <2>3, OtherKinds DEF KernelInv
<1>5. CASE Reader \/ Leave
    <2>1. CASE Stop
        BY <2>1, OtherKinds DEF KernelInv, Stop
    <2>2. CASE ~Stop
        <3>1. UNCHANGED <<kernel, code, line, written, failed>>
            BY <1>5, <2>2, ReaderFrame
        <3> QED BY <3>1 DEF KernelInv
    <2> QED BY <2>1, <2>2
<1>6. CASE UNCHANGED vars
    BY <1>6 DEF KernelInv, vars
<1> QED BY <1>1, <1>2, <1>3, <1>4, <1>5, <1>6, <1>7 DEF Next, Kernel

(* Cut lines are only written by a signal, and the reader adds none.       *)
LEMMA CutNext == Inv /\ [Next]_vars => CutInv'
<1> SUFFICES ASSUME Inv, [Next]_vars PROVE CutInv'
    OBVIOUS
<1> USE DEF Inv, kernelVars, readerVars
<1>1. CASE ReadRequest \/ ExitWell \/ ExitFailing
    BY <1>1 DEF CutInv, ReadRequest, ExitWell, ExitFailing, Exit
<1>2. CASE ExitUnread
    <2>1. kernel # "exited"
        BY <1>2 DEF ExitUnread, KernelInv
    <2> QED BY <1>2, <2>1 DEF CutInv, ExitUnread, Exit
<1>3. CASE StartHeader \/ StartBatch \/ StartFooter \/ StartForeign
    BY <1>3, Started DEF CutInv, Start
<1>4. CASE PutLine
    <2>1. line \in Line /\ ~CutLine(line)
        BY <1>4 DEF PutLine, TypeOK, KernelInv, CutLine
    <2>2. \A i \in DOMAIN pipe' : (i \in DOMAIN pipe /\ pipe'[i] = pipe[i]) \/ pipe'[i] = line
        BY <1>4, <2>1, Appended DEF PutLine, TypeOK
    <2> QED BY <1>4, <2>1, <2>2 DEF CutInv, PutLine
<1>5. CASE Killed
    <2>1. kernel # "exited" /\ kernel' = "exited" /\ code' = 2
        BY <1>5 DEF Killed, Exit
    <2> QED BY <1>5, <2>1, KernelFrame DEF CutInv
<1>6. CASE ReadHeader \/ ReadBatch \/ ReadFooter \/ ReadBroken
    <2>1. UNCHANGED <<kernel, code>>
        BY <1>6 DEF ReadHeader, ReadBatch, ReadFooter, ReadBroken
    <2>2. CASE Ready /\ Take
        <3>1. \A i \in DOMAIN pipe' : i + 1 \in DOMAIN pipe /\ pipe'[i] = pipe[i + 1]
            BY <2>2, Taken
        <3>2. exchange' = "holding" => held' = pipe[1] /\ 1 \in DOMAIN pipe
            BY <1>6, <2>2, Taken DEF ReadHeader, ReadBatch, ReadFooter, ReadBroken, Raise
        <3> QED BY <2>1, <3>1, <3>2 DEF CutInv
    <2>3. CASE UNCHANGED pipe /\ exchange' # "holding"
        BY <2>1, <2>3 DEF CutInv
    <2> QED BY <1>6, <2>2, <2>3 DEF ReadHeader, ReadBatch, ReadFooter, ReadBroken, Raise
<1>7. CASE WriteRequest \/ ReadEnd \/ Finish \/ Accept \/ Complete \/ Leave
    <2>1. UNCHANGED <<kernel, code, pipe>> /\ exchange' # "holding"
        BY <1>7 DEF WriteRequest, ReadEnd, Finish, Accept, Complete, Leave, Raise
    <2> QED BY <2>1 DEF CutInv
<1>8. CASE CloseOutput
    <2>1. DOMAIN pipe' = {} /\ exchange' # "holding"
        BY <1>8 DEF CloseOutput
    <2> QED BY <2>1 DEF CutInv
<1>9. CASE Stop
    BY <1>9 DEF CutInv, Stop
<1>10. CASE UNCHANGED vars
    BY <1>10 DEF CutInv, vars
<1> QED BY <1>1, <1>2, <1>3, <1>4, <1>5, <1>6, <1>7, <1>8, <1>9, <1>10 DEF Next, Kernel, Reader

(* The exchange ends with the pipe closed and the kernel waited for.       *)
LEMMA EndNext == Inv /\ [Next]_vars => EndInv'
<1> SUFFICES ASSUME Inv, [Next]_vars PROVE EndInv'
    OBVIOUS
<1> USE DEF Inv, kernelVars, readerVars
<1>1. CASE Kernel \/ Killed
    <2>1. kernel = "exited" => kernel' = "exited"
        BY <1>1 DEF KernelInv, Kernel, ReadRequest, StartHeader, StartBatch, StartFooter, StartForeign,
                    Start, PutLine, ExitWell, ExitFailing, ExitUnread, Killed, Exit
    <2> QED BY <1>1, <2>1, KernelFrame DEF EndInv
<1>2. CASE Reader \/ Leave
    <2>1. CASE CloseOutput
        BY <2>1 DEF EndInv, CloseOutput
    <2>2. CASE Stop
        BY <2>2 DEF EndInv, Stop
    <2>3. CASE ~CloseOutput /\ ~Stop
        <3>1. exchange \notin {"stop", "ended"} /\ exchange' \notin {"stop", "ended"}
              /\ UNCHANGED <<open, outcome>>
            BY <1>2, <2>3 DEF Reader, WriteRequest, ReadHeader, ReadBatch, ReadFooter, ReadBroken,
                              ReadEnd, Finish, Accept, Complete, Leave, Raise
        <3> QED BY <3>1 DEF EndInv
    <2> QED BY <2>1, <2>2, <2>3
<1>3. CASE UNCHANGED vars
    BY <1>3 DEF EndInv, vars
<1> QED BY <1>1, <1>2, <1>3 DEF Next

--------------------------------------------------------------------------------
(* The batches on their way.                                               *)
LEMMA GotInWritten == TypeOK /\ GivenInv => Got \in Nat /\ Got <= Len(written)
<1> SUFFICES ASSUME TypeOK, GivenInv PROVE Got \in Nat /\ Got <= Len(written)
    OBVIOUS
<1>1. Len(received) \in Nat /\ Len(written) \in Nat
    BY LenProperties DEF TypeOK
<1> QED BY <1>1 DEF GivenInv, Got

LEMMA WrittenKinds == TypeOK =>
    Len(written) \in Nat /\ \A n \in 1..Len(written) : written[n] \in Batches /\ written[n].kind = "batch"
BY BatchKind, LenProperties, ElementOfSeq DEF TypeOK

LEMMA PipeSame == ASSUME PipeInv, UNCHANGED <<pipe, written>>, Got' = Got PROVE PipeInv'
BY DEF PipeInv

(* The first batch in the pipe is the next one.                            *)
LEMMA HeadIsNext ==
    ASSUME TypeOK, KernelInv, GivenInv, PipeInv, Ready, Head(pipe).kind = "batch"
    PROVE  Got < Len(written) /\ Head(pipe) = written[Got + 1]
<1>1. Len(pipe) \in Nat \ {0} /\ DOMAIN pipe = 1..Len(pipe) /\ Head(pipe) = pipe[1]
    BY LenProperties DEF TypeOK, Ready
<1>2. Got \in Nat /\ Len(written) \in Nat
    BY GotInWritten, WrittenKinds
<1>3. pipe[1].number \in Got + 1..Len(written) /\ pipe[1] = written[pipe[1].number]
    BY <1>1 DEF PipeInv
<1>4. Got + 1 \in 1..Len(written)
    BY <1>2, <1>3
<1>5. PICK i \in DOMAIN pipe : pipe[i] = written[Got + 1]
    BY <1>2, <1>4 DEF PipeInv
<1>6. pipe[i].kind = "batch" /\ pipe[i].number = Got + 1
    BY <1>4, <1>5, WrittenKinds, LenProperties DEF KernelInv, TypeOK
<1>7. ~(1 < i)
    BY <1>1, <1>2, <1>3, <1>6 DEF PipeInv
<1>8. i = 1
    BY <1>1, <1>7
<1> QED BY <1>1, <1>2, <1>4, <1>5, <1>8

LEMMA PipeTaken ==
    ASSUME TypeOK, KernelInv, GivenInv, PipeInv, Ready, Take, UNCHANGED written,
           Got' = IF Head(pipe).kind = "batch" THEN Got + 1 ELSE Got
    PROVE  PipeInv'
<1>1. /\ Len(pipe) \in Nat \ {0} /\ DOMAIN pipe = 1..Len(pipe) /\ Head(pipe) = pipe[1]
      /\ DOMAIN pipe' = 1..Len(pipe) - 1
      /\ \A i \in 1..Len(pipe) - 1 : pipe'[i] = pipe[i + 1]
    BY Taken
<1>2. Got \in Nat /\ Len(written) \in Nat
    BY GotInWritten, WrittenKinds
<1>3. pipe[1].kind = "batch" => Got < Len(written) /\ pipe[1] = written[Got + 1] /\ pipe[1].number = Got + 1
    <2> SUFFICES ASSUME pipe[1].kind = "batch"
                 PROVE  Got < Len(written) /\ pipe[1] = written[Got + 1] /\ pipe[1].number = Got + 1
        OBVIOUS
    <2>1. Got < Len(written) /\ pipe[1] = written[Got + 1]
        BY <1>1, HeadIsNext
    <2>2. Got + 1 \in DOMAIN written
        BY <1>2, <2>1, LenProperties DEF TypeOK
    <2> QED BY <2>1, <2>2 DEF KernelInv
<1>4. \A i \in DOMAIN pipe' : pipe'[i].kind = "batch" =>
          pipe'[i].number \in Got' + 1..Len(written) /\ pipe'[i] = written[pipe'[i].number]
    <2> SUFFICES ASSUME NEW i \in 1..Len(pipe) - 1, pipe[i + 1].kind = "batch"
                 PROVE  /\ pipe[i + 1].number \in Got' + 1..Len(written)
                        /\ pipe[i + 1] = written[pipe[i + 1].number]
        BY <1>1
    <2>1. i + 1 \in DOMAIN pipe /\ 1 \in DOMAIN pipe /\ 1 < i + 1
        BY <1>1
    <2>2. /\ pipe[i + 1].number \in Got + 1..Len(written)
          /\ pipe[i + 1] = written[pipe[i + 1].number]
        BY <2>1 DEF PipeInv
    <2>3. pipe[1].kind = "batch" => pipe[1].number < pipe[i + 1].number
        BY <2>1 DEF PipeInv
    <2> QED BY <1>1, <1>2, <1>3, <2>2, <2>3
<1>5. \A i, j \in DOMAIN pipe' :
          i < j /\ pipe'[i].kind = "batch" /\ pipe'[j].kind = "batch" => pipe'[i].number < pipe'[j].number
    <2> SUFFICES ASSUME NEW i \in DOMAIN pipe', NEW j \in DOMAIN pipe', i < j,
                        pipe'[i].kind = "batch", pipe'[j].kind = "batch"
                 PROVE  pipe'[i].number < pipe'[j].number
        OBVIOUS
    <2>1. /\ i + 1 \in DOMAIN pipe /\ j + 1 \in DOMAIN pipe /\ i + 1 < j + 1
          /\ pipe'[i] = pipe[i + 1] /\ pipe'[j] = pipe[j + 1]
        BY <1>1
    <2> QED BY <2>1 DEF PipeInv
<1>6. \A n \in Got' + 1..Len(written) : \E i \in DOMAIN pipe' : pipe'[i] = written[n]
    <2> SUFFICES ASSUME NEW n \in Got' + 1..Len(written)
                 PROVE  \E i \in DOMAIN pipe' : pipe'[i] = written[n]
        OBVIOUS
    <2>1. n \in Got + 1..Len(written) /\ n \in 1..Len(written)
        BY <1>2
    <2>2. PICK i \in DOMAIN pipe : pipe[i] = written[n]
        BY <2>1 DEF PipeInv
    <2>3. pipe[i].kind = "batch" /\ pipe[i].number = n
        BY <2>1, <2>2, WrittenKinds, LenProperties DEF KernelInv, TypeOK
    <2>4. i # 1
        BY <1>1, <1>2, <1>3, <2>3
    <2>5. i - 1 \in DOMAIN pipe' /\ pipe'[i - 1] = pipe[i]
        BY <1>1, <2>4
    <2> QED BY <2>2, <2>5
<1> QED BY <1>4, <1>5, <1>6 DEF PipeInv

LEMMA PipePut ==
    ASSUME TypeOK, KernelInv, GivenInv, PipeInv, NEW l \in Line, pipe' = Append(pipe, l),
           l.kind = "batch" => l.number = Len(written) + 1,
           written' = IF l.kind = "batch" THEN Append(written, l) ELSE written,
           Got' = Got
    PROVE  PipeInv'
<1>1. /\ Len(pipe) \in Nat /\ DOMAIN pipe = 1..Len(pipe) /\ DOMAIN pipe' = 1..Len(pipe) + 1
      /\ \A i \in 1..Len(pipe) : pipe'[i] = pipe[i]
      /\ pipe'[Len(pipe) + 1] = l
    BY Appended DEF TypeOK
<1>2. Got \in Nat /\ Got <= Len(written) /\ Len(written) \in Nat
    BY GotInWritten, WrittenKinds
<1>3. l.kind = "batch" =>
          /\ Len(written') = Len(written) + 1 /\ written'[Len(written) + 1] = l
          /\ \A n \in 1..Len(written) : written'[n] = written[n]
    <2> SUFFICES ASSUME l.kind = "batch"
                 PROVE  /\ Len(written') = Len(written) + 1 /\ written'[Len(written) + 1] = l
                        /\ \A n \in 1..Len(written) : written'[n] = written[n]
        OBVIOUS
    <2>1. l \in Batches /\ written' = Append(written, l)
        BY LineKind
    <2> QED BY <2>1, Appended DEF TypeOK
<1>4. Len(written') \in Nat /\ Len(written) <= Len(written')
      /\ \A n \in 1..Len(written) : written'[n] = written[n]
    BY <1>2, <1>3
<1>5. \A i \in DOMAIN pipe : pipe[i].kind = "batch" =>
          /\ pipe[i].number \in Got + 1..Len(written)
          /\ pipe[i].number \in 1..Len(written) /\ pipe[i] = written[pipe[i].number]
    BY <1>2 DEF PipeInv
<1>6. \A i \in DOMAIN pipe' : pipe'[i].kind = "batch" =>
          pipe'[i].number \in Got' + 1..Len(written') /\ pipe'[i] = written'[pipe'[i].number]
    <2> SUFFICES ASSUME NEW i \in DOMAIN pipe', pipe'[i].kind = "batch"
                 PROVE  pipe'[i].number \in Got + 1..Len(written') /\ pipe'[i] = written'[pipe'[i].number]
        OBVIOUS
    <2>1. CASE i \in DOMAIN pipe
        BY <1>1, <1>2, <1>4, <1>5, <2>1
    <2>2. CASE i = Len(pipe) + 1
        BY <1>1, <1>2, <1>3, <2>2
    <2>3. i \in DOMAIN pipe \/ i = Len(pipe) + 1
        BY <1>1
    <2> QED BY <2>1, <2>2, <2>3
<1>7. \A i, j \in DOMAIN pipe' :
          i < j /\ pipe'[i].kind = "batch" /\ pipe'[j].kind = "batch" => pipe'[i].number < pipe'[j].number
    <2> SUFFICES ASSUME NEW i \in DOMAIN pipe', NEW j \in DOMAIN pipe', i < j,
                        pipe'[i].kind = "batch", pipe'[j].kind = "batch"
                 PROVE  pipe'[i].number < pipe'[j].number
        OBVIOUS
    <2>1. i \in DOMAIN pipe /\ pipe'[i] = pipe[i]
        BY <1>1
    <2>2. CASE j \in DOMAIN pipe
        <3>1. pipe'[j] = pipe[j]
            BY <1>1, <2>2
        <3> QED BY <2>1, <2>2, <3>1 DEF PipeInv
    <2>3. CASE j = Len(pipe) + 1
        <3>1. pipe'[j] = l /\ l.kind = "batch" /\ l.number = Len(written) + 1
            BY <1>1, <2>3
        <3>2. pipe[i].number \in 1..Len(written)
            BY <1>5, <2>1
        <3> QED BY <1>2, <2>1, <3>1, <3>2
    <2> QED BY <1>1, <2>2, <2>3
<1>8. \A n \in Got' + 1..Len(written') : \E i \in DOMAIN pipe' : pipe'[i] = written'[n]
    <2> SUFFICES ASSUME NEW n \in Got + 1..Len(written')
                 PROVE  \E i \in DOMAIN pipe' : pipe'[i] = written'[n]
        OBVIOUS
    <2>1. CASE n \in Got + 1..Len(written)
        <3>1. PICK i \in DOMAIN pipe : pipe[i] = written[n]
            BY <2>1 DEF PipeInv
        <3>2. written'[n] = written[n] /\ i \in DOMAIN pipe' /\ pipe'[i] = pipe[i]
            BY <1>1, <1>2, <1>4, <2>1
        <3> QED BY <3>1, <3>2
    <2>2. CASE n = Len(written) + 1
        <3>1. l.kind = "batch"
            BY <1>2, <2>2
        <3> QED BY <1>1, <1>3, <2>2, <3>1
    <2>3. n \in Got + 1..Len(written) \/ n = Len(written) + 1
        BY <1>2, <1>3
    <2> QED BY <2>1, <2>2, <2>3
<1> QED BY <1>6, <1>7, <1>8 DEF PipeInv

--------------------------------------------------------------------------------
(* Nothing is missing between the kernel and the caller.                   *)
LEMMA LiveNext == Inv /\ [Next]_vars => LiveInv'
<1> SUFFICES ASSUME Inv, [Next]_vars, Live' PROVE failure' = "complete" /\ PipeInv'
    BY DEF LiveInv
<1> USE DEF Inv, kernelVars, readerVars
<1>1. CASE Kernel \/ Killed
    <2>1. UNCHANGED <<exchange, held, failure, received>>
        BY <1>1, KernelFrame
    <2>2. failure = "complete" /\ PipeInv /\ Got' = Got
        BY <2>1 DEF Live, LiveInv, Got
    <2>3. CASE UNCHANGED <<pipe, written>>
        BY <2>1, <2>2, <2>3, PipeSame
    <2>4. CASE PutLine
        <3>1. line \in Line /\ pipe' = Append(pipe, line)
              /\ written' = IF line.kind = "batch" THEN Append(written, line) ELSE written
            BY <2>4 DEF PutLine, TypeOK
        <3>2. line.kind = "batch" => line.number = Len(written) + 1
            BY DEF KernelInv
        <3> QED BY <2>1, <2>2, <3>1, <3>2, PipePut
    <2>5. CASE Killed /\ pipe' # pipe
        <3>1. PICK part \in Cut(line) : pipe' = Append(pipe, part)
            BY <2>5 DEF Killed
        <3>2. part \in Line /\ part.kind # "batch"
            BY Lines, OtherKinds DEF Cut
        <3>3. UNCHANGED written
            BY <2>5 DEF Killed, Exit
        <3> QED BY <2>1, <2>2, <3>1, <3>2, <3>3, PipePut
    <2>6. UNCHANGED <<pipe, written>> \/ PutLine \/ (Killed /\ pipe' # pipe)
        BY <1>1 DEF Kernel, ReadRequest, StartHeader, StartBatch, StartFooter, StartForeign,
                    Start, ExitWell, ExitFailing, ExitUnread, Killed, Exit
    <2> QED BY <2>3, <2>4, <2>5, <2>6
<1>2. CASE WriteRequest
    <2>1. /\ exchange = "request" /\ exchange' = "header"
          /\ UNCHANGED <<pipe, written, received, failure>>
        BY <1>2 DEF WriteRequest, Raise, Live
    <2> QED BY <2>1, PipeSame DEF Live, LiveInv, Got
<1>3. CASE ReadHeader \/ ReadFooter \/ ReadBatch
    <2>1. /\ Ready /\ Take /\ exchange \in {"header", "responses"}
          /\ UNCHANGED <<written, received, failure>>
          /\ ReadBatch => exchange' = "holding" /\ held' = Head(pipe)
          /\ ~ReadBatch => exchange' = "responses"
        BY <1>3 DEF ReadHeader, ReadBatch, ReadFooter, Raise, Live
    <2>2. failure = "complete" /\ PipeInv /\ Got = Len(received)
        BY <2>1 DEF Live, LiveInv, Got
    <2>3. CASE ReadBatch
        <3>1. held' = Head(pipe) /\ exchange' = "holding"
            BY <2>1, <2>3
        <3>2. Len(received) \in Nat
            BY LenProperties DEF TypeOK
        <3>3. Got' = IF Head(pipe).kind = "batch" THEN Got + 1 ELSE Got
            BY <2>1, <2>2, <3>1, <3>2 DEF Got
        <3> QED BY <2>1, <2>2, <3>3, PipeTaken
    <2>4. CASE ~ReadBatch
        <3>1. Head(pipe).kind # "batch"
            BY <1>3, <2>1, <2>4, OtherKinds DEF ReadHeader, ReadFooter, Raise, Live
        <3>2. Got' = Len(received)
            BY <2>1, <2>4 DEF Got
        <3> QED BY <2>1, <2>2, <3>1, <3>2, PipeTaken
    <2> QED BY <2>3, <2>4
<1>4. CASE Accept
    <2>1. /\ exchange = "holding" /\ exchange' = "responses" /\ held.kind # "cut facts"
          /\ received' = Append(received, held)
          /\ UNCHANGED <<pipe, written, failure>>
        BY <1>4 DEF Accept, Raise, Live
    <2>2. held.kind = "batch" /\ held \in Batches
        BY <2>1, LineKind DEF TypeOK, GivenInv, IsBatch
    <2>3. Got' = Got
        BY <2>1, <2>2, Appended DEF TypeOK, Got
    <2> QED BY <2>1, <2>3, PipeSame DEF Live, LiveInv
<1>5. CASE ReadBroken \/ ReadEnd \/ Finish \/ Complete \/ CloseOutput \/ Stop \/ Leave
    BY <1>5 DEF Live, ReadBroken, ReadEnd, Finish, Complete, CloseOutput, Stop, Leave, Raise
<1>6. CASE UNCHANGED vars
    BY <1>6, PipeSame DEF vars, Live, LiveInv, Got
<1> QED BY <1>1, <1>2, <1>3, <1>4, <1>5, <1>6 DEF Next, Reader

(* The caller has a beginning of what was written.                         *)
LEMMA GivenSame ==
    ASSUME GivenInv, UNCHANGED <<received, written>>,
           exchange' # "holding" \/ UNCHANGED <<exchange, held>>
    PROVE  GivenInv'
BY DEF GivenInv, IsBatch

LEMMA GivenNext == Inv /\ [Next]_vars => GivenInv'
<1> SUFFICES ASSUME Inv, [Next]_vars PROVE GivenInv'
    OBVIOUS
<1> USE DEF Inv, kernelVars, readerVars
<1>1. CASE Kernel \/ Killed
    <2>1. UNCHANGED <<exchange, held, received>>
        BY <1>1, KernelFrame
    <2>2. CASE UNCHANGED written
        BY <2>1, <2>2, GivenSame
    <2>3. CASE PutLine /\ line.kind = "batch"
        <3>1. line \in Batches /\ written' = Append(written, line)
            BY <2>3, LineKind DEF PutLine, TypeOK
        <3>2. /\ Len(written) \in Nat /\ Len(written') = Len(written) + 1
              /\ \A n \in 1..Len(written) : written'[n] = written[n]
            BY <3>1, Appended DEF TypeOK
        <3>3. Len(received) \in Nat /\ DOMAIN received = 1..Len(received)
            BY LenProperties DEF TypeOK
        <3>4. Len(received') <= Len(written') /\ \A i \in DOMAIN received' : received'[i] = written'[i]
            BY <2>1, <3>2, <3>3 DEF GivenInv
        <3>5. exchange' = "holding" /\ held'.kind = "batch" =>
                  Len(received') < Len(written') /\ held' = written'[Len(received') + 1]
            BY <2>1, <3>2, <3>3 DEF GivenInv
        <3> QED BY <2>1, <3>4, <3>5 DEF GivenInv, IsBatch
    <2>4. UNCHANGED written \/ (PutLine /\ line.kind = "batch")
        BY <1>1 DEF Kernel, ReadRequest, StartHeader, StartBatch, StartFooter, StartForeign,
                    Start, PutLine, ExitWell, ExitFailing, ExitUnread, Killed, Exit
    <2> QED BY <2>2, <2>3, <2>4
<1>2. CASE ReadBatch
    <2>1. /\ exchange = "responses" /\ Ready /\ IsBatch(Head(pipe))
          /\ UNCHANGED <<received, written>>
        BY <1>2 DEF ReadBatch
    <2>2. CASE footer
        <3>1. exchange' # "holding"
            BY <1>2, <2>2 DEF ReadBatch, Raise
        <3> QED BY <2>1, <3>1, GivenSame
    <2>3. CASE ~footer
        <3>1. held' = Head(pipe)
            BY <1>2, <2>3 DEF ReadBatch
        <3>2. PipeInv /\ Got = Len(received)
            BY <2>1 DEF Live, LiveInv, Got
        <3>3. held'.kind = "batch" => Len(received) < Len(written) /\ held' = written[Len(received) + 1]
            BY <2>1, <3>1, <3>2, HeadIsNext
        <3> QED BY <2>1, <3>1, <3>3 DEF GivenInv, IsBatch
    <2> QED BY <2>2, <2>3
<1>3. CASE ((Accept /\ held.kind # "cut facts") \/ Leave) /\ received' = Append(received, held)
    <2>1. held.kind # "cut facts" /\ exchange = "holding" /\ exchange' # "holding" /\ UNCHANGED written
        BY <1>3, OtherKinds DEF Accept, Leave, Raise
    <2>2. held.kind = "batch" /\ held \in Batches
        BY <2>1, LineKind DEF TypeOK, GivenInv, IsBatch
    <2>3. Len(received) < Len(written) /\ held = written[Len(received) + 1]
        BY <2>1, <2>2 DEF GivenInv
    <2>4. /\ Len(received) \in Nat /\ DOMAIN received = 1..Len(received)
          /\ Len(received') = Len(received) + 1 /\ DOMAIN received' = 1..Len(received) + 1
          /\ \A i \in 1..Len(received) : received'[i] = received[i]
          /\ received'[Len(received) + 1] = held
        BY <1>3, <2>2, Appended DEF TypeOK
    <2>5. Len(written) \in Nat
        BY WrittenKinds
    <2>6. written' = written
        BY <2>1
    <2>7. Len(received') <= Len(written')
        <3>1. Len(received) + 1 <= Len(written)
            BY <2>3, <2>4, <2>5
        <3> QED BY <2>4, <2>6, <3>1
    <2>8. \A i \in DOMAIN received' : received'[i] = written[i]
        <3>1. \A i \in 1..Len(received) : received[i] = written[i]
            BY <2>4 DEF GivenInv
        <3>2. \A i \in 1..Len(received) + 1 : i \in 1..Len(received) \/ i = Len(received) + 1
            BY <2>4
        <3> QED BY <2>3, <2>4, <3>1, <3>2
    <2> QED BY <2>1, <2>6, <2>7, <2>8 DEF GivenInv
<1>4. CASE (Reader \/ Leave) /\ ~ReadBatch /\ received' = received
    <2>1. UNCHANGED <<received, written>> /\ exchange' # "holding"
        BY <1>4, ReaderFrame DEF Reader, WriteRequest, ReadHeader, ReadFooter, ReadBroken, ReadEnd,
           Finish, Accept, Complete, CloseOutput, Stop, Leave, Raise
    <2> QED BY <2>1, GivenSame
<1>5. CASE UNCHANGED vars
    BY <1>5, GivenSame DEF vars
<1>6. Reader \/ Leave =>
          \/ received' = received
          \/ ((Accept /\ held.kind # "cut facts") \/ Leave) /\ received' = Append(received, held)
    BY DEF Reader, WriteRequest, ReadHeader, ReadBatch, ReadFooter, ReadBroken, ReadEnd,
           Finish, Accept, Complete, CloseOutput, Stop, Leave
<1> QED BY <1>1, <1>2, <1>3, <1>4, <1>5, <1>6 DEF Next

(* A kernel that has exited does nothing more.                             *)
LEMMA ExitIsFinal == Inv /\ kernel = "exited" => ~Kernel /\ ~Killed
<1> SUFFICES ASSUME Inv, kernel = "exited" PROVE ~Kernel /\ ~Killed
    OBVIOUS
<1>1. line = Nothing
    BY DEF Inv, KernelInv
<1> QED BY <1>1 DEF Kernel, ReadRequest, StartHeader, StartBatch, StartFooter, StartForeign, Start,
                   PutLine, ExitWell, ExitFailing, ExitUnread, Killed

(* Only a whole answer comes through without an exception.                 *)
LEMMA WholeNext == Inv /\ [Next]_vars => WholeInv'
<1> SUFFICES ASSUME Inv, [Next]_vars PROVE WholeInv'
    OBVIOUS
<1> USE DEF Inv, kernelVars, readerVars
<1>1. CASE Kernel \/ Killed
    <2>1. UNCHANGED <<exchange, failure, received>> /\ kernel # "exited"
        BY <1>1, KernelFrame, ExitIsFinal
    <2>2. ~(exchange \in {"finish", "statistics", "close", "stop", "ended"} /\ failure = "complete")
        BY <2>1 DEF WholeInv
    <2> QED BY <2>1, <2>2 DEF WholeInv
<1>2. CASE ReadEnd
    <2>1. exchange = "responses" /\ Drained /\ exchange' = "finish" /\ UNCHANGED <<kernel, received, written>>
        BY <1>2 DEF ReadEnd, Raise
    <2>2. PipeInv /\ Got = Len(received)
        BY <2>1 DEF Live, LiveInv, Got
    <2>3. Len(received) \in Nat /\ Len(written) \in Nat /\ Len(received) <= Len(written)
        BY GotInWritten, WrittenKinds, <2>2
    <2>4. DOMAIN pipe = {}
        BY <2>1 DEF Drained
    <2>5. ~(Len(received) + 1 \in Got + 1..Len(written))
        BY <2>2, <2>4 DEF PipeInv
    <2>6. Len(received) = Len(written)
        BY <2>2, <2>3, <2>5
    <2>7. received = written
        BY <2>6, SeqEqual, LenProperties DEF TypeOK, GivenInv
    <2> QED BY <2>1, <2>7 DEF WholeInv, Drained
<1>3. CASE Finish
    <2>1. /\ exchange = "finish" /\ kernel = "exited"
          /\ UNCHANGED <<kernel, code, received, written>>
          /\ \/ exchange' = "close" /\ failure' = "kernel failed"
             \/ exchange' = "close" /\ failure' = failure /\ failure # "complete"
             \/ exchange' = "statistics" /\ failure' = failure /\ failure = "complete" /\ code = 0
        BY <1>3 DEF Finish, Raise
    <2> QED BY <2>1 DEF WholeInv
<1>4. CASE Complete
    <2>1. /\ exchange = "statistics" /\ exchange' = "close"
          /\ UNCHANGED <<kernel, code, received, written>>
          /\ \/ failure' = "protocol"
             \/ failure' = failure /\ Family \subseteq {received[i].family : i \in DOMAIN received}
        BY <1>4 DEF Complete, Raise
    <2> QED BY <2>1 DEF WholeInv
<1>5. CASE CloseOutput
    <2>1. /\ exchange = "close" /\ exchange' = "stop"
          /\ UNCHANGED <<kernel, code, received, written, failure>>
        BY <1>5 DEF CloseOutput
    <2> QED BY <2>1 DEF WholeInv
<1>6. CASE Stop
    <2>1. /\ exchange = "stop" /\ exchange' = "ended" /\ kernel' = "exited"
          /\ kernel = "exited" => code' = code
          /\ UNCHANGED <<received, written, failure>>
        BY <1>6 DEF Stop
    <2> QED BY <2>1 DEF WholeInv
<1>7. CASE WriteRequest \/ ReadHeader \/ ReadBatch \/ ReadFooter \/ ReadBroken \/ Accept \/ Leave
    <2>1. \/ exchange' \in {"header", "responses", "holding"}
          \/ exchange' \in {"finish", "close"} /\ failure' # "complete"
        BY <1>7 DEF WriteRequest, ReadHeader, ReadBatch, ReadFooter, ReadBroken, Accept, Leave, Raise
    <2> QED BY <2>1 DEF WholeInv
<1>8. CASE UNCHANGED vars
    BY <1>8 DEF WholeInv, vars
<1> QED BY <1>1, <1>2, <1>3, <1>4, <1>5, <1>6, <1>7, <1>8 DEF Next, Reader

(* The reader stops reading a kernel of this release only when it has      *)
(* exited, or because the caller left.                                     *)
LEMMA NativeNext == Inv /\ [Next]_vars => NativeInv'
<1> SUFFICES ASSUME Inv, [Next]_vars PROVE NativeInv'
    OBVIOUS
<1>7. foreign' = foreign
    <2>1. CASE Kernel \/ Killed
        BY <2>1, KernelFrame
    <2>2. CASE Reader \/ Leave
        BY <2>2, ReaderFrame
    <2>3. CASE UNCHANGED vars
        BY <2>3 DEF vars
    <2> QED BY <2>1, <2>2, <2>3 DEF Next
<1> SUFFICES ASSUME ~foreign PROVE NativeInv'
    BY <1>7 DEF NativeInv
<1> USE DEF Inv, kernelVars, readerVars
<1> DEFINE Stopped == exchange \in {"close", "stop", "ended"} =>
                          failure \in {"left", "kernel failed"} \/ (kernel = "exited" /\ ~failed)
<1> DEFINE Unread == exchange \in {"request", "header"} =>
                         /\ "header" \in wrote => pipe # <<>> /\ pipe[1] = Header
                         /\ "header" \notin wrote => pipe = <<>>
<1> DEFINE Asked(l) == l.kind = "batch" => l.family \in Family
<1> DEFINE Written ==
        /\ Asked(line)
        /\ \A i \in DOMAIN pipe : Asked(pipe[i])
        /\ exchange = "holding" => Asked(held)
        /\ kernel = "reading" => "header" \notin wrote
        /\ "header" \notin wrote => line \in {Nothing, Header}
<1>0. Stopped /\ Unread /\ Written
    BY DEF NativeInv
<1>5. failed => kernel = "exited" /\ code = 1
    BY DEF KernelInv
<1>6. code \in {0, 2} => ~failed
    BY <1>5
<1> SUFFICES Stopped' /\ Unread' /\ Written'
    BY DEF NativeInv
<1> HIDE DEF Stopped, Unread, Written
<1>1. CASE Kernel \/ Killed
    <2>1. UNCHANGED <<exchange, failure, held, received>> /\ kernel # "exited"
        BY <1>1, KernelFrame, ExitIsFinal
    <2>2. Stopped'
        BY <1>0, <2>1 DEF Stopped
    <2>3. CASE ReadRequest \/ ExitWell \/ ExitUnread
        <3>1. UNCHANGED <<pipe, wrote>> /\ kernel' # "reading" /\ (line' = line \/ line' = Nothing)
            BY <2>3 DEF ReadRequest, ExitWell, ExitUnread, Exit
        <3> QED BY <1>0, <2>1, <2>2, <3>1, OtherKinds DEF Unread, Written
    <2>4. CASE ExitFailing
        <3>1. UNCHANGED <<pipe, wrote>> /\ kernel' # "reading" /\ line' = Nothing
            BY <2>4 DEF ExitFailing, Exit
        <3> QED BY <1>0, <2>1, <2>2, <3>1, OtherKinds DEF Unread, Written
    <2>5. CASE StartHeader \/ StartBatch \/ StartFooter \/ StartForeign
        <3>1. PICK next : /\ Start(next)
                          /\ \/ next = Header
                             \/ next = Footer /\ "header" \in wrote
                             \/ /\ "header" \in wrote
                                /\ \E f \in Family : next = BatchOf(f, Len(written) + 1)
            BY <2>5, Started
        <3>2. UNCHANGED <<pipe, wrote, kernel>> /\ line' = next /\ kernel = "writing"
            BY <3>1 DEF Start
        <3>3. Asked(next) /\ ("header" \notin wrote => next = Header)
            <4>1. Asked(Header) /\ Asked(Footer)
                BY OtherKinds
            <4>2. \A f \in Family : Asked(BatchOf(f, Len(written) + 1))
                BY BatchKinds
            <4> HIDE DEF Asked
            <4> QED BY <3>1, <4>1, <4>2
        <3> QED BY <1>0, <2>1, <2>2, <3>2, <3>3 DEF Unread, Written
    <2>6. CASE PutLine
        <3>1. /\ line \in Line /\ pipe' = Append(pipe, line) /\ line' = Nothing /\ kernel' = kernel
              /\ wrote' = wrote \cup ({line.kind} \cap {"header", "footer"})
            BY <2>6 DEF PutLine, TypeOK
        <3>2. /\ Len(pipe) \in Nat /\ DOMAIN pipe = 1..Len(pipe) /\ DOMAIN pipe' = 1..Len(pipe) + 1
              /\ \A i \in 1..Len(pipe) : pipe'[i] = pipe[i]
              /\ pipe'[Len(pipe) + 1] = line
            BY <3>1, Appended DEF TypeOK
        <3>3. kernel = "writing"
            BY <2>6 DEF PutLine, KernelInv
        <3>4. "header" \notin wrote => line = Header /\ "header" \in wrote'
            BY <1>0, <2>6, <3>1, OtherKinds DEF Written, PutLine
        <3>5. "header" \in wrote'
            BY <3>1, <3>4
        <3>6. Unread'
            <4> SUFFICES ASSUME exchange \in {"request", "header"} PROVE pipe' # <<>> /\ pipe'[1] = Header
                BY <2>1, <3>5 DEF Unread
            <4>1. 1 \in DOMAIN pipe'
                BY <3>2
            <4>2. CASE "header" \in wrote
                <5>1. pipe # <<>> /\ pipe[1] = Header
                    BY <1>0, <4>2 DEF Unread
                <5>2. Len(pipe) # 0
                    BY <5>1, EmptySeq DEF TypeOK
                <5> QED BY <3>2, <4>1, <5>1, <5>2
            <4>3. CASE "header" \notin wrote
                <5>1. pipe = <<>> /\ line = Header
                    BY <1>0, <3>4, <4>3 DEF Unread
                <5> QED BY <3>2, <4>1, <5>1
            <4> QED BY <4>2, <4>3
        <3>7. \A i \in DOMAIN pipe' : Asked(pipe'[i])
            <4>1. \A i \in DOMAIN pipe' : i \in DOMAIN pipe \/ i = Len(pipe) + 1
                BY <3>2
            <4> QED BY <1>0, <3>2, <4>1 DEF Written
        <3> QED BY <1>0, <2>1, <2>2, <3>1, <3>3, <3>5, <3>6, <3>7, OtherKinds DEF Written
    <2>7. CASE Killed
        <3>1. kernel' = "exited" /\ line' = Nothing /\ UNCHANGED wrote
            BY <2>7 DEF Killed, Exit
        <3>2. CASE UNCHANGED pipe
            BY <1>0, <2>1, <2>2, <3>1, <3>2, OtherKinds DEF Unread, Written
        <3>3. ASSUME NEW part \in Cut(line), pipe' = Append(pipe, part) PROVE Unread' /\ Written'
            <4>1. line # Header /\ line # Nothing /\ part \in Line /\ part.kind # "batch"
                BY OtherKinds, Lines DEF Cut, Footer, Header
            <4>2. "header" \in wrote
                BY <1>0, <4>1 DEF Written
            <4>3. /\ Len(pipe) \in Nat /\ DOMAIN pipe = 1..Len(pipe) /\ DOMAIN pipe' = 1..Len(pipe) + 1
                  /\ \A i \in 1..Len(pipe) : pipe'[i] = pipe[i]
                  /\ pipe'[Len(pipe) + 1] = part
                BY <3>3, <4>1, Appended DEF TypeOK
            <4>4. Unread'
                <5> SUFFICES ASSUME exchange \in {"request", "header"} PROVE pipe' # <<>> /\ pipe'[1] = Header
                    BY <2>1, <3>1, <4>2 DEF Unread
                <5>1. pipe # <<>> /\ pipe[1] = Header
                    BY <1>0, <4>2 DEF Unread
                <5>2. Len(pipe) # 0
                    BY <5>1, EmptySeq DEF TypeOK
                <5>3. 1 \in DOMAIN pipe'
                    BY <4>3
                <5> QED BY <4>3, <5>1, <5>2, <5>3
            <4>5. \A i \in DOMAIN pipe' : Asked(pipe'[i])
                <5>1. \A i \in DOMAIN pipe' : i \in DOMAIN pipe \/ i = Len(pipe) + 1
                    BY <4>3
                <5> QED BY <1>0, <4>1, <4>3, <5>1 DEF Written
            <4> QED BY <1>0, <2>1, <3>1, <4>4, <4>5, OtherKinds DEF Written
        <3> QED BY <2>2, <2>7, <3>2, <3>3 DEF Killed
    <2> QED BY <1>1, <2>3, <2>4, <2>5, <2>6, <2>7 DEF Kernel
<1>2. CASE (Reader \/ Leave) /\ ~Stop
    <2>1. UNCHANGED <<wrote, kernel, code, line, failed>>
        BY <1>2, ReaderFrame
    <2>2. CASE ReadHeader \/ ReadBatch \/ ReadFooter \/ ReadBroken
        <3>1. exchange \in {"header", "responses"}
              /\ exchange' \in {"responses", "holding", "finish", "close"}
            BY <2>2 DEF ReadHeader, ReadBatch, ReadFooter, ReadBroken, Raise
        <3>2. \A i \in DOMAIN pipe' : Asked(pipe'[i])
            <4>1. CASE Ready /\ Take
                BY <1>0, <4>1, Taken DEF Written
            <4>2. CASE UNCHANGED pipe
                BY <1>0, <4>2 DEF Written
            <4> QED BY <2>2, <4>1, <4>2 DEF ReadHeader, ReadBatch, ReadFooter, ReadBroken
        <3>3. exchange' = "holding" => Asked(held')
            BY <1>0, <2>2, Taken DEF Written, ReadHeader, ReadBatch, ReadFooter, ReadBroken, Raise
        <3>4. ASSUME exchange' = "close" PROVE Stopped'
            <4>1. CASE ReadHeader
                <5>1. Ready /\ Take /\ Head(pipe) # Header
                    BY <3>4, <4>1 DEF ReadHeader, Raise
                <5>2. pipe # <<>> /\ pipe[1] # Header
                    BY <5>1, Taken DEF Ready
                <5> QED BY <1>0, <4>1, <5>2 DEF Unread, ReadHeader
            <4>2. CASE ReadBroken
                <5>1. Ready /\ Take /\ Head(pipe) = CutFooter
                    BY <3>4, <4>2 DEF ReadBroken, Raise
                <5>2. 1 \in DOMAIN pipe /\ pipe[1] = CutFooter
                    BY <5>1, Taken
                <5>3. CutLine(pipe[1])
                    BY <5>2, OtherKinds DEF CutLine
                <5>4. kernel = "exited" /\ ~failed
                    BY <1>6, <5>2, <5>3 DEF CutInv
                <5>5. kernel' = "exited" /\ ~failed'
                    BY <2>1, <5>4
                <5> QED BY <5>5 DEF Stopped
            <4> QED BY <2>2, <3>4, <4>1, <4>2 DEF ReadBatch, ReadFooter, Raise
        <3>5. Stopped'
            BY <3>1, <3>4 DEF Stopped
        <3> QED BY <1>0, <2>1, <3>1, <3>2, <3>3, <3>5 DEF Unread, Written
    <2>3. CASE WriteRequest \/ ReadEnd
        <3>1. exchange' \in {"header", "finish"} /\ UNCHANGED pipe
              /\ (exchange' = "header" => exchange = "request")
            BY <2>3 DEF WriteRequest, ReadEnd, Raise
        <3> QED BY <1>0, <2>1, <3>1 DEF Stopped, Unread, Written
    <2>4. CASE Finish \/ Complete
        <3>1. exchange' \in {"statistics", "close"} /\ UNCHANGED pipe
            BY <2>4 DEF Finish, Complete, Raise
        <3>2. kernel = "exited" /\ (failure' = "kernel failed" \/ code = 0)
            BY <2>4 DEF Finish, Complete, Raise, WholeInv
        <3> QED BY <1>0, <1>6, <2>1, <3>1, <3>2 DEF Stopped, Unread, Written
    <2>5. CASE Accept
        <3>1. exchange = "holding" /\ exchange' \in {"responses", "close"} /\ UNCHANGED pipe
            BY <2>5 DEF Accept, Raise
        <3>2. exchange' = "close" => held.kind = "cut facts"
            BY <1>0, <2>5 DEF Accept, Raise, GivenInv, IsBatch, Written
        <3>3. held.kind = "cut facts" => kernel = "exited" /\ ~failed
            BY <1>6, <3>1 DEF CutInv, CutLine
        <3> QED BY <1>0, <2>1, <3>1, <3>2, <3>3 DEF Stopped, Unread, Written
    <2>6. CASE CloseOutput
        <3>1. exchange = "close" /\ exchange' = "stop" /\ DOMAIN pipe' = {} /\ UNCHANGED failure
            BY <2>6 DEF CloseOutput
        <3> QED BY <1>0, <2>1, <3>1 DEF Stopped, Unread, Written
    <2>7. CASE Leave
        <3>1. exchange' = "close" /\ failure' = "left" /\ UNCHANGED pipe
            BY <2>7 DEF Leave, Raise
        <3> QED BY <1>0, <2>1, <3>1 DEF Stopped, Unread, Written
    <2> QED BY <1>2, <2>2, <2>3, <2>4, <2>5, <2>6, <2>7 DEF Reader
<1>3. CASE Stop
    <2>1. exchange = "stop" /\ exchange' = "ended" /\ kernel' = "exited" /\ line' = Nothing
          /\ UNCHANGED <<wrote, pipe, failed, failure>>
        BY <1>3 DEF Stop
    <2>2. failed => kernel = "exited"
        BY DEF KernelInv
    <2> QED BY <1>0, <2>1, <2>2, OtherKinds DEF Stopped, Unread, Written
<1>4. CASE UNCHANGED vars
    BY <1>0, <1>4 DEF Stopped, Unread, Written, vars
<1> QED BY <1>1, <1>2, <1>3, <1>4 DEF Next

--------------------------------------------------------------------------------
(* The inductive invariant of the exchange.                                *)
THEOREM ExchangeInvariant == Spec => []Inv
<1>1. Inv /\ [Next]_vars => Inv'
    BY TypeNext, KernelNext, GivenNext, LiveNext, EndNext, WholeNext, CutNext, NativeNext DEF Inv
<1> QED BY InitInv, <1>1, PTL DEF Spec

(* KernelExchange.read and KernelRuntime.Reader, for any families, any     *)
(* pipe and any binary: "complete" is said of a whole answer only, and     *)
(* with the kernel of this release every failed analysis is reported.      *)
THEOREM OutcomesAreTrue == Spec => []OutcomeIsTrue
<1>1. Inv => OutcomeIsTrue
    <2> SUFFICES ASSUME Inv PROVE OutcomeIsTrue
        OBVIOUS
    <2> USE DEF Inv
    <2>1. IsPrefix(received, written)
        <3>1. Len(received) \in Nat /\ Len(written) \in Nat /\ Len(received) <= Len(written)
            BY LenProperties DEF TypeOK, GivenInv
        <3>2. received \in Seq(Batches) /\ written \in Seq(Batches)
            BY DEF TypeOK
        <3>3. \A i \in 1..Len(received) : received[i] \in Batches /\ written[i] = received[i]
            BY <3>2, LenProperties, ElementOfSeq DEF GivenInv
        <3>4. /\ SubSeq(received, 1, Len(received)) \in Seq(Batches)
              /\ Len(SubSeq(received, 1, Len(received))) = Len(received)
              /\ \A i \in 1..Len(received) : SubSeq(received, 1, Len(received))[i] = received[i]
            BY <3>1, <3>2, SubSeqFull
        <3>5. /\ SubSeq(written, 1, Len(received)) \in Seq(Batches)
              /\ Len(SubSeq(written, 1, Len(received))) = Len(received)
              /\ \A i \in 1..Len(received) : SubSeq(written, 1, Len(received))[i] = written[i]
            BY <3>1, <3>3, SubSeqProperties
        <3>6. SubSeq(received, 1, Len(received)) = SubSeq(written, 1, Len(received))
            BY <3>3, <3>4, <3>5, SeqEqual
        <3> QED BY <3>1, <3>6 DEF IsPrefix
    <2>2. outcome = "complete" => exchange = "ended" /\ failure = "complete"
        BY DEF EndInv
    <2>3. AnswerIsWhole
        BY <2>1, <2>2 DEF AnswerIsWhole, WholeInv
    <2>4. FailureSurfaces
        BY DEF FailureSurfaces, EndInv, NativeInv
    <2> QED BY <2>3, <2>4 DEF OutcomeIsTrue
<1> QED BY <1>1, ExchangeInvariant, PTL

(* KernelExchange._close, for any producer: an exchange that is over has   *)
(* closed the pipe and waited for the kernel process.                      *)
THEOREM NoKernelIsLeft == Spec => []NoOrphan
<1>1. Inv => NoOrphan
    BY DEF Inv, EndInv, NoOrphan
<1> QED BY <1>1, ExchangeInvariant, PTL
================================================================================
