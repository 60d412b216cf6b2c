--------------------------- MODULE DeliveryProofs ---------------------------
(***************************************************************************)
(* Proofs about Delivery, for every set of families, every batch size and  *)
(* every sequence of calls, and about KernelPipeline, for every request,   *)
(* every number of documents and threads and every size of a family.       *)
(*                                                                         *)
(* The delivery: DeliveryInv is inductive under any calls.                 *)
(* The consumer: ConsumerInv, which families it has heard of.              *)
(* The calls: a list of calls holds of a family f the facts Left(l, f, h), *)
(*   where h is what the deferred store holds, and it reads f from that    *)
(*   store in the calls Reads(l, f).  Both are projections (ListProofs),   *)
(*   so they split at the head of a list and at a concatenation.           *)
(* The facts of a family: Upto(f, n) are those of its first n documents,   *)
(*   and the list of all of them is a beginning of Source(f).              *)
(* The workers: PlaceInv and WorkersInv, which document a worker is at.    *)
(* The calls of a document and of the repository phase: which there are,   *)
(*   and what is left of each family in them.                              *)
(* The pipeline: PipelineInv, whose heart is ContentInv.  What a family    *)
(*   has reached, and what the remaining calls hold of it, is together     *)
(*   what it has to be: the facts of the documents received so far, or     *)
(*   all of them once the repository phase has begun.                      *)
(* The report of a completed analysis: EmittedInv, the count it returns.   *)
(***************************************************************************)
EXTENDS KernelPipeline, ListProofs

\* What streaming keeps true: batches that fill up are emitted before the next call, and a
\* family is pending only while it is streamed and not yet flushed.
PendingInv ==
    /\ sending # Unset => phase \in {"open", "failed"} /\ Streamed(sending)
    /\ sending # Unset => Len(pending[sending]) >= Batch
    /\ \A f \in Family : f # sending => Len(pending[f]) < Batch
    /\ phase \in {"answer", "closed"} => \A f \in Family : pending[f] = <<>>

\* The other two ways a family is delivered.
StoreInv ==
    \A f \in Family :
        /\ Joined(f) => retained[f] = sent[f]
        /\ f \in selected => rows[f] = sent[f]

DeliveryInv == DeliveryTypeOK /\ Conserved /\ PendingInv /\ StoreInv

LEMMA EmptyFacts == [f \in Family |-> <<>>] \in Facts
  BY DEF Facts

LEMMA InitInv ==
    ASSUME kept \subseteq Family, selected \subseteq Family, requested \subseteq Family,
           DeliveryInit
    PROVE  DeliveryInv
  <1> USE DeliveryAssumption
  <1>1. DeliveryTypeOK
    BY EmptyFacts DEF DeliveryInit, DeliveryTypeOK, Phases
  <1>2. Conserved
    BY DEF DeliveryInit, Conserved
  <1>3. PendingInv
    BY DEF DeliveryInit, PendingInv
  <1>4. StoreInv
    BY DEF DeliveryInit, StoreInv
  <1>5. QED
    BY <1>1, <1>2, <1>3, <1>4 DEF DeliveryInv

\* Appending facts to one family of a table of facts.
LEMMA AppendFacts ==
    ASSUME NEW t \in Facts, NEW f \in Family, NEW s \in Seq(Fact)
    PROVE  /\ t[f] \in Seq(Fact) /\ t[f] \o s \in Seq(Fact)
           /\ Len(t[f] \o s) = Len(t[f]) + Len(s)
  <1>1. t[f] \in Seq(Fact)
    BY DEF Facts
  <1>2. QED
    BY <1>1, ConcatProperties

LEMMA Regroup ==
    ASSUME NEW a \in Seq(Fact), NEW b \in Seq(Fact), NEW c \in Seq(Fact)
    PROVE  (a \o b) \o c = a \o (b \o c)
  BY ConcatAssociative

\* Cutting one batch off the front loses nothing.
LEMMA CutBatch ==
    ASSUME NEW s \in Seq(Fact), Len(s) >= Batch
    PROVE  /\ SubSeq(s, 1, Batch) \in Seq(Fact)
           /\ Len(SubSeq(s, 1, Batch)) = Batch
           /\ SubSeq(s, Batch + 1, Len(s)) \in Seq(Fact)
           /\ SubSeq(s, 1, Batch) \o SubSeq(s, Batch + 1, Len(s)) = s
  <1> USE DeliveryAssumption
  <1>1. Len(s) \in Nat /\ \A i \in 1..Len(s) : s[i] \in Fact
    BY LenProperties
  <1>2. SubSeq(s, 1, Batch) \in Seq(Fact) /\ Len(SubSeq(s, 1, Batch)) = Batch
    BY <1>1, SubSeqProperties
  <1>3. SubSeq(s, Batch + 1, Len(s)) \in Seq(Fact)
    BY <1>1, SubSeqProperties
  <1>4. SubSeq(s, 1, Batch) \o SubSeq(s, Batch + 1, Len(s)) = SubSeq(s, 1, Len(s))
    <2>1. 1 \in 1..Len(s) + 1 /\ Batch \in 1 - 1..Len(s) /\ Len(s) \in Batch..Len(s)
      BY <1>1
    <2>2. QED
      BY <2>1, ConcatAdjacentSubSeq
  <1>5. QED
    BY <1>2, <1>3, <1>4, SubSeqFull

LEMMA MarkedType ==
    ASSUME NEW f \in Family, markers \in Seq(Family)
    PROVE  Marked(f) \in Seq(Family)
  BY DEF Marked

LEMMA LeastMember ==
    ASSUME NEW S \in SUBSET Family, S # {}
    PROVE  Least(S) \in S
  <1>1. S \subseteq Nat
    BY DeliveryAssumption
  <1> DEFINE R == {ss \in Nat \X Nat : ss[1] < ss[2]}
  <1>2. IsWellFoundedOn(R, Nat)
    BY NatLessThanWellFounded DEF OpToRel
  <1>3. PICK f \in S : \A g \in S : <<g, f>> \notin R
    <2> HIDE DEF R
    <2> QED
      BY <1>1, <1>2, WFMin
  <1>4. \A g \in S : f <= g
    <2> SUFFICES ASSUME NEW g \in S
                 PROVE  f <= g
      OBVIOUS
    <2>1. f \in Nat /\ g \in Nat
      BY <1>1
    <2>2. ~ (g < f)
      BY <1>3, <2>1
    <2>3. QED
      BY <2>1, <2>2
  <1>5. QED
    BY <1>4 DEF Least

\* Every call of the delivery keeps its invariant.
LEMMA NextInv == DeliveryInv /\ [DeliveryNext]_deliveryVars => DeliveryInv'
  <1> SUFFICES ASSUME DeliveryInv, [DeliveryNext]_deliveryVars
               PROVE  DeliveryInv'
    OBVIOUS
  <1> USE DeliveryAssumption DEF DeliveryInv, modeVars, storeVars, consumerVars, Streamed, Joined,
      Mirrored
  <1>1. ASSUME NEW f \in Family, NEW produced \in Seq(Fact), Send(f, produced)
        PROVE  DeliveryInv'
    <2>1. /\ phase = "open" /\ sending = Unset
          /\ UNCHANGED <<modeVars, typed_markers, phase, stream, answered>>
          /\ sent' = [sent EXCEPT ![f] = @ \o produced]
      BY <1>1 DEF Send, Idle
    <2>2. /\ sent[f] \o produced \in Seq(Fact) /\ rows[f] \o produced \in Seq(Fact)
          /\ retained[f] \o produced \in Seq(Fact) /\ pending[f] \o produced \in Seq(Fact)
          /\ Len(produced) \in Nat
      BY AppendFacts, LenProperties DEF DeliveryTypeOK
    <2>3. /\ sent' \in Facts
          /\ \A g \in Family : sent'[g] = IF g = f THEN sent[f] \o produced ELSE sent[g]
      BY <2>1, <2>2 DEF DeliveryTypeOK, Facts
    <2>4. marked' \subseteq Family /\ markers' \in Seq(Family)
      BY <1>1, MarkedType DEF Send, DeliveryTypeOK
    <2>5. rows' = IF f \in selected THEN [rows EXCEPT ![f] = @ \o produced] ELSE rows
      BY <1>1 DEF Send, SendCaptured, SendRetained, SendStreamed
    <2>6. /\ rows' \in Facts
          /\ \A g \in Family : rows'[g] = IF g = f /\ f \in selected THEN rows[f] \o produced
                                                                     ELSE rows[g]
      BY <2>2, <2>5 DEF DeliveryTypeOK, Facts
    <2>7. SendRetained(f, produced) =>
            /\ retained' \in Facts
            /\ \A g \in Family : retained'[g] = IF g = f THEN retained[f] \o produced
                                                           ELSE retained[g]
      BY <2>2 DEF SendRetained, DeliveryTypeOK, Facts
    <2>8. CASE SendCaptured(f, produced)
      <3>1. /\ UNCHANGED <<retained, pending, sending>>
            /\ emitted_count' = emitted_count + Len(produced)
            /\ emitted_families' = emitted_families \cup {f}
            /\ f \in selected /\ ~Mirrored(f)
        BY <2>8 DEF SendCaptured
      <3>2. DeliveryTypeOK'
        <4>1. emitted_count' \in Nat /\ emitted_families' \subseteq Family
          BY <2>2, <3>1 DEF DeliveryTypeOK
        <4>2. QED
          BY <2>1, <2>3, <2>4, <2>6, <3>1, <4>1 DEF DeliveryTypeOK
      <3>3. Conserved'
        BY <2>1, <2>3, <3>1 DEF Conserved
      <3>4. PendingInv'
        BY <2>1, <3>1 DEF PendingInv
      <3>5. StoreInv'
        BY <2>1, <2>3, <2>6, <3>1 DEF StoreInv
      <3>6. QED
        BY <3>2, <3>3, <3>4, <3>5
    <2>9. CASE SendRetained(f, produced)
      <3>1. UNCHANGED <<pending, emitted_families, emitted_count, sending>> /\ Joined(f)
        BY <2>9 DEF SendRetained
      <3>2. DeliveryTypeOK'
        BY <2>1, <2>3, <2>4, <2>6, <2>7, <2>9, <3>1 DEF DeliveryTypeOK
      <3>3. Conserved'
        BY <2>1, <2>3, <3>1 DEF Conserved
      <3>4. PendingInv'
        BY <2>1, <3>1 DEF PendingInv
      <3>5. StoreInv'
        BY <2>1, <2>3, <2>6, <2>7, <2>9, <3>1 DEF StoreInv
      <3>6. QED
        BY <3>2, <3>3, <3>4, <3>5
    <2>10. CASE SendStreamed(f, produced)
      <3>1. /\ UNCHANGED retained /\ Streamed(f)
            /\ emitted_count' = emitted_count + Len(produced)
            /\ emitted_families' \in {emitted_families, emitted_families \cup {f}}
            /\ pending' = [pending EXCEPT ![f] = @ \o produced]
            /\ sending' = IF Len(pending'[f]) >= Batch THEN f ELSE Unset
        BY <2>10 DEF SendStreamed
      <3>2. /\ pending' \in Facts
            /\ \A g \in Family : pending'[g] = IF g = f THEN pending[f] \o produced
                                                         ELSE pending[g]
        BY <2>2, <3>1 DEF DeliveryTypeOK, Facts
      <3>3. Len(pending'[f]) \in Nat
        BY <3>2, LenProperties DEF Facts
      <3>4. DeliveryTypeOK'
        <4>1. emitted_count' \in Nat /\ emitted_families' \subseteq Family
          BY <2>2, <3>1 DEF DeliveryTypeOK
        <4>2. sending' \in Family \cup {Unset}
          BY <3>1
        <4>3. QED
          BY <2>1, <2>3, <2>4, <2>6, <3>1, <3>2, <4>1, <4>2 DEF DeliveryTypeOK
      <3>5. Conserved'
        <4>1. ASSUME NEW g \in Family, Streamed(g)
              PROVE  stream[g] \o pending'[g] = sent'[g]
          <5>1. CASE g # f
            BY <2>3, <3>2, <4>1, <5>1 DEF Conserved
          <5>2. CASE g = f
            <6>1. stream[f] \in Seq(Fact) /\ pending[f] \in Seq(Fact)
              BY DEF DeliveryTypeOK, Facts
            <6>2. stream[f] \o (pending[f] \o produced) = (stream[f] \o pending[f]) \o produced
              <7> DEFINE a == stream[f]
                         b == pending[f]
              <7>1. a \in Seq(Fact) /\ b \in Seq(Fact) /\ produced \in Seq(Fact)
                BY <6>1
              <7> HIDE DEF a, b
              <7>2. (a \o b) \o produced = a \o (b \o produced)
                BY <7>1, Regroup
              <7> QED BY <7>2 DEF a, b
            <6>3. stream[f] \o pending[f] = sent[f]
              BY <4>1, <5>2 DEF Conserved
            <6>4. stream[g] \o pending'[g] = stream[f] \o (pending[f] \o produced)
              BY <3>2, <5>2
            <6>5. sent'[g] = sent[f] \o produced
              BY <2>3, <5>2
            <6>6. QED
              BY <6>2, <6>3, <6>4, <6>5
          <5>3. QED
            BY <5>1, <5>2
        <4>2. QED
          BY <2>1, <4>1 DEF Conserved
      <3>6. PendingInv'
        <4>1. Batch \in Nat /\ f # Unset
          OBVIOUS
        <4>2. \A g \in Family : g # f => Len(pending'[g]) < Batch
          BY <2>1, <3>2 DEF PendingInv
        <4>3. Len(pending'[f]) >= Batch \/ Len(pending'[f]) < Batch
          BY <3>3, <4>1
        <4>4. CASE Len(pending'[f]) >= Batch
          BY <2>1, <3>1, <4>1, <4>2, <4>4 DEF PendingInv
        <4>5. CASE Len(pending'[f]) < Batch
          <5>1. sending' = Unset
            BY <3>1, <3>3, <4>1, <4>5
          <5>2. QED
            BY <2>1, <4>2, <4>5, <5>1 DEF PendingInv
        <4>6. QED
          BY <4>3, <4>4, <4>5
      <3>7. StoreInv'
        BY <2>1, <2>3, <2>6, <3>1 DEF StoreInv
      <3>8. QED
        BY <3>4, <3>5, <3>6, <3>7
    <2>11. QED
      BY <1>1, <2>8, <2>9, <2>10 DEF Send
  <1>2. ASSUME NEW f \in Family, NEW row_count \in Nat, MarkTyped(f, row_count)
        PROVE  DeliveryInv'
    <2>1. DeliveryTypeOK'
      BY <1>2, MarkedType DEF MarkTyped, DeliveryTypeOK
    <2>2. QED
      BY <1>2, <2>1 DEF MarkTyped, Conserved, PendingInv, StoreInv
  <1>3. CASE EmitBatch
    <2> DEFINE full == pending[sending]
               front == SubSeq(full, 1, Batch)
               rest == SubSeq(full, Batch + 1, Len(full))
    <2>1. /\ sending \in Family /\ Streamed(sending) /\ phase \in {"open", "failed"}
          /\ full \in Seq(Fact) /\ Len(full) >= Batch
      BY <1>3 DEF EmitBatch, PendingInv, DeliveryTypeOK, Facts
    <2>2. /\ stream' = [stream EXCEPT ![sending] = @ \o front]
          /\ pending' = [pending EXCEPT ![sending] = rest]
          /\ sending' = (IF Len(rest) >= Batch THEN sending ELSE Unset)
          /\ answered' = answered \cup {sending}
          /\ UNCHANGED <<modeVars, retained, rows, emitted_count, phase, sent>>
          /\ UNCHANGED <<typed_markers, emitted_families, marked, markers>>
      BY <1>3 DEF EmitBatch
    <2>3. front \in Seq(Fact) /\ rest \in Seq(Fact) /\ front \o rest = full
      BY <2>1, CutBatch
    <2> HIDE DEF full, front, rest
    <2>4. /\ stream' \in Facts /\ stream'[sending] = stream[sending] \o front
          /\ \A g \in Family : g # sending => stream'[g] = stream[g]
      <3>1. stream[sending] \o front \in Seq(Fact)
        BY <2>1, <2>3, AppendFacts DEF DeliveryTypeOK
      <3>2. QED
        BY <2>1, <2>2, <3>1 DEF DeliveryTypeOK, Facts
    <2>5. /\ pending' \in Facts /\ pending'[sending] = rest
          /\ \A g \in Family : g # sending => pending'[g] = pending[g]
      BY <2>1, <2>2, <2>3 DEF DeliveryTypeOK, Facts
    <2>6. DeliveryTypeOK'
      BY <2>1, <2>2, <2>4, <2>5 DEF DeliveryTypeOK
    <2>7. Conserved'
      <3>1. ASSUME NEW g \in Family, Streamed(g)
            PROVE  stream'[g] \o pending'[g] = sent[g]
        <4>1. CASE g # sending
          BY <2>4, <2>5, <3>1, <4>1 DEF Conserved
        <4>2. CASE g = sending
          <5>1. stream[g] \in Seq(Fact)
            BY DEF DeliveryTypeOK, Facts
          <5>2. (stream[g] \o front) \o rest = stream[g] \o full
            BY <2>3, <5>1, Regroup
          <5>3. stream[g] \o full = sent[g]
            BY <3>1, <4>2 DEF Conserved, full
          <5>4. QED
            BY <2>4, <2>5, <4>2, <5>2, <5>3
        <4>3. QED
          BY <4>1, <4>2
      <3>2. QED
        BY <2>2, <3>1 DEF Conserved
    <2>8. PendingInv'
      <3>1. Len(rest) \in Nat
        BY <2>3, LenProperties
      <3>2. QED
        BY <2>1, <2>2, <2>5, <3>1 DEF PendingInv
    <2>9. StoreInv'
      BY <2>2 DEF StoreInv
    <2>10. QED
      BY <2>6, <2>7, <2>8, <2>9
  <1>4. CASE Close
    BY <1>4 DEF Close, Idle, DeliveryTypeOK, Phases, Conserved, PendingInv, StoreInv
  <1>5. CASE MarkUnseen
    <2>1. UNCHANGED <<modeVars, retained, pending, rows, emitted_count, sending, stream, sent>>
      BY <1>5 DEF MarkUnseen
    <2>2. UNCHANGED <<typed_markers, emitted_families, answered>> /\ phase = "unseen"
      BY <1>5 DEF MarkUnseen
    <2>3. CASE selected \ marked = {}
      BY <1>5, <2>1, <2>2, <2>3
         DEF MarkUnseen, DeliveryTypeOK, Phases, Conserved, PendingInv, StoreInv
    <2>4. CASE selected \ marked # {}
      <3> DEFINE f == Least(selected \ marked)
      <3>1. f \in Family
        BY <2>4, LeastMember DEF DeliveryTypeOK
      <3>2. marked' = marked \cup {f} /\ markers' = Marked(f) /\ phase' = phase
        BY <1>5, <2>4 DEF MarkUnseen
      <3> HIDE DEF f
      <3>3. DeliveryTypeOK'
        BY <2>1, <2>2, <3>1, <3>2, MarkedType DEF DeliveryTypeOK
      <3>4. QED
        BY <2>1, <2>2, <3>2, <3>3 DEF Conserved, PendingInv, StoreInv
    <2>5. QED
      BY <2>3, <2>4
  <1>6. CASE Flush
    <2>1. /\ UNCHANGED <<modeVars, retained, rows, emitted_count, sending, sent>>
          /\ UNCHANGED <<emitted_families, marked>> /\ phase = "flush"
      BY <1>6 DEF Flush
    <2>2. CASE Unflushed = {}
      BY <1>6, <2>1, <2>2
         DEF Flush, Unflushed, DeliveryTypeOK, Phases, Conserved, PendingInv, StoreInv
    <2>3. CASE Unflushed # {}
      <3> DEFINE f == Least(Unflushed)
      <3>1. f \in Family
        <4>1. Unflushed \in SUBSET Family
          BY DEF Unflushed, DeliveryTypeOK
        <4>2. QED
          BY <2>3, <4>1, LeastMember
      <3>2. /\ markers' = (IF f \in typed_markers THEN Marked(f) ELSE markers)
            /\ typed_markers' = typed_markers \ {f}
            /\ stream' = [stream EXCEPT ![f] = @ \o pending[f]]
            /\ pending' = [pending EXCEPT ![f] = <<>>]
            /\ answered' = (IF pending[f] = <<>> THEN answered ELSE answered \cup {f})
            /\ phase' = phase
        BY <1>6, <2>3 DEF Flush
      <3> HIDE DEF f
      <3>3. pending[f] \in Seq(Fact) /\ stream[f] \in Seq(Fact) /\ <<>> \in Seq(Fact)
        BY <3>1, EmptySeq DEF DeliveryTypeOK, Facts
      <3>4. /\ stream' \in Facts /\ stream'[f] = stream[f] \o pending[f]
            /\ \A g \in Family : g # f => stream'[g] = stream[g]
        <4>1. stream[f] \o pending[f] \in Seq(Fact)
          BY <3>3, ConcatProperties
        <4>2. QED
          BY <3>1, <3>2, <4>1 DEF DeliveryTypeOK, Facts
      <3>5. /\ pending' \in Facts /\ pending'[f] = <<>>
            /\ \A g \in Family : g # f => pending'[g] = pending[g]
        BY <3>1, <3>2, <3>3 DEF DeliveryTypeOK, Facts
      <3>6. DeliveryTypeOK'
        BY <2>1, <3>1, <3>2, <3>4, <3>5, MarkedType DEF DeliveryTypeOK
      <3>7. Conserved'
        <4>1. (stream[f] \o pending[f]) \o <<>> = stream[f] \o pending[f]
          BY <3>3, ConcatProperties, ConcatEmptySeq
        <4>2. QED
          BY <2>1, <3>1, <3>4, <3>5, <4>1 DEF Conserved
      <3>8. PendingInv'
        <4>1. Len(pending'[f]) = 0
          BY <3>5
        <4>2. sending = Unset
          BY <2>1 DEF PendingInv
        <4>3. QED
          BY <2>1, <3>2, <3>5, <4>1, <4>2 DEF PendingInv
      <3>9. StoreInv'
        BY <2>1 DEF StoreInv
      <3>10. QED
        BY <3>6, <3>7, <3>8, <3>9
    <2>4. QED
      BY <2>2, <2>3
  <1>7. CASE Answer
    BY <1>7 DEF Answer, DeliveryTypeOK, Phases, Conserved, PendingInv, StoreInv
  <1>8. CASE Fail
    BY <1>8 DEF Fail, DeliveryTypeOK, Phases, Conserved, PendingInv, StoreInv
  <1>9. CASE UNCHANGED deliveryVars
    BY <1>9 DEF deliveryVars, DeliveryTypeOK, Conserved, PendingInv, StoreInv
  <1>10. QED
    BY <1>1, <1>2, <1>3, <1>4, <1>5, <1>6, <1>7, <1>8, <1>9 DEF DeliveryNext, Closing

-----------------------------------------------------------------------------
THEOREM DeliveryInvariant == DeliverySpec => []DeliveryInv
  <1>1. /\ kept \subseteq Family /\ selected \subseteq Family /\ requested \subseteq Family
        /\ DeliveryInit
        => DeliveryInv
    BY InitInv
  <1>2. QED
    BY <1>1, NextInv, PTL DEF DeliverySpec

\* No sequence of calls loses, repeats or reorders a fact of a streamed family.
THEOREM DeliveryConserves == DeliverySpec => []Conserved
  <1>1. DeliveryInv => Conserved
    BY DEF DeliveryInv
  <1>2. QED
    BY <1>1, DeliveryInvariant, PTL

\* A closed delivery has handed over everything it was ever sent.
THEOREM DeliveryHandsOver == DeliverySpec => []HandedOver
  <1>1. DeliveryInv => HandedOver
    <2> SUFFICES ASSUME DeliveryInv, phase = "closed", NEW f \in Family
                 PROVE  /\ Streamed(f) => stream[f] = sent[f]
                        /\ Joined(f) => retained[f] = sent[f]
                        /\ f \in selected => rows[f] = sent[f]
      BY DEF HandedOver
    <2>1. pending[f] = <<>> /\ stream[f] \in Seq(Fact)
      BY DEF DeliveryInv, PendingInv, DeliveryTypeOK, Facts
    <2>2. stream[f] \o <<>> = stream[f]
      BY <2>1, ConcatEmptySeq
    <2>3. QED
      BY <2>1, <2>2 DEF DeliveryInv, Conserved, StoreInv
  <1>2. QED
    BY <1>1, DeliveryInvariant, PTL

\* No emission is larger than a batch, whatever mixture of calls came before it.
THEOREM BatchesBounded == DeliverySpec => BatchBound
  <1>1. DeliveryInv /\ [DeliveryNext]_deliveryVars =>
          [\A f \in Family : Len(stream'[f]) <= Len(stream[f]) + Batch]_deliveryVars
    <2> SUFFICES ASSUME DeliveryInv, DeliveryNext, NEW f \in Family
                 PROVE  Len(stream'[f]) <= Len(stream[f]) + Batch
      OBVIOUS
    <2>1. Len(stream[f]) \in Nat /\ stream[f] \in Seq(Fact) /\ pending[f] \in Seq(Fact)
      BY LenProperties DEF DeliveryInv, DeliveryTypeOK, Facts
    <2>2. CASE UNCHANGED stream
      BY <2>1, <2>2, DeliveryAssumption
    <2>3. CASE EmitBatch
      <3> DEFINE front == SubSeq(pending[sending], 1, Batch)
      <3>1. sending \in Family /\ pending[sending] \in Seq(Fact) /\ Len(pending[sending]) >= Batch
        BY <2>3 DEF EmitBatch, DeliveryInv, PendingInv, DeliveryTypeOK, Facts
      <3>2. front \in Seq(Fact) /\ Len(front) = Batch
        BY <3>1, CutBatch
      <3>3. stream' = [stream EXCEPT ![sending] = @ \o front]
        BY <2>3 DEF EmitBatch
      <3> HIDE DEF front
      <3>4. stream'[f] = IF f = sending THEN stream[f] \o front ELSE stream[f]
        BY <3>3 DEF DeliveryInv, DeliveryTypeOK, Facts
      <3>5. Len(stream[f] \o front) = Len(stream[f]) + Batch
        BY <2>1, <3>2, ConcatProperties
      <3>6. QED
        BY <2>1, <3>4, <3>5, DeliveryAssumption
    <2>4. CASE Flush
      <3>1. \A g \in Family : Len(pending[g]) < Batch
        <4>1. sending = Unset
          BY <2>4 DEF Flush, DeliveryInv, PendingInv
        <4>2. \A g \in Family : g # sending
          BY <4>1, DeliveryAssumption
        <4>3. QED
          BY <4>2 DEF DeliveryInv, PendingInv
      <3>2. stream'[f] \in {stream[f], stream[f] \o pending[f]}
        BY <2>4 DEF Flush, consumerVars, DeliveryInv, DeliveryTypeOK, Facts
      <3>3. Len(stream[f] \o pending[f]) = Len(stream[f]) + Len(pending[f])
        BY <2>1, ConcatProperties
      <3>4. Len(pending[f]) \in Nat
        BY <2>1, LenProperties
      <3>5. QED
        <4>1. Batch \in Nat /\ Len(pending[f]) < Batch
          BY <3>1, DeliveryAssumption
        <4>2. CASE stream'[f] = stream[f]
          BY <2>1, <4>1, <4>2
        <4>3. CASE stream'[f] = stream[f] \o pending[f]
          <5>1. Len(stream'[f]) = Len(stream[f]) + Len(pending[f])
            BY <3>3, <4>3
          <5>2. QED
            BY <2>1, <3>4, <4>1, <5>1
        <4>4. QED
          BY <3>2, <4>2, <4>3
    <2>5. QED
      BY <2>2, <2>3, <2>4
         DEF DeliveryNext, Closing, Send, MarkTyped, Close, MarkUnseen, Answer, Fail, consumerVars
  <1>2. QED
    BY <1>1, DeliveryInvariant, PTL DEF DeliverySpec, BatchBound

-----------------------------------------------------------------------------
(* The pipeline.                                                           *)

LEMMA RequestsAreFamilies ==
    ASSUME Init
    PROVE  /\ kept \subseteq Family /\ selected \subseteq Family /\ requested \subseteq Family
           /\ DeliveryInit
  BY PipelineAssumption DEF Init

\* Whatever step the pipeline takes, the delivery takes one of its own or none.
LEMMA PipelineStep ==
    ASSUME NextCallFits, [Next]_vars
    PROVE  [DeliveryNext]_deliveryVars
  <1>1. CASE DoSend
    <2>1. todo # <<>> /\ Head(todo).call = "send" /\ Send(Head(todo).family, Head(todo).facts)
      BY <1>1 DEF DoSend
    <2>2. /\ Head(todo).family \in Family
          /\ Head(todo).facts \in Seq({e \in Fact : e[1] = Head(todo).family})
      BY <2>1 DEF NextCallFits
    <2>3. Head(todo).facts \in Seq(Fact)
      BY <2>2, SeqMonotonic
    <2> QED BY <2>1, <2>2, <2>3 DEF DeliveryNext
  <1>2. CASE DoMark
    <2>1. todo # <<>> /\ Head(todo).call = "mark" /\ MarkTyped(Head(todo).family, Head(todo).rows)
      BY <1>2 DEF DoMark
    <2>2. Head(todo).family \in Family /\ Head(todo).rows \in Nat
      BY <2>1 DEF NextCallFits
    <2> QED BY <2>1, <2>2 DEF DeliveryNext
  <1>3. CASE ReceiveFails \/ Abandon
    BY <1>3 DEF ReceiveFails, Abandon, DeliveryNext
  <1>4. CASE Finish \/ Continue
    BY <1>4 DEF Finish, Continue, DeliveryNext
  <1>5. CASE Receive \/ Join \/ DoHold \/ DoTake \/ DoDrain
    BY <1>5 DEF Receive, Join, DoHold, DoTake, DoDrain
  <1>6. CASE \E w \in Worker : Work(w) \/ Panic(w)
    BY <1>6 DEF Work, Panic, Extract, Pass
  <1>7. CASE UNCHANGED vars
    BY <1>7 DEF vars
  <1> QED BY <1>1, <1>2, <1>3, <1>4, <1>5, <1>6, <1>7 DEF Next, Deliver

-----------------------------------------------------------------------------
(* What the consumer hears of, and in which ways a family is not delivered. *)

\* A family is found in no place its request does not send it to.
ElsewhereInv ==
    \A f \in Family :
        /\ ~Streamed(f) => stream[f] = <<>> /\ pending[f] = <<>>
        /\ ~Joined(f) => retained[f] = <<>>
        /\ f \notin selected => rows[f] = <<>>

\* The consumer has heard of the families it has facts of, and a family counts as emitted
\* only when it was given facts.
AnsweredInv ==
    /\ answered = {f \in Family : stream[f] # <<>>}
                     \cup (IF phase = "closed" THEN requested \ emitted_families ELSE {})
    /\ \A f \in requested \cap emitted_families : Streamed(f) /\ sent[f] # <<>>

\* A table is announced once, and the close leaves none unannounced.
MarkersInv ==
    /\ IsInjective(markers)
    /\ marked \subseteq selected \cap Listed(markers)
    /\ phase \in {"flush", "answer", "closed"} => selected \subseteq marked
    /\ phase \in {"answer", "closed"} => typed_markers = {}

ConsumerInv == ElsewhereInv /\ AnsweredInv /\ MarkersInv

LEMMA ListedAppend ==
    ASSUME NEW s \in Seq(Family), NEW f \in Family
    PROVE  /\ Listed(Append(s, f)) = Listed(s) \cup {f}
           /\ IsInjective(s) /\ f \notin Listed(s) => IsInjective(Append(s, f))
  <1> DEFINE t == Append(s, f)
  <1>1. /\ Len(s) \in Nat /\ DOMAIN s = 1..Len(s) /\ DOMAIN t = 1..(Len(s) + 1)
        /\ \A i \in 1..Len(s) : t[i] = s[i]
        /\ t[Len(s) + 1] = f
    BY AppendProperties, LenProperties
  <1>2. \A i \in 1..(Len(s) + 1) : i \in 1..Len(s) \/ i = Len(s) + 1
    BY <1>1
  <1>3. \A i \in 1..Len(s) : i \in 1..(Len(s) + 1)
    BY <1>1
  <1>4. Len(s) + 1 \in 1..(Len(s) + 1)
    BY <1>1
  <1> HIDE DEF t
  <1>5. Listed(t) = Listed(s) \cup {f}
    BY <1>1, <1>2, <1>3, <1>4 DEF Listed
  <1>6. ASSUME IsInjective(s), f \notin Listed(s), NEW i \in DOMAIN t, NEW j \in DOMAIN t, t[i] = t[j]
        PROVE  i = j
    <2>1. \A k \in 1..Len(s) : t[k] # f
      BY <1>1, <1>6 DEF Listed
    <2> QED BY <1>1, <1>2, <1>6, <2>1 DEF IsInjective
  <1>7. IsInjective(s) /\ f \notin Listed(s) => IsInjective(t)
    BY <1>6 DEF IsInjective
  <1> QED BY <1>5, <1>7 DEF t

LEMMA MarkedFacts ==
    ASSUME NEW f \in Family, markers \in Seq(Family)
    PROVE  /\ Listed(Marked(f)) = Listed(markers) \cup {f}
           /\ IsInjective(markers) => IsInjective(Marked(f))
  <1>1. CASE f \in Listed(markers)
    BY <1>1 DEF Marked
  <1>2. CASE f \notin Listed(markers)
    BY <1>2, ListedAppend DEF Marked
  <1> QED BY <1>1, <1>2

LEMMA ConsumerInit ==
    ASSUME DeliveryInit
    PROVE  ConsumerInv
  <1>1. ElsewhereInv
    BY DEF DeliveryInit, ElsewhereInv
  <1>2. AnsweredInv
    BY DEF DeliveryInit, AnsweredInv
  <1>3. MarkersInv
    <2>1. DOMAIN markers = {}
      BY DEF DeliveryInit
    <2> QED BY <2>1 DEF DeliveryInit, MarkersInv, IsInjective
  <1> QED BY <1>1, <1>2, <1>3 DEF ConsumerInv

LEMMA ElsewhereStep ==
    ASSUME DeliveryInv, ElsewhereInv, [DeliveryNext]_deliveryVars
    PROVE  ElsewhereInv'
  <1> USE DEF modeVars, storeVars, consumerVars, Streamed, Joined, Mirrored
  <1>1. /\ rows \in Facts /\ retained \in Facts /\ pending \in Facts /\ stream \in Facts
        /\ UNCHANGED <<kept, selected, requested>>
    BY DEF DeliveryInv, DeliveryTypeOK, DeliveryNext, deliveryVars, Send, MarkTyped, EmitBatch,
           Close, Closing, MarkUnseen, Flush, Answer, Fail
  <1>2. ASSUME NEW f \in Family, NEW produced \in Seq(Fact), Send(f, produced)
        PROVE  ElsewhereInv'
    <2>1. stream' = stream
      BY <1>2 DEF Send
    <2>2. CASE SendCaptured(f, produced)
      BY <1>1, <2>1, <2>2 DEF SendCaptured, ElsewhereInv, Facts
    <2>3. CASE SendRetained(f, produced)
      BY <1>1, <2>1, <2>3 DEF SendRetained, ElsewhereInv, Facts
    <2>4. CASE SendStreamed(f, produced)
      BY <1>1, <2>1, <2>4 DEF SendStreamed, ElsewhereInv, Facts
    <2> QED BY <1>2, <2>2, <2>3, <2>4 DEF Send
  <1>3. CASE EmitBatch
    <2>1. sending \in Family /\ Streamed(sending)
      BY <1>3, DeliveryAssumption DEF EmitBatch, DeliveryInv, DeliveryTypeOK, PendingInv
    <2> QED BY <1>1, <1>3, <2>1 DEF EmitBatch, ElsewhereInv, Facts
  <1>4. CASE Flush
    <2>1. CASE Unflushed = {}
      BY <1>1, <1>4, <2>1 DEF Flush, ElsewhereInv
    <2>2. CASE Unflushed # {}
      <3> DEFINE f == Least(Unflushed)
      <3>1. f \in Family
        <4>1. Unflushed \in SUBSET Family
          BY DEF Unflushed, DeliveryInv, DeliveryTypeOK
        <4> QED BY <2>2, <4>1, LeastMember
      <3>2. /\ stream' = [stream EXCEPT ![f] = @ \o pending[f]]
            /\ pending' = [pending EXCEPT ![f] = <<>>]
            /\ UNCHANGED <<retained, rows>>
        BY <1>4, <2>2 DEF Flush
      <3> HIDE DEF f
      <3>3. ~Streamed(f) => stream[f] \o pending[f] = <<>>
        BY <3>1 DEF ElsewhereInv
      <3> QED BY <1>1, <3>1, <3>2, <3>3 DEF ElsewhereInv, Facts
    <2> QED BY <2>1, <2>2
  <1>5. CASE UNCHANGED <<stream, pending, retained, rows>>
    BY <1>1, <1>5 DEF ElsewhereInv
  <1> QED BY <1>2, <1>3, <1>4, <1>5
          DEF DeliveryNext, deliveryVars, MarkTyped, Close, Closing, MarkUnseen, Answer, Fail

LEMMA AnsweredStep ==
    ASSUME DeliveryInv, ElsewhereInv, AnsweredInv, [DeliveryNext]_deliveryVars
    PROVE  AnsweredInv'
  <1> USE DEF modeVars, storeVars, consumerVars, Streamed, Joined, Mirrored
  <1>1. /\ sent \in Facts /\ pending \in Facts /\ stream \in Facts
        /\ UNCHANGED <<kept, selected, requested>>
    BY DEF DeliveryInv, DeliveryTypeOK, DeliveryNext, deliveryVars, Send, MarkTyped, EmitBatch,
           Close, Closing, MarkUnseen, Flush, Answer, Fail
  <1>2. ASSUME NEW f \in Family, NEW produced \in Seq(Fact), Send(f, produced)
        PROVE  AnsweredInv'
    <2>1. UNCHANGED <<stream, answered, phase>> /\ phase = "open"
          /\ sent' = [sent EXCEPT ![f] = @ \o produced]
      BY <1>2 DEF Send, Idle
    <2>2. /\ sent[f] \in Seq(Fact)
          /\ sent[f] \o produced = <<>> <=> sent[f] = <<>> /\ produced = <<>>
      BY <1>1, ConcatEqualIffEmpty DEF Facts
    <2>3. \A g \in Family : sent'[g] = IF g = f THEN sent[f] \o produced ELSE sent[g]
      BY <1>1, <2>1 DEF Facts
    <2>4. \A g \in Family : sent[g] # <<>> => sent'[g] # <<>>
      BY <2>2, <2>3
    <2>5. requested \subseteq Family
      BY DEF DeliveryInv, DeliveryTypeOK
    <2>6. CASE SendCaptured(f, produced)
      BY <1>1, <2>1, <2>4, <2>5, <2>6 DEF SendCaptured, AnsweredInv
    <2>7. CASE SendRetained(f, produced)
      BY <1>1, <2>1, <2>4, <2>5, <2>7 DEF SendRetained, AnsweredInv
    <2>8. CASE SendStreamed(f, produced)
      <3>1. /\ Streamed(f)
            /\ emitted_families' = IF produced = <<>> THEN emitted_families
                                                      ELSE emitted_families \cup {f}
        BY <2>8 DEF SendStreamed
      <3>2. produced # <<>> => sent'[f] # <<>>
        BY <2>2, <2>3
      <3>3. \A g \in (requested \cap emitted_families)' : Streamed(g)' /\ sent'[g] # <<>>
        BY <1>1, <2>4, <2>5, <3>1, <3>2 DEF AnsweredInv
      <3> QED BY <1>1, <2>1, <3>3 DEF AnsweredInv
    <2> QED BY <1>2, <2>6, <2>7, <2>8 DEF Send
  <1>3. CASE EmitBatch
    <2> DEFINE front == SubSeq(pending[sending], 1, Batch)
    <2>1. /\ sending \in Family /\ pending[sending] \in Seq(Fact) /\ phase # "closed"
          /\ Len(pending[sending]) >= Batch /\ stream[sending] \in Seq(Fact)
      BY <1>1, <1>3, DeliveryAssumption DEF EmitBatch, DeliveryInv, DeliveryTypeOK, PendingInv, Facts
    <2>2. front \in Seq(Fact) /\ Len(front) = Batch
      BY <2>1, CutBatch
    <2>3. stream' = [stream EXCEPT ![sending] = @ \o front] /\ answered' = answered \cup {sending}
          /\ UNCHANGED <<phase, emitted_families, sent>>
      BY <1>3 DEF EmitBatch
    <2>4. front # <<>>
      <3> HIDE DEF front
      <3> QED BY <2>2, DeliveryAssumption
    <2> HIDE DEF front
    <2>5. stream[sending] \o front # <<>>
      BY <2>1, <2>2, <2>4, ConcatEqualIffEmpty
    <2>6. \A g \in Family : stream'[g] = IF g = sending THEN stream[sending] \o front ELSE stream[g]
      BY <1>1, <2>3 DEF Facts
    <2>7. answered' = {g \in Family : stream'[g] # <<>>}
      BY <2>1, <2>3, <2>5, <2>6 DEF AnsweredInv
    <2> QED BY <1>1, <2>1, <2>3, <2>7 DEF AnsweredInv
  <1>4. CASE Flush
    <2>1. phase = "flush" /\ UNCHANGED <<emitted_families, sent>>
      BY <1>4 DEF Flush
    <2>2. CASE Unflushed = {}
      BY <1>1, <1>4, <2>1, <2>2 DEF Flush, AnsweredInv
    <2>3. CASE Unflushed # {}
      <3> DEFINE f == Least(Unflushed)
      <3>1. f \in Family
        <4>1. Unflushed \in SUBSET Family
          BY DEF Unflushed, DeliveryInv, DeliveryTypeOK
        <4> QED BY <2>3, <4>1, LeastMember
      <3>2. /\ stream' = [stream EXCEPT ![f] = @ \o pending[f]]
            /\ answered' = (IF pending[f] = <<>> THEN answered ELSE answered \cup {f})
            /\ phase' = phase
        BY <1>4, <2>3 DEF Flush
      <3> HIDE DEF f
      <3>3. stream[f] \in Seq(Fact) /\ pending[f] \in Seq(Fact)
        BY <1>1, <3>1 DEF Facts
      <3>4. /\ stream[f] \o pending[f] = <<>> <=> stream[f] = <<>> /\ pending[f] = <<>>
            /\ stream[f] \o <<>> = stream[f]
        BY <3>3, ConcatEqualIffEmpty, ConcatEmptySeq
      <3>5. \A g \in Family : stream'[g] = IF g = f THEN stream[f] \o pending[f] ELSE stream[g]
        BY <1>1, <3>2 DEF Facts
      <3>6. answered' = {g \in Family : stream'[g] # <<>>}
        BY <2>1, <3>1, <3>2, <3>4, <3>5 DEF AnsweredInv
      <3> QED BY <1>1, <2>1, <3>2, <3>6 DEF AnsweredInv
    <2> QED BY <2>2, <2>3
  <1>5. CASE Answer
    BY <1>1, <1>5 DEF Answer, AnsweredInv
  <1>6. CASE Fail
    BY <1>1, <1>6 DEF Fail, AnsweredInv
  <1>7. CASE Close \/ MarkUnseen \/ UNCHANGED deliveryVars
    <2>1. /\ UNCHANGED <<stream, answered, sent, emitted_families>>
          /\ \/ phase' = phase
             \/ phase # "closed" /\ phase' # "closed"
      BY <1>7 DEF Close, Idle, MarkUnseen, deliveryVars
    <2> QED BY <1>1, <2>1 DEF AnsweredInv
  <1>8. ASSUME NEW f \in Family, NEW row_count \in Nat, MarkTyped(f, row_count)
        PROVE  AnsweredInv'
    BY <1>1, <1>8 DEF MarkTyped, AnsweredInv
  <1> QED BY <1>2, <1>3, <1>4, <1>5, <1>6, <1>7, <1>8 DEF DeliveryNext, Closing

LEMMA MarkersStep ==
    ASSUME DeliveryInv, MarkersInv, [DeliveryNext]_deliveryVars
    PROVE  MarkersInv'
  <1> USE DEF modeVars, storeVars, consumerVars
  <1>1. /\ markers \in Seq(Family) /\ selected \subseteq Family /\ selected' = selected
    BY DEF DeliveryInv, DeliveryTypeOK, DeliveryNext, deliveryVars, Send, MarkTyped, EmitBatch,
           Close, Closing, MarkUnseen, Flush, Answer, Fail
  <1>2. \A f \in Family : /\ Listed(Marked(f)) = Listed(markers) \cup {f}
                          /\ IsInjective(Marked(f))
    BY <1>1, MarkedFacts DEF MarkersInv
  <1>3. ASSUME NEW f \in Family, NEW produced \in Seq(Fact), Send(f, produced)
        PROVE  MarkersInv'
    <2>1. phase = "open" /\ phase' = phase
          /\ \/ f \in selected /\ marked' = marked \cup {f} /\ markers' = Marked(f)
             \/ UNCHANGED <<marked, markers>>
      BY <1>3 DEF Send, Idle
    <2> QED BY <1>1, <1>2, <2>1 DEF MarkersInv
  <1>4. ASSUME NEW f \in Family, NEW row_count \in Nat, MarkTyped(f, row_count)
        PROVE  MarkersInv'
    <2>1. phase = "open" /\ phase' = phase /\ marked' = marked
          /\ (markers' = Marked(f) \/ markers' = markers)
      BY <1>4 DEF MarkTyped, Idle
    <2> QED BY <1>1, <1>2, <2>1 DEF MarkersInv
  <1>5. CASE MarkUnseen
    <2>1. CASE selected \ marked = {}
      BY <1>1, <1>5, <2>1 DEF MarkUnseen, MarkersInv
    <2>2. CASE selected \ marked # {}
      <3> DEFINE f == Least(selected \ marked)
      <3>1. f \in selected \ marked /\ f \in Family
        BY <1>1, <2>2, LeastMember
      <3>2. marked' = marked \cup {f} /\ markers' = Marked(f) /\ phase' = phase /\ phase = "unseen"
        BY <1>5, <2>2 DEF MarkUnseen
      <3> HIDE DEF f
      <3> QED BY <1>1, <1>2, <3>1, <3>2 DEF MarkersInv
    <2> QED BY <2>1, <2>2
  <1>6. CASE Flush
    <2>1. CASE Unflushed = {}
      BY <1>1, <1>6, <2>1 DEF Flush, Unflushed, MarkersInv
    <2>2. CASE Unflushed # {}
      <3> DEFINE f == Least(Unflushed)
      <3>1. f \in Family
        <4>1. Unflushed \in SUBSET Family
          BY DEF Unflushed, DeliveryInv, DeliveryTypeOK
        <4> QED BY <2>2, <4>1, LeastMember
      <3>2. /\ markers' = (IF f \in typed_markers THEN Marked(f) ELSE markers)
            /\ phase' = phase /\ phase = "flush" /\ marked' = marked
        BY <1>6, <2>2 DEF Flush
      <3> HIDE DEF f
      <3> QED BY <1>1, <1>2, <3>1, <3>2 DEF MarkersInv
    <2> QED BY <2>1, <2>2
  <1>7. CASE EmitBatch \/ Close \/ Answer \/ Fail \/ UNCHANGED deliveryVars
    <2>1. UNCHANGED <<markers, marked, typed_markers>>
          /\ (phase' = phase \/ phase' \in {"unseen", "failed"} \/ (phase = "answer" /\ phase' = "closed"))
      BY <1>7 DEF EmitBatch, Close, Answer, Fail, deliveryVars
    <2> QED BY <1>1, <2>1 DEF MarkersInv
  <1> QED BY <1>3, <1>4, <1>5, <1>6, <1>7 DEF DeliveryNext, Closing

-----------------------------------------------------------------------------
(* The calls of a pipeline, and what they do with the facts of a family.   *)

FactsIn(f) == {e \in Fact : e[1] = f}

PipelineCall ==
    UNION {[call : {"mark"}, family : {f}, rows : Nat]
             \cup [call : {"send", "hold"}, family : {f}, facts : Seq(FactsIn(f))]
             \cup [call : {"take"}, family : {f}, how : {"whole", "drain", "aside"}]
             \cup [call : {"drain"}, family : {f}] : f \in Families}

\* What a call is still going to send or hold of a family: its facts, or the ones it reads
\* from the store, h.
Part(f, h) ==
    [c \in PipelineCall |->
        IF c.family # f \/ c.call = "mark" THEN <<>>
        ELSE IF c.call \in {"send", "hold"} THEN c.facts
        ELSE IF c.call = "take" /\ c.how = "aside" THEN <<>>
        ELSE h]
Left(l, f, h) == Projected(l, Part(f, h))

\* The calls that read a family from the store.
Reading(f) == [c \in PipelineCall |->
                  IF c.family = f /\ c.call \in {"take", "drain"} THEN <<f>> ELSE <<>>]
Reads(l, f) == Projected(l, Reading(f))

LEMMA CallShapes ==
    ASSUME NEW f \in Families
    PROVE  /\ \A n \in Nat : /\ Mark(f, n) \in PipelineCall /\ Mark(f, n).call = "mark"
                             /\ Mark(f, n).family = f /\ Mark(f, n).rows = n
           /\ \A s \in Seq(FactsIn(f)) :
                 /\ Give(f, s) \in PipelineCall /\ Give(f, s).call = "send"
                 /\ Give(f, s).family = f /\ Give(f, s).facts = s
                 /\ Hold(f, s) \in PipelineCall /\ Hold(f, s).call = "hold"
                 /\ Hold(f, s).family = f /\ Hold(f, s).facts = s
           /\ \A how \in {"whole", "drain", "aside"} :
                 /\ Take(f, how) \in PipelineCall /\ Take(f, how).call = "take"
                 /\ Take(f, how).family = f /\ Take(f, how).how = how
           /\ Drain(f) \in PipelineCall /\ Drain(f).call = "drain" /\ Drain(f).family = f
  BY DEF PipelineCall, Mark, Give, Hold, Take, Drain

LEMMA CallFields ==
    ASSUME NEW c \in PipelineCall
    PROVE  /\ c.family \in Families
           /\ c.call \in {"mark", "send", "hold", "take", "drain"}
           /\ c.call = "mark" => c.rows \in Nat
           /\ c.call \in {"send", "hold"} => c.facts \in Seq(FactsIn(c.family))
           /\ c.call = "take" => c.how \in {"whole", "drain", "aside"}
  BY DEF PipelineCall

LEMMA FactsInFact == \A f : \A s \in Seq(FactsIn(f)) : s \in Seq(Fact)
  <1> SUFFICES ASSUME NEW f, NEW s \in Seq(FactsIn(f)) PROVE s \in Seq(Fact)
    OBVIOUS
  <1>1. FactsIn(f) \subseteq Fact
    BY DEF FactsIn
  <1> QED BY <1>1, SeqMonotonic

LEMMA PartType ==
    ASSUME NEW f, NEW h \in Seq(Fact)
    PROVE  Part(f, h) \in ListsFor(PipelineCall, Fact)
  <1> SUFFICES ASSUME NEW c \in PipelineCall
               PROVE  (IF c.family # f \/ c.call = "mark" THEN <<>>
                       ELSE IF c.call \in {"send", "hold"} THEN c.facts
                       ELSE IF c.call = "take" /\ c.how = "aside" THEN <<>>
                       ELSE h) \in Seq(Fact)
    BY DEF Part, ListsFor
  <1>1. <<>> \in Seq(Fact)
    BY EmptySeq
  <1>2. c.call \in {"send", "hold"} => c.facts \in Seq(Fact)
    BY CallFields, FactsInFact
  <1> QED BY <1>1, <1>2

LEMMA ReadingType ==
    ASSUME NEW f
    PROVE  Reading(f) \in ListsFor(PipelineCall, {f})
  <1>1. <<>> \in Seq({f}) /\ <<f>> \in Seq({f})
    BY EmptySeq, ToSetOfOne
  <1> QED BY <1>1 DEF Reading, ListsFor

\* The calls of each family, none or one.
CallLists(fs, S, call) == [i \in DOMAIN fs |-> IF fs[i] \in S THEN <<call[fs[i]]>> ELSE <<>>]

LEMMA CallsAsLists ==
    ASSUME NEW S, NEW fs \in Seq(Families), NEW call \in [Families -> PipelineCall]
    PROVE  /\ CallLists(fs, S, call) \in Seq(Seq(PipelineCall))
           /\ Len(CallLists(fs, S, call)) = Len(fs)
           /\ Calls(fs, S, call) = FlattenSeq(CallLists(fs, S, call))
  <1> DEFINE s == [i \in DOMAIN fs |-> IF fs[i] \in S THEN <<call[fs[i]]>> ELSE <<>>]
  <1>1. DOMAIN fs = 1..Len(fs) /\ Len(fs) \in Nat /\ \A i \in 1..Len(fs) : fs[i] \in Families
    BY LenProperties, ElementOfSeq
  <1>2. <<>> \in Seq(PipelineCall) /\ \A c \in PipelineCall : <<c>> \in Seq(PipelineCall)
    BY EmptySeq, ToSetOfOne
  <1>3. \A i \in 1..Len(fs) : s[i] \in Seq(PipelineCall)
    <2> SUFFICES ASSUME NEW i \in 1..Len(fs) PROVE s[i] \in Seq(PipelineCall)
      OBVIOUS
    <2>1. s[i] \in {<<call[fs[i]]>>, <<>>}
      BY <1>1
    <2>2. call[fs[i]] \in PipelineCall
      BY <1>1
    <2> QED BY <1>2, <2>1, <2>2
  <1>4. s = [i \in 1..Len(fs) |-> s[i]]
    BY <1>1
  <1> HIDE DEF s
  <1>5. s \in Seq(Seq(PipelineCall)) /\ Len(s) = Len(fs)
    BY <1>1, <1>3, <1>4
  <1> QED BY <1>5 DEF Calls, CallLists, s

LEMMA CallsFacts ==
    ASSUME NEW S, NEW fs \in Seq(Families), NEW call \in [Families -> PipelineCall]
    PROVE  /\ Calls(fs, S, call) \in Seq(PipelineCall)
           /\ ToSet(Calls(fs, S, call)) = {call[f] : f \in ToSet(fs) \cap S}
  <1> DEFINE s == CallLists(fs, S, call)
  <1>1. s \in Seq(Seq(PipelineCall)) /\ Len(s) = Len(fs) /\ Calls(fs, S, call) = FlattenSeq(s)
    BY CallsAsLists
  <1>2. /\ DOMAIN fs = 1..Len(fs) /\ \A i \in 1..Len(fs) : fs[i] \in Families
        /\ ToSet(fs) = {fs[i] : i \in 1..Len(fs)}
    BY LenProperties, ElementOfSeq, ToSetOfSeq
  <1>3. \A i \in 1..Len(fs) : s[i] = IF fs[i] \in S THEN <<call[fs[i]]>> ELSE <<>>
    BY <1>2 DEF CallLists
  <1> HIDE DEF s
  <1>4. FlattenSeq(s) \in Seq(PipelineCall) /\ ToSet(FlattenSeq(s)) = UNION {ToSet(l) : l \in ToSet(s)}
    BY <1>1, FlattenFacts
  <1>5. ToSet(s) = {s[i] : i \in 1..Len(fs)}
    BY <1>1, ToSetOfSeq
  <1>6. \A i \in 1..Len(fs) : ToSet(s[i]) = IF fs[i] \in S THEN {call[fs[i]]} ELSE {}
    <2> SUFFICES ASSUME NEW i \in 1..Len(fs)
                 PROVE  ToSet(s[i]) = IF fs[i] \in S THEN {call[fs[i]]} ELSE {}
      OBVIOUS
    <2>1. CASE fs[i] \in S
      <3>1. call[fs[i]] \in PipelineCall
        BY <1>2
      <3>2. ToSet(<<call[fs[i]]>>) = {call[fs[i]]}
        BY <3>1, ToSetOfOne
      <3> QED BY <1>3, <2>1, <3>2
    <2>2. CASE fs[i] \notin S
      <3>1. ToSet(<<>>) = {}
        BY DEF ToSet
      <3> QED BY <1>3, <2>2, <3>1
    <2> QED BY <2>1, <2>2
  <1>7. UNION {ToSet(l) : l \in ToSet(s)} = {call[f] : f \in ToSet(fs) \cap S}
    <2>1. ASSUME NEW c \in UNION {ToSet(l) : l \in ToSet(s)}
          PROVE  c \in {call[f] : f \in ToSet(fs) \cap S}
      <3>1. PICK i \in 1..Len(fs) : c \in ToSet(s[i])
        BY <1>5
      <3>2. fs[i] \in S /\ c = call[fs[i]]
        BY <1>6, <3>1
      <3> QED BY <1>2, <3>2
    <2>2. ASSUME NEW f \in ToSet(fs) \cap S
          PROVE  call[f] \in UNION {ToSet(l) : l \in ToSet(s)}
      <3>1. PICK i \in 1..Len(fs) : f = fs[i]
        BY <1>2, <2>2
      <3>2. call[f] \in ToSet(s[i]) /\ s[i] \in ToSet(s)
        BY <1>5, <1>6, <2>2, <3>1
      <3> QED BY <3>2
    <2> QED BY <2>1, <2>2
  <1> QED BY <1>1, <1>4, <1>7

\* Lists of families without repetition.
OnceEach(fs) == fs \in Seq(Families) /\ \A i, j \in 1..Len(fs) : fs[i] = fs[j] => i = j

\* Of the calls for some families only the one of f counts.
OnlyOf(f, fs, S, call, p) == \A g \in ToSet(fs) \cap S : g # f => p[call[g]] = <<>>

LEMMA CallsProjected ==
    ASSUME NEW S, NEW fs, OnceEach(fs), NEW call \in [Families -> PipelineCall],
           NEW X, NEW p \in ListsFor(PipelineCall, X), NEW f, OnlyOf(f, fs, S, call, p)
    PROVE  Projected(Calls(fs, S, call), p) = IF f \in ToSet(fs) \cap S THEN p[call[f]] ELSE <<>>
  <1> DEFINE s == CallLists(fs, S, call)
             t == [i \in 1..Len(s) |-> Projected(s[i], p)]
             I == {i \in 1..Len(fs) : fs[i] = f /\ f \in S}
  <1>20. fs \in Seq(Families) /\ \A i, j \in 1..Len(fs) : fs[i] = fs[j] => i = j
    BY DEF OnceEach
  <1>1. s \in Seq(Seq(PipelineCall)) /\ Len(s) = Len(fs) /\ Calls(fs, S, call) = FlattenSeq(s)
    BY <1>20, CallsAsLists
  <1>2. /\ DOMAIN fs = 1..Len(fs) /\ \A i \in 1..Len(fs) : fs[i] \in Families
        /\ ToSet(fs) = {fs[i] : i \in 1..Len(fs)} /\ Len(fs) \in Nat
    BY <1>20, LenProperties, ElementOfSeq, ToSetOfSeq
  <1>3. \A i \in 1..Len(fs) : s[i] = IF fs[i] \in S THEN <<call[fs[i]]>> ELSE <<>>
    BY <1>2 DEF CallLists
  <1> HIDE DEF s
  <1>4. t \in Seq(Seq(X)) /\ Projected(FlattenSeq(s), p) = FlattenSeq(t)
    <2>1. Len(t) = Len(s) /\ \A i \in 1..Len(s) : t[i] = Projected(s[i], p)
      BY <1>1, <1>2
    <2>2. \A i \in 1..Len(s) : s[i] \in Seq(PipelineCall)
      BY <1>1, ElementOfSeq
    <2>3. \A i \in 1..Len(s) : Projected(s[i], p) \in Seq(X)
      BY <2>2, ProjectedType
    <2>4. t \in Seq(Seq(X))
      BY <1>1, <1>2, <2>3
    <2> HIDE DEF t
    <2>5. Projected(FlattenSeq(s), p) = FlattenSeq(t)
      <3>1. s \in Seq(Seq(PipelineCall)) /\ p \in ListsFor(PipelineCall, X) /\ t \in Seq(Seq(X))
        BY <1>1, <2>4
      <3>2. ProjectedEach(s, p, t)
        BY <2>1 DEF ProjectedEach
      <3> QED BY <3>1, <3>2, ProjectedFlatten
    <2> QED BY <2>4, <2>5
  <1>5. \A i \in 1..Len(fs) : t[i] = IF fs[i] \in S THEN p[call[fs[i]]] ELSE <<>>
    <2> SUFFICES ASSUME NEW i \in 1..Len(fs)
                 PROVE  t[i] = IF fs[i] \in S THEN p[call[fs[i]]] ELSE <<>>
      OBVIOUS
    <2>1. t[i] = Projected(s[i], p)
      BY <1>1
    <2>2. CASE fs[i] \in S
      <3>1. call[fs[i]] \in PipelineCall
        BY <1>2
      <3>2. Projected(<<call[fs[i]]>>, p) = p[call[fs[i]]]
        BY <3>1, ProjectedOne
      <3> QED BY <1>3, <2>1, <2>2, <3>2
    <2>3. CASE fs[i] \notin S
      BY <1>3, <2>1, <2>3, ProjectedEmpty
    <2> QED BY <2>2, <2>3
  <1>6. Len(t) = Len(fs)
    BY <1>1, <1>2
  <1> HIDE DEF t
  <1>7. \A i, j \in I : i = j
    BY <1>20
  <1>8. \A i \in 1..Len(t) : i \notin I => t[i] = <<>>
    BY <1>2, <1>5, <1>6 DEF OnlyOf
  <1>9. /\ \A i \in 1..Len(t) : i \in I => FlattenSeq(t) = t[i]
        /\ (\A i \in 1..Len(t) : i \notin I) => FlattenSeq(t) = <<>>
    <2> HIDE DEF I
    <2> QED BY <1>4, <1>7, <1>8, FlattenPick
  <1>10. CASE f \in ToSet(fs) \cap S
    <2>1. PICK i \in 1..Len(fs) : fs[i] = f
      BY <1>2, <1>10
    <2>2. i \in I /\ t[i] = p[call[f]]
      BY <1>5, <1>10, <2>1
    <2> QED BY <1>1, <1>4, <1>6, <1>9, <1>10, <2>2
  <1>11. CASE f \notin ToSet(fs) \cap S
    <2>1. \A i \in 1..Len(t) : i \notin I
      BY <1>2, <1>6, <1>11
    <2> QED BY <1>1, <1>4, <1>9, <1>11, <2>1
  <1> QED BY <1>10, <1>11

-----------------------------------------------------------------------------
(* The facts of a family.                                                  *)

LEMMA SizeIsNat == Docs \in Nat /\ \A f \in Families, d \in 0..Docs : Size[f][d] \in Nat
  <1>1. /\ Docs \in Nat
        /\ Size \in [Families -> [0..Docs -> Nat]]
    BY PipelineAssumption
  <1> QED BY <1>1

LEMMA FactsOfType ==
    ASSUME NEW f \in Families, NEW d \in 0..Docs
    PROVE  /\ FactsOf(f, d) \in Seq(FactsIn(f)) /\ FactsOf(f, d) \in Seq(Fact)
           /\ Len(FactsOf(f, d)) = Size[f][d]
  <1>1. Size[f][d] \in Nat
    BY SizeIsNat
  <1>2. \A i \in 1..Size[f][d] : <<f, d, i>> \in FactsIn(f)
    <2> SUFFICES ASSUME NEW i \in 1..Size[f][d] PROVE <<f, d, i>> \in FactsIn(f)
      OBVIOUS
    <2>1. <<f, d, i>> \in SomeFacts
      <3> DEFINE all == {{<<g, e, j>> : j \in 1..Size[g][e]} : g \in Families, e \in 0..Docs}
      <3>1. <<f, d, i>> \in {<<f, d, j>> : j \in 1..Size[f][d]}
        OBVIOUS
      <3>2. {<<f, d, j>> : j \in 1..Size[f][d]} \in all
        OBVIOUS
      <3>3. SomeFacts = UNION all
        BY DEF SomeFacts
      <3> HIDE DEF all
      <3> QED BY <3>1, <3>2, <3>3
    <2>2. <<f, d, i>> \in Fact
      BY <2>1, PipelineAssumption
    <2> QED BY <2>2 DEF FactsIn
  <1>3. FactsOf(f, d) \in Seq(FactsIn(f)) /\ Len(FactsOf(f, d)) = Size[f][d]
    BY <1>1, <1>2 DEF FactsOf
  <1> QED BY <1>3, FactsInFact

LEMMA FactsElsewhere ==
    ASSUME NEW f \in Families, NEW d \in 0..Docs, ~(d = 0 <=> f \in {Directory, Route})
    PROVE  FactsOf(f, d) = <<>>
  <1>1. Size[f][d] = 0
    BY PipelineAssumption
  <1> QED BY <1>1 DEF FactsOf

LEMMA UptoFacts ==
    ASSUME NEW f \in Families
    PROVE  /\ Upto(f, 0) = <<>>
           /\ \A n \in 0..Docs : Upto(f, n) \in Seq(Fact)
           /\ \A n \in 0..(Docs - 1) : Upto(f, n + 1) = Upto(f, n) \o FactsOf(f, n + 1)
  <1> DEFINE U(n) == [d \in 1..n |-> FactsOf(f, d)]
  <1>1. Docs \in Nat
    BY SizeIsNat
  <1>2. \A n \in 0..Docs : U(n) \in Seq(Seq(Fact)) /\ Len(U(n)) = n
    <2> SUFFICES ASSUME NEW n \in 0..Docs PROVE U(n) \in Seq(Seq(Fact)) /\ Len(U(n)) = n
      OBVIOUS
    <2>1. \A d \in 1..n : FactsOf(f, d) \in Seq(Fact)
      <3> SUFFICES ASSUME NEW d \in 1..n PROVE FactsOf(f, d) \in Seq(Fact)
        OBVIOUS
      <3>1. d \in 0..Docs
        BY <1>1
      <3> QED BY <3>1, FactsOfType
    <2> QED BY <1>1, <2>1
  <1>3. Upto(f, 0) = <<>>
    <2>1. U(0) = <<>>
      OBVIOUS
    <2> QED BY <2>1, FlattenEmpty DEF Upto
  <1>4. \A n \in 0..Docs : Upto(f, n) \in Seq(Fact)
    <2> SUFFICES ASSUME NEW n \in 0..Docs PROVE Upto(f, n) \in Seq(Fact)
      OBVIOUS
    <2>1. U(n) \in Seq(Seq(Fact))
      BY <1>2
    <2> QED BY <2>1, FlattenFacts DEF Upto
  <1>5. ASSUME NEW n \in 0..(Docs - 1)
        PROVE  Upto(f, n + 1) = Upto(f, n) \o FactsOf(f, n + 1)
    <2>1. n \in 0..Docs /\ n + 1 \in 0..Docs /\ n \in Nat
      BY <1>1
    <2>2. FactsOf(f, n + 1) \in Seq(Fact)
      BY <2>1, FactsOfType
    <2>3. U(n) \in Seq(Seq(Fact)) /\ Len(U(n)) = n /\ U(n + 1) \in Seq(Seq(Fact)) /\ Len(U(n + 1)) = n + 1
      BY <1>2, <2>1
    <2>4. /\ Append(U(n), FactsOf(f, n + 1)) \in Seq(Seq(Fact))
          /\ Len(Append(U(n), FactsOf(f, n + 1))) = n + 1
          /\ \A i \in 1..n : Append(U(n), FactsOf(f, n + 1))[i] = U(n)[i]
          /\ Append(U(n), FactsOf(f, n + 1))[n + 1] = FactsOf(f, n + 1)
      <3> DEFINE u == U(n)
                 e == FactsOf(f, n + 1)
      <3>1. u \in Seq(Seq(Fact)) /\ Len(u) = n /\ e \in Seq(Fact)
        BY <2>2, <2>3
      <3> HIDE DEF u, e
      <3>2. /\ Append(u, e) \in Seq(Seq(Fact)) /\ Len(Append(u, e)) = n + 1
            /\ \A i \in 1..n : Append(u, e)[i] = u[i]
            /\ Append(u, e)[n + 1] = e
        BY <3>1, AppendProperties
      <3> QED BY <3>2 DEF u, e
    <2>5. \A i \in 1..(n + 1) : U(n + 1)[i] = Append(U(n), FactsOf(f, n + 1))[i]
      <3> SUFFICES ASSUME NEW i \in 1..(n + 1)
                   PROVE  U(n + 1)[i] = Append(U(n), FactsOf(f, n + 1))[i]
        OBVIOUS
      <3>1. U(n + 1)[i] = FactsOf(f, i)
        OBVIOUS
      <3>2. CASE i = n + 1
        BY <2>4, <3>1, <3>2
      <3>3. CASE i \in 1..n
        <4>1. U(n)[i] = FactsOf(f, i)
          BY <3>3
        <4> QED BY <2>4, <3>1, <3>3, <4>1
      <3> QED BY <2>1, <3>2, <3>3
    <2>6. U(n + 1) = Append(U(n), FactsOf(f, n + 1))
      <3> DEFINE u == U(n + 1)
                 v == Append(U(n), FactsOf(f, n + 1))
      <3>1. u \in Seq(Seq(Fact)) /\ v \in Seq(Seq(Fact)) /\ Len(u) = n + 1 /\ Len(v) = n + 1
            /\ \A i \in 1..(n + 1) : u[i] = v[i]
        BY <2>3, <2>4, <2>5
      <3> HIDE DEF u, v
      <3>2. u = v
        BY <3>1, SeqEqual
      <3> QED BY <3>2 DEF u, v
    <2>7. FlattenSeq(Append(U(n), FactsOf(f, n + 1))) = FlattenSeq(U(n)) \o FactsOf(f, n + 1)
      <3> DEFINE u == U(n)
                 e == FactsOf(f, n + 1)
      <3>1. u \in Seq(Seq(Fact)) /\ e \in Seq(Fact)
        BY <2>2, <2>3
      <3> HIDE DEF u, e
      <3>2. FlattenSeq(Append(u, e)) = FlattenSeq(u) \o e
        BY <3>1, FlattenAppend
      <3> QED BY <3>2 DEF u, e
    <2> QED BY <2>6, <2>7 DEF Upto
  <1> QED BY <1>3, <1>4, <1>5

LEMMA SourceFacts ==
    ASSUME NEW f \in Families
    PROVE  /\ Source(f) \in Seq(Fact)
           /\ f \in {Directory, Route} => Source(f) = FactsOf(f, 0)
           /\ f \notin {Directory, Route} => Source(f) = Upto(f, Docs)
  <1>1. Docs \in Nat /\ 0 \in 0..Docs /\ Docs \in 0..Docs
    BY SizeIsNat
  <1>2. Upto(f, Docs) \in Seq(Fact) /\ FactsOf(f, 0) \in Seq(Fact)
    BY <1>1, UptoFacts, FactsOfType
  <1>3. Source(f) \in Seq(Fact)
    BY <1>2, ConcatProperties DEF Source
  <1>4. CASE f \notin {Directory, Route}
    <2>1. FactsOf(f, 0) = <<>>
      BY <1>1, <1>4, FactsElsewhere
    <2> QED BY <1>2, <1>3, <1>4, <2>1, ConcatEmptySeq DEF Source
  <1>5. CASE f \in {Directory, Route}
    <2> DEFINE T == {n \in 0..Docs : Upto(f, n) = <<>>}
    <2>1. 0 \in T
      BY <1>1, UptoFacts
    <2>2. \A n \in 0..(Docs - 1) : n \in T => n + 1 \in T
      <3> SUFFICES ASSUME NEW n \in 0..(Docs - 1), n \in T PROVE n + 1 \in T
        OBVIOUS
      <3>1. n + 1 \in 0..Docs /\ n + 1 # 0
        BY <1>1
      <3>2. FactsOf(f, n + 1) = <<>>
        BY <1>5, <3>1, FactsElsewhere
      <3>3. <<>> \o <<>> = <<>>
        OBVIOUS
      <3> QED BY <3>1, <3>2, <3>3, UptoFacts
    <2>3. Docs \in T
      <3> HIDE DEF T
      <3>1. \A n \in 0..Docs : n \in T
        BY <1>1, <2>1, <2>2, Induction
      <3> QED BY <1>1, <3>1
    <2> QED BY <1>2, <1>3, <1>5, <2>3, ConcatEmptySeq DEF Source
  <1> QED BY <1>3, <1>4, <1>5

\* What the first documents bring is the beginning of what the repository has.
LEMMA UptoIsPrefix ==
    ASSUME NEW f \in Families, NEW n \in 0..Docs
    PROVE  \E rest \in Seq(Fact) : Source(f) = Upto(f, n) \o rest
  <1> DEFINE m == Docs - n
             T == {k \in 0..m : \E rest \in Seq(Fact) : Upto(f, n + k) = Upto(f, n) \o rest}
  <1>1. Docs \in Nat /\ m \in Nat /\ n \in Nat
    BY SizeIsNat
  <1>2. Upto(f, n) \in Seq(Fact)
    BY UptoFacts
  <1>3. 0 \in T
    <2>1. <<>> \in Seq(Fact) /\ Upto(f, n) \o <<>> = Upto(f, n)
      BY <1>2, EmptySeq, ConcatEmptySeq
    <2>2. n + 0 = n /\ 0 \in 0..m
      BY <1>1
    <2>3. Upto(f, n + 0) = Upto(f, n) \o <<>>
      BY <2>1, <2>2
    <2> QED BY <2>1, <2>2, <2>3
  <1>4. \A k \in 0..(m - 1) : k \in T => k + 1 \in T
    <2> SUFFICES ASSUME NEW k \in 0..(m - 1), k \in T PROVE k + 1 \in T
      OBVIOUS
    <2>1. n + k \in 0..(Docs - 1) /\ n + (k + 1) = (n + k) + 1 /\ (n + k) + 1 \in 0..Docs /\ k + 1 \in 0..m
      BY <1>1
    <2>2. PICK rest \in Seq(Fact) : Upto(f, n + k) = Upto(f, n) \o rest
      OBVIOUS
    <2>3. Upto(f, (n + k) + 1) = Upto(f, n + k) \o FactsOf(f, (n + k) + 1)
      BY <2>1, UptoFacts
    <2>4. FactsOf(f, (n + k) + 1) \in Seq(Fact)
      BY <2>1, FactsOfType
    <2> DEFINE e == FactsOf(f, (n + k) + 1)
               u == Upto(f, n)
    <2>5. e \in Seq(Fact) /\ u \in Seq(Fact)
      BY <1>2, <2>4
    <2> HIDE DEF e, u
    <2>6. (u \o rest) \o e = u \o (rest \o e) /\ rest \o e \in Seq(Fact)
      <3>1. (u \o rest) \o e = u \o (rest \o e)
        BY <2>5, Regroup
      <3>2. rest \o e \in Seq(Fact)
        BY <2>5, ConcatProperties
      <3> QED BY <3>1, <3>2
    <2> QED BY <2>1, <2>2, <2>3, <2>6 DEF e, u
  <1>5. m \in T
    <2>1. \A k \in 0..m : k \in T
      <3> HIDE DEF T, m
      <3> QED BY <1>1, <1>3, <1>4, Induction
    <2>2. m \in 0..m
      BY <1>1
    <2> HIDE DEF T, m
    <2> QED BY <2>1, <2>2
  <1>6. PICK rest \in Seq(Fact) : Upto(f, Docs) = Upto(f, n) \o rest
    <2>1. n + m = Docs
      BY <1>1
    <2> QED BY <1>5, <2>1
  <1>7. FactsOf(f, 0) \in Seq(Fact)
    BY <1>1, FactsOfType
  <1> DEFINE e == FactsOf(f, 0)
             u == Upto(f, n)
  <1>8. e \in Seq(Fact) /\ u \in Seq(Fact)
    BY <1>2, <1>7
  <1> HIDE DEF e, u
  <1>9. (u \o rest) \o e = u \o (rest \o e) /\ rest \o e \in Seq(Fact)
    <2>1. (u \o rest) \o e = u \o (rest \o e)
      BY <1>8, Regroup
    <2>2. rest \o e \in Seq(Fact)
      BY <1>8, ConcatProperties
    <2> QED BY <2>1, <2>2
  <1> QED BY <1>6, <1>9 DEF Source, e, u

-----------------------------------------------------------------------------
(* Counting over the families.                                             *)

LEMMA SumType ==
    ASSUME NEW t \in [Families -> Nat]
    PROVE  Sum(t) \in Nat
  BY DEF Sum, Families

LEMMA SumAdds ==
    ASSUME NEW t \in [Families -> Nat], NEW u \in [Families -> Nat], NEW f \in Families,
           NEW n \in Nat, \A g \in Families : u[g] = IF g = f THEN t[g] + n ELSE t[g]
    PROVE  Sum(u) = Sum(t) + n
  BY DEF Sum, Families

LEMMA SumOfBoth ==
    ASSUME NEW s \in [Families -> Nat], NEW t \in [Families -> Nat], NEW v \in [Families -> Nat],
           \A f \in Families : v[f] = s[f] + t[f]
    PROVE  Sum(v) = Sum(s) + Sum(t)
  <1> DEFINE Adds(p, a, b) == p = a + b /\ a \in Nat /\ b \in Nat
  <1>1. \A f \in 1..9 : s[f] \in Nat /\ t[f] \in Nat /\ v[f] = s[f] + t[f]
    BY DEF Families
  <1>2. \A f \in 1..9 : \A p, a, b : Adds(p, a, b) => Adds(p + v[f], a + s[f], b + t[f])
    <2> SUFFICES ASSUME NEW f \in 1..9, NEW p, NEW a, NEW b, Adds(p, a, b)
                 PROVE  Adds(p + v[f], a + s[f], b + t[f])
      OBVIOUS
    <2> QED BY <1>1
  <1>3. /\ 2 \in 1..9 /\ 3 \in 1..9 /\ 4 \in 1..9 /\ 5 \in 1..9
        /\ 6 \in 1..9 /\ 7 \in 1..9 /\ 8 \in 1..9 /\ 9 \in 1..9
        /\ Adds(v[1], s[1], t[1])
    BY <1>1
  <1>4. Adds(Sum(v), Sum(s), Sum(t))
    <2> DEFINE P2(x) == x[1] + x[2]
               P3(x) == P2(x) + x[3]
               P4(x) == P3(x) + x[4]
               P5(x) == P4(x) + x[5]
               P6(x) == P5(x) + x[6]
               P7(x) == P6(x) + x[7]
               P8(x) == P7(x) + x[8]
    <2> HIDE DEF Adds
    <2>2. Adds(P2(v), P2(s), P2(t))
      BY <1>2, <1>3, Zenon
    <2> HIDE DEF P2
    <2>3. Adds(P3(v), P3(s), P3(t))
      BY <1>2, <1>3, <2>2, Zenon
    <2> HIDE DEF P3
    <2>4. Adds(P4(v), P4(s), P4(t))
      BY <1>2, <1>3, <2>3, Zenon
    <2> HIDE DEF P4
    <2>5. Adds(P5(v), P5(s), P5(t))
      BY <1>2, <1>3, <2>4, Zenon
    <2> HIDE DEF P5
    <2>6. Adds(P6(v), P6(s), P6(t))
      BY <1>2, <1>3, <2>5, Zenon
    <2> HIDE DEF P6
    <2>7. Adds(P7(v), P7(s), P7(t))
      BY <1>2, <1>3, <2>6, Zenon
    <2> HIDE DEF P7
    <2>8. Adds(P8(v), P8(s), P8(t))
      BY <1>2, <1>3, <2>7, Zenon
    <2> HIDE DEF P8
    <2> QED BY <1>2, <1>3, <2>8, Zenon DEF Sum, P8, P7, P6, P5, P4, P3, P2
  <1> QED BY <1>4

-----------------------------------------------------------------------------
(* The workers.  The next document of worker w is among the next Workers   *)
(* documents and is the only one of them that is w's, so the documents are *)
(* received in source order, and no worker is further ahead than one       *)
(* document in its channel and one in its hands.                           *)

NextOf(w) == IF channel[w] = <<>> THEN at[w] ELSE Head(channel[w])

WorkersInv ==
    \A w \in Worker :
        /\ at[w] \in Nat \ {0} /\ channel[w] \in Seq(Doc)
        /\ channel[w] # <<>> => Len(channel[w]) = 1 /\ at[w] = Head(channel[w]) + Workers
        /\ worker[w] # "gone" => at[w] \in Doc
        /\ index < Docs => /\ NextOf(w) \in (index + 1)..(index + Workers)
                           /\ (NextOf(w) - 1) % Workers = w - 1

PlaceInv ==
    /\ index \in 0..Docs
    /\ at \in [Worker -> 1..(Docs + Workers)]
    /\ worker \in [Worker -> {"extracting", "sending", "gone"}]
    /\ channel \in [Worker -> Seq(Doc)]

LEMMA WorkersIsPositive == Workers \in Nat \ {0} /\ Docs \in Nat
  BY PipelineAssumption DEF Workers

LEMMA WorkersInit ==
    ASSUME Init
    PROVE  PlaceInv /\ WorkersInv
  <1>1. Workers \in Nat \ {0} /\ Docs \in Nat
    BY WorkersIsPositive
  <1>2. /\ at = [w \in Worker |-> w] /\ channel = [w \in Worker |-> <<>>]
        /\ worker = [w \in Worker |->
                       IF w > Docs \/ (PerFile = {} /\ typed = {}) THEN "gone" ELSE "extracting"]
        /\ index = IF PerFile = {} /\ typed = {} THEN Docs ELSE 0
    BY DEF Init
  <1>3. <<>> \in Seq(Doc)
    BY EmptySeq
  <1>4. PlaceInv
    BY <1>1, <1>2, <1>3 DEF PlaceInv, Worker
  <1>5. ASSUME NEW w \in Worker
        PROVE  /\ at[w] = w /\ channel[w] = <<>> /\ w \in 1..Workers /\ w \in Nat \ {0}
               /\ worker[w] # "gone" => w \in Doc
    BY <1>1, <1>2, <1>5 DEF Worker, Doc
  <1>6. ASSUME NEW w \in Worker, index < Docs
        PROVE  NextOf(w) \in (index + 1)..(index + Workers) /\ (NextOf(w) - 1) % Workers = w - 1
    <2>1. index = 0 /\ NextOf(w) = w /\ w \in 1..Workers
      BY <1>1, <1>2, <1>5, <1>6 DEF NextOf
    <2>2. (w - 1) % Workers = w - 1
      <3>1. w - 1 \in 0..(Workers - 1)
        BY <1>1, <2>1
      <3> DEFINE k == w - 1
                 W == Workers
      <3> HIDE DEF k, W
      <3>2. k \in 0..(W - 1) /\ W \in Nat \ {0}
        BY <1>1, <3>1 DEF k, W
      <3>3. k % W = k
        BY <3>2
      <3> QED BY <3>3 DEF k, W
    <2> QED BY <1>1, <2>1, <2>2
  <1>7. WorkersInv
    BY <1>3, <1>5, <1>6 DEF WorkersInv
  <1> QED BY <1>4, <1>7

\* A worker that is served has the next document in its channel.
LEMMA NextDocument ==
    ASSUME PlaceInv, WorkersInv, index < Docs
    PROVE  /\ NextWorker \in Worker
           /\ NextOf(NextWorker) = index + 1
           /\ \A w \in Worker : w # NextWorker => NextOf(w) # index + 1
  <1> DEFINE W == Workers
             k == NextWorker
  <1>1. W \in Nat \ {0} /\ index \in Nat
    BY WorkersIsPositive DEF PlaceInv
  <1>2. index % W \in 0..(W - 1) /\ k = (index % W) + 1
    <2> HIDE DEF W
    <2>1. index % W \in 0..(W - 1)
      BY <1>1, Division
    <2> QED BY <2>1 DEF W, NextWorker
  <1>3. k \in Worker /\ k - 1 = index % W /\ k \in Nat
    BY <1>1, <1>2 DEF Worker
  <1>4. ASSUME NEW w \in Worker
        PROVE  /\ NextOf(w) - 1 \in Nat /\ NextOf(w) - 1 < index + W /\ index <= NextOf(w) - 1
               /\ (NextOf(w) - 1) % W = w - 1 /\ NextOf(w) \in Nat /\ w \in Nat
    <2>1. NextOf(w) \in (index + 1)..(index + W) /\ (NextOf(w) - 1) % W = w - 1
      BY <1>4 DEF WorkersInv
    <2>2. w \in Nat
      BY <1>1, <1>4 DEF Worker
    <2> QED BY <1>1, <2>1, <2>2
  <1>5. NextOf(k) - 1 = index
    <2> DEFINE b == NextOf(k) - 1
    <2>1. b \in Nat /\ b < index + W /\ index <= b /\ index % W = b % W
      BY <1>3, <1>4
    <2> HIDE DEF b, W, k
    <2>2. index = b
      BY <1>1, <2>1, SameTurn
    <2> QED BY <2>2 DEF b
  <1>6. NextOf(k) = index + 1
    <2> HIDE DEF k
    <2> QED BY <1>1, <1>3, <1>4, <1>5
  <1>7. ASSUME NEW w \in Worker, NextOf(w) = index + 1
        PROVE  w = k
    <2>1. index % W = w - 1 /\ w \in Nat
      <3>1. NextOf(w) - 1 = index
        BY <1>1, <1>7
      <3> QED BY <1>4, <1>7, <3>1
    <2> HIDE DEF W, k
    <2> QED BY <1>3, <2>1
  <1> QED BY <1>3, <1>6, <1>7

LEMMA WorkersStep ==
    ASSUME PlaceInv, WorkersInv, [Next]_vars
    PROVE  PlaceInv' /\ WorkersInv'
  <1>1. Workers \in Nat \ {0} /\ Docs \in Nat
    BY WorkersIsPositive
  <1>2. /\ index \in Nat /\ index <= Docs
        /\ \A w \in Worker : at[w] \in Nat \ {0} /\ channel[w] \in Seq(Doc)
    BY <1>1 DEF PlaceInv, WorkersInv
  <1>3. ASSUME UNCHANGED <<index, workerVars>>
        PROVE  PlaceInv' /\ WorkersInv'
    BY <1>3 DEF workerVars, PlaceInv, WorkersInv, NextOf
  <1>4. ASSUME NEW w \in Worker, Extract(w) \/ Panic(w)
        PROVE  PlaceInv' /\ WorkersInv'
    <2>1. /\ worker[w] = "extracting" /\ UNCHANGED <<index, at, channel>>
          /\ \/ worker' = [worker EXCEPT ![w] = "sending"]
             \/ worker' = [worker EXCEPT ![w] = "gone"]
      BY <1>4 DEF Extract, Panic
    <2>2. \A v \in Worker : worker'[v] # "gone" => worker[v] # "gone"
      BY <2>1 DEF PlaceInv
    <2>3. worker' \in [Worker -> {"extracting", "sending", "gone"}]
      BY <2>1 DEF PlaceInv
    <2> QED BY <2>1, <2>2, <2>3 DEF PlaceInv, WorkersInv, NextOf
  <1>5. ASSUME NEW w \in Worker, Pass(w)
        PROVE  PlaceInv' /\ WorkersInv'
    <2>1. worker[w] = "sending" /\ at[w] \in Doc /\ index' = index
      BY <1>5 DEF Pass, WorkersInv
    <2>2. CASE ~Receiving
      <3>1. UNCHANGED <<at, channel>> /\ worker' = [worker EXCEPT ![w] = "gone"]
        BY <1>5, <2>2 DEF Pass
      <3>2. \A v \in Worker : worker'[v] # "gone" => worker[v] # "gone"
        BY <3>1 DEF PlaceInv
      <3>3. worker' \in [Worker -> {"extracting", "sending", "gone"}]
        BY <3>1 DEF PlaceInv
      <3> QED BY <2>1, <3>1, <3>2, <3>3 DEF PlaceInv, WorkersInv, NextOf
    <2>3. CASE Receiving
      <3>1. /\ Len(channel[w]) < 1
            /\ channel' = [channel EXCEPT ![w] = Append(@, at[w])]
            /\ at' = [at EXCEPT ![w] = @ + Workers]
            /\ worker' = [worker EXCEPT ![w] =
                            IF at[w] + Workers > Docs THEN "gone" ELSE "extracting"]
        BY <1>5, <2>3 DEF Pass
      <3>2. channel[w] = <<>>
        <4>1. Len(channel[w]) \in Nat
          BY <1>2, LenProperties
        <4>2. Len(channel[w]) = 0
          BY <3>1, <4>1
        <4> QED BY <1>2, <4>2, EmptySeq
      <3>3. /\ Append(channel[w], at[w]) = <<at[w]>> /\ <<at[w]>> \in Seq(Doc)
            /\ Len(<<at[w]>>) = 1 /\ Head(<<at[w]>>) = at[w] /\ <<at[w]>> # <<>>
        BY <2>1, <3>2, ToSetOfOne
      <3>4. \A v \in Worker :
               /\ channel'[v] = IF v = w THEN <<at[w]>> ELSE channel[v]
               /\ at'[v] = IF v = w THEN at[w] + Workers ELSE at[v]
               /\ worker'[v] = IF v # w THEN worker[v]
                               ELSE IF at[w] + Workers > Docs THEN "gone" ELSE "extracting"
        BY <3>1, <3>3 DEF PlaceInv
      <3>5. at[w] + Workers \in 1..(Docs + Workers)
            /\ (~(at[w] + Workers > Docs) => at[w] + Workers \in Doc)
        BY <1>1, <2>1 DEF Doc
      <3>6. PlaceInv'
        <4>1. at' \in [Worker -> 1..(Docs + Workers)]
          BY <3>1, <3>5 DEF PlaceInv
        <4>2. channel' \in [Worker -> Seq(Doc)]
          BY <3>1, <3>3 DEF PlaceInv
        <4>3. worker' \in [Worker -> {"extracting", "sending", "gone"}]
          BY <3>1 DEF PlaceInv
        <4> QED BY <2>1, <4>1, <4>2, <4>3 DEF PlaceInv
      <3>7. \A v \in Worker : NextOf(v)' = NextOf(v)
        <4> SUFFICES ASSUME NEW v \in Worker PROVE NextOf(v)' = NextOf(v)
          OBVIOUS
        <4>1. CASE v = w
          BY <3>2, <3>3, <3>4, <4>1 DEF NextOf
        <4>2. CASE v # w
          BY <3>4, <4>2 DEF NextOf
        <4> QED BY <4>1, <4>2
      <3>8. ASSUME NEW v \in Worker
            PROVE  /\ at'[v] \in Nat \ {0} /\ channel'[v] \in Seq(Doc)
                   /\ channel'[v] # <<>> => /\ Len(channel'[v]) = 1
                                           /\ at'[v] = Head(channel'[v]) + Workers
                   /\ worker'[v] # "gone" => at'[v] \in Doc
        <4>1. CASE v = w
          BY <1>1, <2>1, <3>3, <3>4, <3>5, <4>1
        <4>2. CASE v # w
          BY <3>4, <4>2 DEF WorkersInv
        <4> QED BY <4>1, <4>2
      <3>9. \A v \in Worker :
               index < Docs => /\ NextOf(v)' \in (index + 1)..(index + Workers)
                               /\ (NextOf(v)' - 1) % Workers = v - 1
        BY <3>7 DEF WorkersInv
      <3> QED BY <2>1, <3>6, <3>8, <3>9 DEF WorkersInv
    <2> QED BY <2>2, <2>3
  <1>6. CASE Receive
    <2> DEFINE w == NextWorker
               d == Head(channel[w])
    <2>1. /\ index < Docs /\ channel[w] # <<>> /\ index' = index + 1
          /\ channel' = [channel EXCEPT ![w] = Tail(@)]
          /\ UNCHANGED <<at, worker>>
      BY <1>6 DEF Receive
    <2>2. /\ w \in Worker /\ NextOf(w) = index + 1
          /\ \A v \in Worker : v # w => NextOf(v) # index + 1
      BY <2>1, NextDocument
    <2>3. /\ Len(channel[w]) = 1 /\ at[w] = d + Workers /\ channel[w] \in Seq(Doc)
          /\ d = index + 1
      BY <2>1, <2>2 DEF WorkersInv, NextOf
    <2>4. Tail(channel[w]) = <<>>
      <3>1. Len(Tail(channel[w])) = 0 /\ Tail(channel[w]) \in Seq(Doc)
        BY <2>1, <2>3, HeadTailProperties
      <3> QED BY <3>1, EmptySeq
    <2> HIDE DEF w, d
    <2>5. \A v \in Worker : channel'[v] = IF v = w THEN <<>> ELSE channel[v]
      BY <2>1, <2>2, <2>4 DEF PlaceInv
    <2>6. PlaceInv'
      <3>1. channel' \in [Worker -> Seq(Doc)]
        <4>1. <<>> \in Seq(Doc)
          BY EmptySeq
        <4> QED BY <2>1, <2>2, <2>4, <4>1 DEF PlaceInv
      <3>2. index' \in 0..Docs
        BY <1>1, <1>2, <2>1
      <3> QED BY <2>1, <3>1, <3>2 DEF PlaceInv
    <2>7. ASSUME NEW v \in Worker
          PROVE  /\ NextOf(v)' \in (index' + 1)..(index' + Workers)
                 /\ (NextOf(v)' - 1) % Workers = v - 1
      <3>1. /\ NextOf(v) \in (index + 1)..(index + Workers)
            /\ (NextOf(v) - 1) % Workers = v - 1
        BY <2>1 DEF WorkersInv
      <3>2. CASE v = w
        <4>1. NextOf(v)' = index + 1 + Workers
          BY <2>1, <2>3, <2>5, <3>2 DEF NextOf
        <4>2. (index + Workers) % Workers = index % Workers
          <5> DEFINE W == Workers
          <5>1. W \in Nat \ {0}
            BY <1>1
          <5> HIDE DEF W
          <5>2. (index + W) % W = index % W
            BY <1>2, <5>1, TurnsAround
          <5> QED BY <5>2 DEF W
        <4>3. NextOf(v)' - 1 = index + Workers /\ NextOf(v) - 1 = index
          BY <1>1, <1>2, <2>2, <3>2, <4>1
        <4>4. NextOf(v)' \in (index' + 1)..(index' + Workers)
          BY <1>1, <1>2, <2>1, <4>1
        <4>5. (NextOf(v)' - 1) % Workers = v - 1
          BY <3>1, <4>2, <4>3
        <4> QED BY <4>4, <4>5
      <3>3. CASE v # w
        <4>1. NextOf(v)' = NextOf(v) /\ NextOf(v) # index + 1
          BY <2>1, <2>2, <2>5, <3>3 DEF NextOf
        <4>2. NextOf(v)' \in (index' + 1)..(index' + Workers)
          BY <1>1, <1>2, <2>1, <3>1, <4>1
        <4> QED BY <3>1, <4>1, <4>2
      <3> QED BY <3>2, <3>3
    <2>8. ASSUME NEW v \in Worker
          PROVE  /\ at'[v] \in Nat \ {0} /\ channel'[v] \in Seq(Doc)
                 /\ channel'[v] # <<>> => /\ Len(channel'[v]) = 1
                                         /\ at'[v] = Head(channel'[v]) + Workers
                 /\ worker'[v] # "gone" => at'[v] \in Doc
      <3>1. CASE v = w
        BY <1>2, <2>1, <2>5, <2>6, <3>1 DEF WorkersInv, PlaceInv
      <3>2. CASE v # w
        BY <2>1, <2>5, <3>2 DEF WorkersInv
      <3> QED BY <3>1, <3>2
    <2> QED BY <2>6, <2>7, <2>8 DEF WorkersInv
  <1>7. CASE \/ ReceiveFails \/ Join \/ DoSend \/ DoMark \/ DoHold \/ DoTake \/ DoDrain
             \/ Finish \/ Continue \/ Abandon \/ UNCHANGED vars
    <2>1. UNCHANGED <<index, workerVars>>
      BY <1>7 DEF ReceiveFails, Join, DoSend, DoMark, DoHold, DoTake, DoDrain, Finish, Continue,
                  Abandon, vars
    <2> QED BY <1>3, <2>1
  <1> QED BY <1>4, <1>5, <1>6, <1>7 DEF Next, Deliver, Work

LEMMA WorkersHold == Spec => [](PlaceInv /\ WorkersInv)
  <1>1. Init => PlaceInv /\ WorkersInv
    BY WorkersInit
  <1>2. PlaceInv /\ WorkersInv /\ [Next]_vars => (PlaceInv /\ WorkersInv)'
    BY WorkersStep
  <1> QED BY <1>1, <1>2, PTL DEF Spec

\* Extraction never runs more than two documents ahead of a worker's last received one,
\* for any number of threads and documents.
THEOREM LookaheadIsBounded == Spec => []Lookahead
  <1>1. PlaceInv /\ WorkersInv => Lookahead
    <2> SUFFICES ASSUME PlaceInv, WorkersInv, NEW w \in Worker
                 PROVE  Ahead(w) <= 2
      BY DEF Lookahead
    <2>1. channel[w] \in Seq(Doc) /\ (channel[w] # <<>> => Len(channel[w]) = 1)
      BY DEF WorkersInv
    <2>2. Len(channel[w]) = 0 \/ Len(channel[w]) = 1
      BY <2>1, EmptySeq
    <2> DEFINE n == Len(channel[w])
               m == IF worker[w] = "sending" THEN 1 ELSE 0
    <2>3. n \in {0, 1} /\ m \in {0, 1} /\ Ahead(w) = n + m
      BY <2>2 DEF Ahead
    <2> HIDE DEF n, m
    <2> QED BY <2>3
  <1> QED BY <1>1, WorkersHold, PTL

-----------------------------------------------------------------------------
(* The calls of a document and of the repository phase.                    *)

LEMMA MarkValues ==
    ASSUME NEW f, NEW g \in Families, NEW n \in Nat
    PROVE  /\ \A h : Part(f, h)[Mark(g, n)] = <<>>
           /\ Reading(f)[Mark(g, n)] = <<>>
  <1> SUFFICES ASSUME NEW c, c = Mark(g, n)
               PROVE  (\A h : Part(f, h)[c] = <<>>) /\ Reading(f)[c] = <<>>
    OBVIOUS
  <1>1. c \in PipelineCall /\ c.call = "mark" /\ c.family = g
    BY CallShapes
  <1> QED BY <1>1 DEF Part, Reading

LEMMA GiveValues ==
    ASSUME NEW f, NEW g \in Families, NEW s \in Seq(FactsIn(g)),
           NEW c \in {Give(g, s), Hold(g, s)}
    PROVE  /\ f = g => \A h : Part(f, h)[c] = s
           /\ f # g => \A h : Part(f, h)[c] = <<>>
           /\ Reading(f)[c] = <<>>
  <1>1. c \in PipelineCall /\ c.call \in {"send", "hold"} /\ c.family = g /\ c.facts = s
    BY CallShapes
  <1> QED BY <1>1 DEF Part, Reading

LEMMA TakeValues ==
    ASSUME NEW f, NEW g \in Families, NEW how \in {"whole", "drain", "aside"}
    PROVE  /\ f = g /\ how # "aside" => \A h : Part(f, h)[Take(g, how)] = h
           /\ f # g \/ how = "aside" => \A h : Part(f, h)[Take(g, how)] = <<>>
           /\ f = g => Reading(f)[Take(g, how)] = <<f>>
           /\ f # g => Reading(f)[Take(g, how)] = <<>>
  <1> SUFFICES ASSUME NEW c, c = Take(g, how)
               PROVE  /\ f = g /\ how # "aside" => \A h : Part(f, h)[c] = h
                      /\ f # g \/ how = "aside" => \A h : Part(f, h)[c] = <<>>
                      /\ f = g => Reading(f)[c] = <<f>>
                      /\ f # g => Reading(f)[c] = <<>>
    OBVIOUS
  <1>1. c \in PipelineCall /\ c.call = "take" /\ c.family = g /\ c.how = how
    BY CallShapes
  <1> QED BY <1>1 DEF Part, Reading

LEMMA DrainValues ==
    ASSUME NEW f, NEW g \in Families
    PROVE  /\ f = g => (\A h : Part(f, h)[Drain(g)] = h) /\ Reading(f)[Drain(g)] = <<f>>
           /\ f # g => (\A h : Part(f, h)[Drain(g)] = <<>>) /\ Reading(f)[Drain(g)] = <<>>
  <1> SUFFICES ASSUME NEW c, c = Drain(g)
               PROVE  /\ f = g => (\A h : Part(f, h)[c] = h) /\ Reading(f)[c] = <<f>>
                      /\ f # g => (\A h : Part(f, h)[c] = <<>>) /\ Reading(f)[c] = <<>>
    OBVIOUS
  <1>1. c \in PipelineCall /\ c.call = "drain" /\ c.family = g
    BY CallShapes
  <1> QED BY <1>1 DEF Part, Reading

LEMMA FamilyLists ==
    /\ \A f \in Families : OnceEach(<<f>>) /\ ToSet(<<f>>) = {f}
    /\ \A f, g \in Families : f # g => OnceEach(<<f, g>>) /\ ToSet(<<f, g>>) = {f, g}
    /\ \A f, g, h \in Families :
          f # g /\ f # h /\ g # h => OnceEach(<<f, g, h>>) /\ ToSet(<<f, g, h>>) = {f, g, h}
    /\ OnceEach(InOrder) /\ ToSet(InOrder) = Families
  <1>1. \A f \in Families : OnceEach(<<f>>) /\ ToSet(<<f>>) = {f}
    <2> SUFFICES ASSUME NEW f \in Families PROVE OnceEach(<<f>>) /\ ToSet(<<f>>) = {f}
      OBVIOUS
    <2>1. <<f>> \in Seq(Families) /\ Len(<<f>>) = 1 /\ \A i \in 1..1 : <<f>>[i] = f /\ i = 1
      OBVIOUS
    <2> QED BY <2>1, ToSetOfOne DEF OnceEach
  <1>2. \A f, g \in Families : f # g => OnceEach(<<f, g>>) /\ ToSet(<<f, g>>) = {f, g}
    <2> SUFFICES ASSUME NEW f \in Families, NEW g \in Families, f # g
                 PROVE  OnceEach(<<f, g>>) /\ ToSet(<<f, g>>) = {f, g}
      OBVIOUS
    <2> DEFINE s == <<f, g>>
    <2>1. s \in Seq(Families) /\ Len(s) = 2 /\ s[1] = f /\ s[2] = g
      OBVIOUS
    <2>2. \A i \in 1..2 : i = 1 \/ i = 2
      OBVIOUS
    <2> HIDE DEF s
    <2>3. ToSet(s) = {s[i] : i \in 1..2}
      BY <2>1, ToSetOfSeq
    <2>4. ToSet(s) = {f, g}
      BY <2>1, <2>2, <2>3
    <2>5. OnceEach(s)
      BY <2>1, <2>2 DEF OnceEach
    <2> QED BY <2>4, <2>5 DEF s
  <1>3. \A f, g, h \in Families :
          f # g /\ f # h /\ g # h => OnceEach(<<f, g, h>>) /\ ToSet(<<f, g, h>>) = {f, g, h}
    <2> SUFFICES ASSUME NEW f \in Families, NEW g \in Families, NEW h \in Families,
                        f # g /\ f # h /\ g # h
                 PROVE  OnceEach(<<f, g, h>>) /\ ToSet(<<f, g, h>>) = {f, g, h}
      OBVIOUS
    <2> DEFINE s == <<f, g, h>>
    <2>1. s \in Seq(Families) /\ Len(s) = 3 /\ s[1] = f /\ s[2] = g /\ s[3] = h
      OBVIOUS
    <2>2. \A i \in 1..3 : i = 1 \/ i = 2 \/ i = 3
      OBVIOUS
    <2> HIDE DEF s
    <2>3. ToSet(s) = {s[i] : i \in 1..3}
      BY <2>1, ToSetOfSeq
    <2>4. ToSet(s) = {f, g, h}
      BY <2>1, <2>2, <2>3
    <2>5. OnceEach(s)
      BY <2>1, <2>2 DEF OnceEach
    <2> QED BY <2>4, <2>5 DEF s
  <1>4. OnceEach(InOrder) /\ ToSet(InOrder) = Families
    <2>1. InOrder \in Seq(Families) /\ Len(InOrder) = 9 /\ \A i \in 1..9 : InOrder[i] = i
      BY DEF InOrder, Families
    <2>2. ToSet(InOrder) = {InOrder[i] : i \in 1..9}
      BY <2>1, ToSetOfSeq
    <2>3. ToSet(InOrder) = 1..9
      BY <2>1, <2>2
    <2>4. OnceEach(InOrder)
      BY <2>1 DEF OnceEach
    <2> QED BY <2>3, <2>4 DEF Families
  <1> QED BY <1>1, <1>2, <1>3, <1>4

\* One call for each family.
FamilyCalls == {call \in [Families -> PipelineCall] : \A g \in Families : call[g].family = g}

\* What one list of calls is going to do with the facts of a family, ...
LEMMA LeftOfCalls ==
    ASSUME NEW S, NEW fs, OnceEach(fs), NEW call \in FamilyCalls, NEW f, NEW h \in Seq(Fact)
    PROVE  /\ f \in ToSet(fs) \cap S => Left(Calls(fs, S, call), f, h) = Part(f, h)[call[f]]
           /\ f \notin ToSet(fs) \cap S => Left(Calls(fs, S, call), f, h) = <<>>
  <1>1. fs \in Seq(Families) /\ call \in [Families -> PipelineCall]
    BY DEF OnceEach, FamilyCalls
  <1>2. \A g \in ToSet(fs) : g \in Families
    BY <1>1, ToSetOfSeq
  <1>3. Part(f, h) \in ListsFor(PipelineCall, Fact)
    BY PartType
  <1>4. \A g \in ToSet(fs) \cap S : g # f => Part(f, h)[call[g]] = <<>>
    BY <1>1, <1>2 DEF Part, FamilyCalls
  <1> DEFINE p == Part(f, h)
             C == Calls(fs, S, call)
  <1> HIDE DEF p
  <1>5. p \in ListsFor(PipelineCall, Fact)
    BY <1>3 DEF p
  <1>6. OnlyOf(f, fs, S, call, p)
    BY <1>4 DEF p, OnlyOf
  <1>7. Projected(C, p) = IF f \in ToSet(fs) \cap S THEN p[call[f]] ELSE <<>>
    BY <1>1, <1>5, <1>6, CallsProjected
  <1> QED BY <1>7 DEF Left, p

\* ... and how often it reads them.
LEMMA ReadsOfCalls ==
    ASSUME NEW S, NEW fs, OnceEach(fs), NEW call \in FamilyCalls, NEW f
    PROVE  /\ f \in ToSet(fs) \cap S => Reads(Calls(fs, S, call), f) = Reading(f)[call[f]]
           /\ f \notin ToSet(fs) \cap S => Reads(Calls(fs, S, call), f) = <<>>
  <1>1. fs \in Seq(Families) /\ call \in [Families -> PipelineCall]
    BY DEF OnceEach, FamilyCalls
  <1>2. \A g \in ToSet(fs) : g \in Families
    BY <1>1, ToSetOfSeq
  <1>3. Reading(f) \in ListsFor(PipelineCall, {f})
    BY ReadingType
  <1>4. \A g \in ToSet(fs) \cap S : g # f => Reading(f)[call[g]] = <<>>
    BY <1>1, <1>2 DEF Reading, FamilyCalls
  <1> DEFINE p == Reading(f)
             C == Calls(fs, S, call)
  <1> HIDE DEF p
  <1>5. p \in ListsFor(PipelineCall, {f})
    BY <1>3 DEF p
  <1>6. OnlyOf(f, fs, S, call, p)
    BY <1>4 DEF p, OnlyOf
  <1>7. Projected(C, p) = IF f \in ToSet(fs) \cap S THEN p[call[f]] ELSE <<>>
    BY <1>1, <1>5, <1>6, CallsProjected
  <1> QED BY <1>7 DEF Reads, p

LEMMA CallsConcat ==
    ASSUME NEW l \in Seq(PipelineCall), NEW m \in Seq(PipelineCall)
    PROVE  l \o m \in Seq(PipelineCall) /\ ToSet(l \o m) = ToSet(l) \cup ToSet(m)
  <1>1. l \o m \in Seq(PipelineCall)
    BY ConcatProperties
  <1>2. ToSet(l \o m) = ToSet(l) \cup ToSet(m)
    BY ToSetOfConcat
  <1> QED BY <1>1, <1>2

LEMMA LeftOfConcat ==
    ASSUME NEW l \in Seq(PipelineCall), NEW m \in Seq(PipelineCall), NEW f, NEW h \in Seq(Fact)
    PROVE  Left(l \o m, f, h) = Left(l, f, h) \o Left(m, f, h)
  <1>1. Part(f, h) \in ListsFor(PipelineCall, Fact)
    BY PartType
  <1> DEFINE p == Part(f, h)
  <1>2. p \in ListsFor(PipelineCall, Fact)
    BY <1>1
  <1> HIDE DEF p
  <1>3. Projected(l \o m, p) = Projected(l, p) \o Projected(m, p)
    BY <1>2, ProjectedConcat
  <1> QED BY <1>3 DEF Left, p

LEMMA ReadsOfConcat ==
    ASSUME NEW l \in Seq(PipelineCall), NEW m \in Seq(PipelineCall), NEW f
    PROVE  Reads(l \o m, f) = Reads(l, f) \o Reads(m, f)
  <1> DEFINE p == Reading(f)
  <1>2. p \in ListsFor(PipelineCall, {f})
    BY ReadingType
  <1> HIDE DEF p
  <1>3. Projected(l \o m, p) = Projected(l, p) \o Projected(m, p)
    BY <1>2, ProjectedConcat
  <1> QED BY <1>3 DEF Reads, p

LEMMA LeftType ==
    ASSUME NEW l \in Seq(PipelineCall), NEW f, NEW h \in Seq(Fact)
    PROVE  Left(l, f, h) \in Seq(Fact)
  <1> DEFINE p == Part(f, h)
  <1>1. p \in ListsFor(PipelineCall, Fact)
    BY PartType
  <1> HIDE DEF p
  <1>2. Projected(l, p) \in Seq(Fact)
    BY <1>1, ProjectedType
  <1> QED BY <1>2 DEF Left, p

LEMMA ReadsType ==
    ASSUME NEW l \in Seq(PipelineCall), NEW f
    PROVE  Reads(l, f) \in Seq({f})
  <1> DEFINE p == Reading(f)
  <1>1. p \in ListsFor(PipelineCall, {f})
    BY ReadingType
  <1> HIDE DEF p
  <1>2. Projected(l, p) \in Seq({f})
    BY <1>1, ProjectedType
  <1> QED BY <1>2 DEF Reads, p

LEMMA CallsHead ==
    ASSUME NEW l \in Seq(PipelineCall), l # <<>>
    PROVE  /\ Head(l) \in PipelineCall /\ Tail(l) \in Seq(PipelineCall)
           /\ ToSet(l) = {Head(l)} \cup ToSet(Tail(l))
  <1>1. Head(l) \in PipelineCall /\ Tail(l) \in Seq(PipelineCall)
    BY HeadTailProperties
  <1>2. <<Head(l)>> \in Seq(PipelineCall) /\ ToSet(<<Head(l)>>) = {Head(l)}
    BY <1>1, ToSetOfOne
  <1> DEFINE a == <<Head(l)>>
             b == Tail(l)
  <1>3. a \in Seq(PipelineCall) /\ b \in Seq(PipelineCall)
    BY <1>1, <1>2
  <1> HIDE DEF a, b
  <1>4. ToSet(a \o b) = ToSet(a) \cup ToSet(b)
    BY <1>3, ToSetOfConcat
  <1>5. l = a \o b
    BY HeadAndTail DEF a, b
  <1> QED BY <1>1, <1>2, <1>4, <1>5 DEF a, b

LEMMA LeftOfHead ==
    ASSUME NEW l \in Seq(PipelineCall), l # <<>>, NEW f, NEW h \in Seq(Fact)
    PROVE  /\ Left(l, f, h) = Part(f, h)[Head(l)] \o Left(Tail(l), f, h)
           /\ Part(f, h)[Head(l)] \in Seq(Fact)
  <1> DEFINE p == Part(f, h)
  <1>1. p \in ListsFor(PipelineCall, Fact)
    BY PartType
  <1> HIDE DEF p
  <1>2. Projected(l, p) = p[Head(l)] \o Projected(Tail(l), p)
    BY <1>1, ProjectedHead
  <1>3. p[Head(l)] \in Seq(Fact)
    BY <1>1, CallsHead DEF ListsFor
  <1> QED BY <1>2, <1>3 DEF Left, p

LEMMA ReadsOfHead ==
    ASSUME NEW l \in Seq(PipelineCall), l # <<>>, NEW f
    PROVE  /\ Reads(l, f) = Reading(f)[Head(l)] \o Reads(Tail(l), f)
           /\ Reading(f)[Head(l)] \in Seq({f})
  <1> DEFINE p == Reading(f)
  <1>1. p \in ListsFor(PipelineCall, {f})
    BY ReadingType
  <1> HIDE DEF p
  <1>2. Projected(l, p) = p[Head(l)] \o Projected(Tail(l), p)
    BY <1>1, ProjectedHead
  <1>3. p[Head(l)] \in Seq({f})
    BY <1>1, CallsHead DEF ListsFor
  <1> QED BY <1>2, <1>3 DEF Reads, p

LEMMA OneCall ==
    ASSUME NEW c \in PipelineCall
    PROVE  <<c>> \in Seq(PipelineCall) /\ ToSet(<<c>>) = {c}
  <1>1. c \in PipelineCall
    OBVIOUS
  <1> QED BY <1>1, ToSetOfOne

LEMMA LeftOfOne ==
    ASSUME NEW c \in PipelineCall, NEW f
    PROVE  /\ \A h \in Seq(Fact) : Left(<<c>>, f, h) = Part(f, h)[c]
           /\ Reads(<<c>>, f) = Reading(f)[c]
  <1>1. ASSUME NEW h \in Seq(Fact)
        PROVE  Left(<<c>>, f, h) = Part(f, h)[c]
    <2> DEFINE p == Part(f, h)
    <2>1. p \in ListsFor(PipelineCall, Fact)
      BY PartType
    <2> HIDE DEF p
    <2>2. Projected(<<c>>, p) = p[c]
      BY <2>1, ProjectedOne
    <2> QED BY <2>2 DEF Left, p
  <1>2. Reads(<<c>>, f) = Reading(f)[c]
    <2> DEFINE p == Reading(f)
    <2>1. p \in ListsFor(PipelineCall, {f})
      BY ReadingType
    <2> HIDE DEF p
    <2>2. Projected(<<c>>, p) = p[c]
      BY <2>1, ProjectedOne
    <2> QED BY <2>2 DEF Reads, p
  <1> QED BY <1>1, <1>2

LEMMA LeftOfNone ==
    /\ \A f, h : Left(<<>>, f, h) = <<>>
    /\ \A f : Reads(<<>>, f) = <<>>
    /\ <<>> \in Seq(PipelineCall) /\ ToSet(<<>>) = {}
  <1>1. <<>> \in Seq(PipelineCall) /\ ToSet(<<>>) = {}
    BY EmptySeq DEF ToSet
  <1> QED BY <1>1, ProjectedEmpty DEF Left, Reads

-----------------------------------------------------------------------------
\* Announcements carry no facts.
LEMMA MarkCalls ==
    ASSUME NEW S, NEW fs, OnceEach(fs), NEW rowsOf \in [Families -> Nat]
    PROVE  LET l == Calls(fs, S, Marks(rowsOf))
           IN /\ l \in Seq(PipelineCall)
              /\ ToSet(l) = {Mark(g, rowsOf[g]) : g \in ToSet(fs) \cap S}
              /\ \A f : Reads(l, f) = <<>> /\ \A h \in Seq(Fact) : Left(l, f, h) = <<>>
  <1> DEFINE call == Marks(rowsOf)
             l == Calls(fs, S, call)
  <1>1. \A g \in Families : /\ call[g] = Mark(g, rowsOf[g]) /\ call[g] \in PipelineCall
                            /\ call[g].family = g
    <2> SUFFICES ASSUME NEW g \in Families
                 PROVE  Mark(g, rowsOf[g]) \in PipelineCall /\ Mark(g, rowsOf[g]).family = g
      BY DEF Marks
    <2>1. rowsOf[g] \in Nat
      OBVIOUS
    <2> QED BY <2>1, CallShapes
  <1>2. fs \in Seq(Families) /\ \A g \in ToSet(fs) : g \in Families
    BY ToSetOfSeq DEF OnceEach
  <1>3. DOMAIN call = Families /\ call = [g \in Families |-> call[g]]
    BY DEF Marks
  <1>4. \A f : \A g \in Families : /\ Reading(f)[Mark(g, rowsOf[g])] = <<>>
                                   /\ \A h : Part(f, h)[Mark(g, rowsOf[g])] = <<>>
    <2> SUFFICES ASSUME NEW f, NEW g \in Families
                 PROVE  /\ Reading(f)[Mark(g, rowsOf[g])] = <<>>
                        /\ \A h : Part(f, h)[Mark(g, rowsOf[g])] = <<>>
      OBVIOUS
    <2>1. rowsOf[g] \in Nat
      OBVIOUS
    <2> QED BY <2>1, MarkValues
  <1> HIDE DEF call
  <1>5. call \in [Families -> PipelineCall]
    BY <1>1, <1>3
  <1>6. call \in FamilyCalls
    BY <1>1, <1>5 DEF FamilyCalls
  <1>7. l \in Seq(PipelineCall) /\ ToSet(l) = {call[g] : g \in ToSet(fs) \cap S}
    BY <1>2, <1>5, CallsFacts
  <1>8. {call[g] : g \in ToSet(fs) \cap S} = {Mark(g, rowsOf[g]) : g \in ToSet(fs) \cap S}
    BY <1>1, <1>2
  <1>9. ASSUME NEW f PROVE Reads(l, f) = <<>>
    <2>1. CASE f \in ToSet(fs) \cap S
      <3>1. Reads(l, f) = Reading(f)[call[f]]
        BY <1>6, <2>1, ReadsOfCalls
      <3> QED BY <1>1, <1>2, <1>4, <2>1, <3>1
    <2>2. CASE f \notin ToSet(fs) \cap S
      BY <1>6, <2>2, ReadsOfCalls
    <2> QED BY <2>1, <2>2
  <1>10. ASSUME NEW f, NEW h \in Seq(Fact) PROVE Left(l, f, h) = <<>>
    <2>1. CASE f \in ToSet(fs) \cap S
      <3>1. Left(l, f, h) = Part(f, h)[call[f]]
        BY <1>6, <2>1, LeftOfCalls
      <3>2. f \in Families
        BY <1>2, <2>1
      <3>3. Part(f, h)[Mark(f, rowsOf[f])] = <<>>
        BY <1>4, <3>2
      <3> QED BY <1>1, <3>1, <3>2, <3>3
    <2>2. CASE f \notin ToSet(fs) \cap S
      BY <1>6, <2>2, LeftOfCalls
    <2> QED BY <2>1, <2>2
  <1> QED BY <1>7, <1>8, <1>9, <1>10 DEF call

\* Reading families from the store.
LEMMA TakeCalls ==
    ASSUME NEW S, NEW fs, OnceEach(fs), NEW how \in {"whole", "drain"}
    PROVE  LET l == Calls(fs, S, Takes(how))
           IN /\ l \in Seq(PipelineCall)
              /\ ToSet(l) = {Take(g, how) : g \in ToSet(fs) \cap S}
              /\ \A f \in ToSet(fs) \cap S : /\ Reads(l, f) = <<f>>
                                             /\ \A h \in Seq(Fact) : Left(l, f, h) = h
              /\ \A f : f \notin ToSet(fs) \cap S =>
                           Reads(l, f) = <<>> /\ \A h \in Seq(Fact) : Left(l, f, h) = <<>>
  <1> DEFINE call == Takes(how)
             l == Calls(fs, S, call)
  <1>1. \A g \in Families : /\ call[g] = Take(g, how) /\ call[g] \in PipelineCall
                            /\ call[g].family = g
    <2> SUFFICES ASSUME NEW g \in Families
                 PROVE  Take(g, how) \in PipelineCall /\ Take(g, how).family = g
      BY DEF Takes
    <2> QED BY CallShapes
  <1>2. fs \in Seq(Families) /\ \A g \in ToSet(fs) : g \in Families
    BY ToSetOfSeq DEF OnceEach
  <1>3. DOMAIN call = Families /\ call = [g \in Families |-> call[g]]
    BY DEF Takes
  <1>4. \A g \in Families : /\ Reading(g)[Take(g, how)] = <<g>>
                            /\ \A h : Part(g, h)[Take(g, how)] = h
    <2> SUFFICES ASSUME NEW g \in Families
                 PROVE  /\ Reading(g)[Take(g, how)] = <<g>>
                        /\ \A h : Part(g, h)[Take(g, how)] = h
      OBVIOUS
    <2>1. how \in {"whole", "drain", "aside"} /\ how # "aside"
      OBVIOUS
    <2> QED BY <2>1, TakeValues
  <1> HIDE DEF call
  <1>5. call \in [Families -> PipelineCall]
    BY <1>1, <1>3
  <1>6. call \in FamilyCalls
    BY <1>1, <1>5 DEF FamilyCalls
  <1>7. l \in Seq(PipelineCall) /\ ToSet(l) = {call[g] : g \in ToSet(fs) \cap S}
    BY <1>2, <1>5, CallsFacts
  <1>8. {call[g] : g \in ToSet(fs) \cap S} = {Take(g, how) : g \in ToSet(fs) \cap S}
    BY <1>1, <1>2
  <1>9. ASSUME NEW f \in ToSet(fs) \cap S PROVE Reads(l, f) = <<f>>
    <2>1. Reads(l, f) = Reading(f)[call[f]]
      BY <1>6, ReadsOfCalls
    <2> QED BY <1>1, <1>2, <1>4, <2>1
  <1>10. ASSUME NEW f \in ToSet(fs) \cap S, NEW h \in Seq(Fact) PROVE Left(l, f, h) = h
    <2>1. Left(l, f, h) = Part(f, h)[call[f]]
      BY <1>6, LeftOfCalls
    <2> QED BY <1>1, <1>2, <1>4, <2>1
  <1>11. ASSUME NEW f, f \notin ToSet(fs) \cap S PROVE Reads(l, f) = <<>>
    BY <1>6, <1>11, ReadsOfCalls
  <1>12. ASSUME NEW f, f \notin ToSet(fs) \cap S, NEW h \in Seq(Fact) PROVE Left(l, f, h) = <<>>
    BY <1>6, <1>12, LeftOfCalls
  <1> QED BY <1>7, <1>8, <1>9, <1>10, <1>11, <1>12 DEF call

-----------------------------------------------------------------------------
RequestInv == requested \subseteq Families /\ selected \subseteq Families /\ typed \subseteq Specialized

LEMMA FamilyNames ==
    /\ Specialized \subseteq Families
    /\ {AttributeAccess, Call, Class, Directory, Function, Module, Route, Syntax, TestFunction}
          \subseteq Families
  BY DEF Specialized, Families, AttributeAccess, Call, Class, Directory, Function, Module, Route,
         Syntax, TestFunction

\* What a document makes the pipeline do: announce first rows, then hold or send the facts
\* of every family that is extracted, each once.
LEMMA DocumentCallsFacts ==
    ASSUME RequestInv, NEW d \in Doc
    PROVE  /\ DocumentCalls(d) \in Seq(PipelineCall)
           /\ \A c \in ToSet(DocumentCalls(d)) :
                 \/ c.call = "mark" /\ c.family \in typed
                 \/ c.call = "hold" /\ c.family \in opened
                 \/ c.call = "send" /\ c.family \notin opened
           /\ \A f \in FirstRows(d) \cap {Class, Syntax, AttributeAccess} :
                 \E c \in ToSet(DocumentCalls(d)) : c.call = "mark" /\ c.family = f
           /\ \A f : Reads(DocumentCalls(d), f) = <<>>
           /\ \A f \in DocumentFamilies, h \in Seq(Fact) : Left(DocumentCalls(d), f, h) = FactsOf(f, d)
           /\ \A f : f \notin DocumentFamilies => \A h \in Seq(Fact) : Left(DocumentCalls(d), f, h) = <<>>
  <1> DEFINE fs == <<Class, Syntax, AttributeAccess>>
             rowsOf == [f \in Families |-> Batch]
             call == [f \in Families |-> IF f \in opened THEN Hold(f, FactsOf(f, d))
                                                         ELSE Give(f, FactsOf(f, d))]
             a == Calls(fs, FirstRows(d), Marks(rowsOf))
             b == Calls(InOrder, DocumentFamilies, call)
  <1>1. d \in 0..Docs /\ d # 0
    BY SizeIsNat DEF Doc
  <1>2. OnceEach(fs) /\ ToSet(fs) = {Class, Syntax, AttributeAccess}
    <2>1. Class # Syntax /\ Class # AttributeAccess /\ Syntax # AttributeAccess
      BY DEF Class, Syntax, AttributeAccess
    <2> QED BY <2>1, FamilyNames, FamilyLists
  <1>3. OnceEach(InOrder) /\ ToSet(InOrder) = Families
    BY FamilyLists
  <1>4. rowsOf \in [Families -> Nat] /\ \A g \in Families : rowsOf[g] = Batch
    BY DeliveryAssumption
  <1> HIDE DEF fs, rowsOf
  <1>5. /\ a \in Seq(PipelineCall)
        /\ ToSet(a) = {Mark(g, rowsOf[g]) : g \in ToSet(fs) \cap FirstRows(d)}
        /\ \A f : Reads(a, f) = <<>> /\ \A h \in Seq(Fact) : Left(a, f, h) = <<>>
    BY <1>2, <1>4, MarkCalls
  <1>6. ASSUME NEW g \in Families
        PROVE  /\ call[g] \in PipelineCall /\ call[g].family = g
               /\ call[g].call = IF g \in opened THEN "hold" ELSE "send"
               /\ \A h : Part(g, h)[call[g]] = FactsOf(g, d)
               /\ Reading(g)[call[g]] = <<>>
    <2> DEFINE s == FactsOf(g, d)
    <2>1. s \in Seq(FactsIn(g))
      BY <1>1, FactsOfType
    <2>2. call[g] = IF g \in opened THEN Hold(g, s) ELSE Give(g, s)
      OBVIOUS
    <2> HIDE DEF s, call
    <2>3. /\ Hold(g, s) \in PipelineCall /\ Hold(g, s).call = "hold" /\ Hold(g, s).family = g
          /\ Give(g, s) \in PipelineCall /\ Give(g, s).call = "send" /\ Give(g, s).family = g
      BY <2>1, CallShapes
    <2>4. call[g] \in {Give(g, s), Hold(g, s)}
      BY <2>2
    <2>5. (\A h : Part(g, h)[call[g]] = s) /\ Reading(g)[call[g]] = <<>>
      BY <2>1, <2>4, GiveValues
    <2> QED BY <2>2, <2>3, <2>5 DEF s
  <1>7. call = [g \in Families |-> call[g]]
    OBVIOUS
  <1> HIDE DEF call
  <1>8. call \in [Families -> PipelineCall]
    BY <1>6, <1>7
  <1>9. call \in FamilyCalls
    BY <1>6, <1>8 DEF FamilyCalls
  <1>10. InOrder \in Seq(Families)
    BY <1>3 DEF OnceEach
  <1>11. b \in Seq(PipelineCall) /\ ToSet(b) = {call[f] : f \in Families \cap DocumentFamilies}
    BY <1>3, <1>8, <1>10, CallsFacts
  <1>12. DocumentFamilies \subseteq Families
    BY FamilyNames DEF DocumentFamilies, PerFile, Wanted, RequestInv
  <1>13. ASSUME NEW f PROVE Reads(b, f) = <<>>
    <2>1. CASE f \in Families \cap DocumentFamilies
      <3>1. Reads(b, f) = Reading(f)[call[f]]
        BY <1>3, <1>9, <2>1, ReadsOfCalls
      <3> QED BY <1>6, <2>1, <3>1
    <2>2. CASE f \notin Families \cap DocumentFamilies
      BY <1>3, <1>9, <2>2, ReadsOfCalls
    <2> QED BY <2>1, <2>2
  <1>14. ASSUME NEW f \in DocumentFamilies, NEW h \in Seq(Fact) PROVE Left(b, f, h) = FactsOf(f, d)
    <2>1. f \in Families /\ f \in Families \cap DocumentFamilies
      BY <1>12
    <2>2. Left(b, f, h) = Part(f, h)[call[f]]
      BY <1>3, <1>9, <2>1, LeftOfCalls
    <2> QED BY <1>6, <2>1, <2>2
  <1>15. ASSUME NEW f, f \notin DocumentFamilies, NEW h \in Seq(Fact) PROVE Left(b, f, h) = <<>>
    <2>1. f \notin Families \cap DocumentFamilies
      BY <1>15
    <2> QED BY <1>3, <1>9, <2>1, LeftOfCalls
  <1>16. DocumentCalls(d) = a \o b
    BY DEF DocumentCalls, fs, rowsOf, call
  <1> HIDE DEF a, b
  <1>17. DocumentCalls(d) \in Seq(PipelineCall) /\ ToSet(DocumentCalls(d)) = ToSet(a) \cup ToSet(b)
    BY <1>5, <1>11, <1>16, CallsConcat
  <1>18. \A c \in ToSet(DocumentCalls(d)) :
            \/ c.call = "mark" /\ c.family \in typed
            \/ c.call = "hold" /\ c.family \in opened
            \/ c.call = "send" /\ c.family \notin opened
    <2>1. ASSUME NEW c \in ToSet(a) PROVE c.call = "mark" /\ c.family \in typed
      <3>1. PICK g \in ToSet(fs) \cap FirstRows(d) : c = Mark(g, rowsOf[g])
        BY <1>5
      <3> QED BY <3>1 DEF Mark, FirstRows
    <2>2. ASSUME NEW c \in ToSet(b)
          PROVE  \/ c.call = "hold" /\ c.family \in opened
                 \/ c.call = "send" /\ c.family \notin opened
      <3>1. PICK g \in Families : c = call[g]
        BY <1>11
      <3> QED BY <1>6, <3>1
    <2> QED BY <1>17, <2>1, <2>2
  <1>19. \A f \in FirstRows(d) \cap {Class, Syntax, AttributeAccess} :
            \E c \in ToSet(DocumentCalls(d)) : c.call = "mark" /\ c.family = f
    <2> SUFFICES ASSUME NEW f \in FirstRows(d) \cap {Class, Syntax, AttributeAccess}
                 PROVE  \E c \in ToSet(DocumentCalls(d)) : c.call = "mark" /\ c.family = f
      OBVIOUS
    <2>1. Mark(f, rowsOf[f]) \in ToSet(a)
      BY <1>2, <1>5
    <2>2. Mark(f, rowsOf[f]).call = "mark" /\ Mark(f, rowsOf[f]).family = f
      BY DEF Mark
    <2> QED BY <1>17, <2>1, <2>2
  <1>20. ASSUME NEW f PROVE Reads(DocumentCalls(d), f) = <<>>
    <2>1. Reads(a \o b, f) = Reads(a, f) \o Reads(b, f)
      BY <1>5, <1>11, ReadsOfConcat
    <2> QED BY <1>5, <1>13, <1>16, <2>1
  <1>21. ASSUME NEW f, NEW h \in Seq(Fact) PROVE Left(DocumentCalls(d), f, h) = Left(b, f, h)
    <2>1. Left(a \o b, f, h) = Left(a, f, h) \o Left(b, f, h)
      BY <1>5, <1>11, LeftOfConcat
    <2>2. Left(a, f, h) = <<>> /\ Left(b, f, h) \in Seq(Fact)
      BY <1>5, <1>11, LeftType
    <2> QED BY <1>16, <2>1, <2>2, ConcatEmptySeq
  <1> QED BY <1>14, <1>15, <1>17, <1>18, <1>19, <1>20, <1>21

\* A list of calls with facts of the families S at most; two lists that do the same for f.
Only(l, S) == \A f : f \notin S => /\ Reads(l, f) = <<>>
                                   /\ \A h \in Seq(Fact) : Left(l, f, h) = <<>>
Same(l, m, f) == Reads(l, f) = Reads(m, f) /\ \A h \in Seq(Fact) : Left(l, f, h) = Left(m, f, h)

LEMMA CallsApart ==
    ASSUME NEW l \in Seq(PipelineCall), NEW m \in Seq(PipelineCall), NEW S, NEW T,
           Only(l, S), Only(m, T), S \cap T = {}
    PROVE  /\ Only(l \o m, S \cup T)
           /\ \A f \in S : Same(l \o m, l, f)
           /\ \A f \in T : Same(l \o m, m, f)
  <1>1. ASSUME NEW f, f \notin S PROVE Same(l \o m, m, f)
    <2>1. Reads(l \o m, f) = Reads(m, f)
      <3>1. Reads(l \o m, f) = Reads(l, f) \o Reads(m, f)
        BY ReadsOfConcat
      <3>2. Reads(l, f) = <<>> /\ Reads(m, f) \in Seq({f})
        BY <1>1, ReadsType DEF Only
      <3> QED BY <3>1, <3>2, ConcatEmptySeq
    <2>2. ASSUME NEW h \in Seq(Fact) PROVE Left(l \o m, f, h) = Left(m, f, h)
      <3>1. Left(l \o m, f, h) = Left(l, f, h) \o Left(m, f, h)
        BY LeftOfConcat
      <3>2. Left(l, f, h) = <<>> /\ Left(m, f, h) \in Seq(Fact)
        BY <1>1, LeftType DEF Only
      <3> QED BY <3>1, <3>2, ConcatEmptySeq
    <2> QED BY <2>1, <2>2 DEF Same
  <1>2. ASSUME NEW f, f \notin T PROVE Same(l \o m, l, f)
    <2>1. Reads(l \o m, f) = Reads(l, f)
      <3>1. Reads(l \o m, f) = Reads(l, f) \o Reads(m, f)
        BY ReadsOfConcat
      <3>2. Reads(m, f) = <<>> /\ Reads(l, f) \in Seq({f})
        BY <1>2, ReadsType DEF Only
      <3> QED BY <3>1, <3>2, ConcatEmptySeq
    <2>2. ASSUME NEW h \in Seq(Fact) PROVE Left(l \o m, f, h) = Left(l, f, h)
      <3>1. Left(l \o m, f, h) = Left(l, f, h) \o Left(m, f, h)
        BY LeftOfConcat
      <3>2. Left(m, f, h) = <<>> /\ Left(l, f, h) \in Seq(Fact)
        BY <1>2, LeftType DEF Only
      <3> QED BY <3>1, <3>2, ConcatEmptySeq
    <2> QED BY <2>1, <2>2 DEF Same
  <1>3. \A f : f \notin S \cup T => Same(l \o m, m, f)
    BY <1>1
  <1> QED BY <1>1, <1>2, <1>3 DEF Only, Same

\* The calls the repository phase may make.
Allowed(l) ==
    /\ l \in Seq(PipelineCall)
    /\ \A c \in ToSet(l) : \/ c.call = "mark" /\ c.family \in typed
                           \/ c.call = "take" /\ c.family \in Spooled
                           \/ c.call = "send"

LEMMA AllowedConcat ==
    ASSUME NEW l, NEW m, Allowed(l), Allowed(m)
    PROVE  Allowed(l \o m) /\ ToSet(l \o m) = ToSet(l) \cup ToSet(m)
  BY CallsConcat DEF Allowed

LEMMA AllowedMarks ==
    ASSUME NEW S, S \subseteq typed, NEW fs, OnceEach(fs), NEW rowsOf \in [Families -> Nat]
    PROVE  LET l == Calls(fs, S, Marks(rowsOf))
           IN /\ Allowed(l) /\ Only(l, {})
              /\ \A f \in ToSet(fs) \cap S : \E c \in ToSet(l) : c.call = "mark" /\ c.family = f
  <1> DEFINE l == Calls(fs, S, Marks(rowsOf))
  <1>1. /\ l \in Seq(PipelineCall)
        /\ ToSet(l) = {Mark(g, rowsOf[g]) : g \in ToSet(fs) \cap S}
        /\ \A f : Reads(l, f) = <<>> /\ \A h \in Seq(Fact) : Left(l, f, h) = <<>>
    BY MarkCalls
  <1> HIDE DEF l
  <1>2. \A g : Mark(g, rowsOf[g]).call = "mark" /\ Mark(g, rowsOf[g]).family = g
    BY DEF Mark
  <1>3. Allowed(l)
    BY <1>1, <1>2 DEF Allowed
  <1>4. Only(l, {})
    BY <1>1 DEF Only
  <1>5. \A f \in ToSet(fs) \cap S : \E c \in ToSet(l) : c.call = "mark" /\ c.family = f
    BY <1>1, <1>2
  <1> QED BY <1>3, <1>4, <1>5 DEF l

LEMMA AllowedTakes ==
    ASSUME NEW fs, OnceEach(fs), NEW how \in {"whole", "drain"},
           \A f \in ToSet(fs) \cap Wanted : f \in Spooled
    PROVE  LET l == Calls(fs, Wanted, Takes(how))
           IN /\ Allowed(l) /\ Only(l, ToSet(fs))
              /\ \A f \in ToSet(fs) \cap Wanted : /\ Reads(l, f) = <<f>>
                                                  /\ \A h \in Seq(Fact) : Left(l, f, h) = h
              /\ \A f : f \notin ToSet(fs) \cap Wanted =>
                           Reads(l, f) = <<>> /\ \A h \in Seq(Fact) : Left(l, f, h) = <<>>
  <1> DEFINE l == Calls(fs, Wanted, Takes(how))
  <1>1. /\ l \in Seq(PipelineCall)
        /\ ToSet(l) = {Take(g, how) : g \in ToSet(fs) \cap Wanted}
        /\ \A f \in ToSet(fs) \cap Wanted : /\ Reads(l, f) = <<f>>
                                            /\ \A h \in Seq(Fact) : Left(l, f, h) = h
        /\ \A f : f \notin ToSet(fs) \cap Wanted =>
                     Reads(l, f) = <<>> /\ \A h \in Seq(Fact) : Left(l, f, h) = <<>>
    BY TakeCalls
  <1> HIDE DEF l
  <1>2. \A g : Take(g, how).call = "take" /\ Take(g, how).family = g
    BY DEF Take
  <1>3. Allowed(l)
    BY <1>1, <1>2 DEF Allowed
  <1>4. Only(l, ToSet(fs))
    BY <1>1 DEF Only
  <1> QED BY <1>1, <1>3, <1>4 DEF l

LEMMA AllowedOne ==
    ASSUME NEW c \in PipelineCall, \/ c.call = "send"
                                   \/ c.call = "take" /\ c.family \in Spooled
    PROVE  Allowed(<<c>>) /\ Only(<<c>>, {c.family})
  <1>1. Allowed(<<c>>)
    BY OneCall DEF Allowed
  <1>2. ASSUME NEW f, f # c.family PROVE Reads(<<c>>, f) = <<>>
    BY <1>2, LeftOfOne DEF Reading
  <1>3. ASSUME NEW f, f # c.family, NEW h \in Seq(Fact) PROVE Left(<<c>>, f, h) = <<>>
    <2>1. Left(<<c>>, f, h) = Part(f, h)[c]
      BY LeftOfOne
    <2> QED BY <1>3, <2>1 DEF Part
  <1>4. Only(<<c>>, {c.family})
    BY <1>2, <1>3 DEF Only
  <1> QED BY <1>1, <1>4

LEMMA NoCalls == Allowed(<<>>) /\ \A S : Only(<<>>, S)
  BY LeftOfNone DEF Allowed, Only

\* Only what is wanted is held for later, and what a join reads is held.
LEMMA SpooledFacts ==
    ASSUME RequestInv
    PROVE  /\ \A f \in Wanted \cap {Class, Function, Call, TestFunction} : f \in Spooled
           /\ Needs(Directory) => Module \in Spooled /\ Directory \in Wanted
           /\ \A f \in Spooled : \/ f \in Wanted \cap {Class, Function, Call, TestFunction}
                                 \/ f = Module /\ Needs(Directory)
           /\ Spooled \subseteq DocumentFamilies
           /\ \A f \in DocumentFamilies \ Spooled :
                 /\ f \in Wanted /\ f \notin {Class, Function, Call, TestFunction, Directory, Route}
                 /\ f = Module => ~Needs(Directory)
           /\ \A f \in Wanted \ DocumentFamilies : f \in {Directory, Route}
           /\ Directory \notin DocumentFamilies /\ Route \notin DocumentFamilies
  <1> USE DEF Class, Function, Call, TestFunction, Module, Directory, Route, Syntax, AttributeAccess
  <1>1. typed \cap {Module, Directory, Route, TestFunction} = {}
    BY DEF RequestInv, Specialized
  <1> USE DEF Needs, Spooled, PerFile, DocumentFamilies
  <1>2. \A f \in Wanted \cap {Class, Function, Call, TestFunction} : f \in Spooled
    OBVIOUS
  <1>3. Needs(Directory) => Module \in Spooled /\ Directory \in Wanted
    BY <1>1
  <1>4. \A f \in Spooled : \/ f \in Wanted \cap {Class, Function, Call, TestFunction}
                           \/ f = Module /\ Needs(Directory)
    BY <1>1
  <1>5. Spooled \subseteq DocumentFamilies
    BY <1>1
  <1>6. \A f \in DocumentFamilies \ Spooled :
           /\ f \in Wanted /\ f \notin {Class, Function, Call, TestFunction, Directory, Route}
           /\ f = Module => ~Needs(Directory)
    BY <1>1
  <1>7. \A f \in Wanted \ DocumentFamilies : f \in {Directory, Route}
    OBVIOUS
  <1>8. Directory \notin DocumentFamilies /\ Route \notin DocumentFamilies
    OBVIOUS
  <1> QED BY <1>2, <1>3, <1>4, <1>5, <1>6, <1>7, <1>8

LEMMA ClassCallsFacts ==
    ASSUME RequestInv, count \in [Families -> Nat]
    PROVE  /\ Allowed(ClassCalls) /\ Only(ClassCalls, {Class, Function})
           /\ \A f \in {Class, Function} \cap Wanted :
                 Reads(ClassCalls, f) = <<f>> /\ \A h \in Seq(Fact) : Left(ClassCalls, f, h) = h
           /\ \A f \in {Class, Function} \ Wanted :
                 Reads(ClassCalls, f) = <<>> /\ \A h \in Seq(Fact) : Left(ClassCalls, f, h) = <<>>
           /\ \A f \in {Class, Function} \cap (typed \ Wanted) :
                 \E c \in ToSet(ClassCalls) : c.call = "mark" /\ c.family = f
  <1>1. CASE ~Needs(Class) /\ ~Needs(Function)
    <2>1. ClassCalls = <<>> /\ \A f \in {Class, Function} : f \notin Wanted /\ f \notin typed
      BY <1>1 DEF ClassCalls, Needs
    <2> QED BY <2>1, NoCalls, LeftOfNone
  <1>2. CASE Needs(Class) \/ Needs(Function)
    <2> DEFINE fs == <<Class, Function>>
               gs == <<Function, Class>>
               l == Calls(fs, Wanted, Takes("whole"))
               m == Calls(gs, typed \ Wanted, Marks(count))
    <2>1. /\ OnceEach(fs) /\ ToSet(fs) = {Class, Function}
          /\ OnceEach(gs) /\ ToSet(gs) = {Class, Function}
      <3>1. Class # Function /\ {Function, Class} = {Class, Function}
        BY DEF Class, Function
      <3> QED BY <3>1, FamilyNames, FamilyLists
    <2>2. ClassCalls = l \o m
      BY <1>2 DEF ClassCalls
    <2> HIDE DEF fs, gs
    <2>3. /\ Allowed(l) /\ Only(l, {Class, Function})
          /\ \A f \in {Class, Function} \cap Wanted : /\ Reads(l, f) = <<f>>
                                                      /\ \A h \in Seq(Fact) : Left(l, f, h) = h
          /\ \A f \in {Class, Function} \ Wanted :
                Reads(l, f) = <<>> /\ \A h \in Seq(Fact) : Left(l, f, h) = <<>>
      <3>1. \A f \in ToSet(fs) \cap Wanted : f \in Spooled
        BY <2>1, SpooledFacts
      <3> HIDE DEF l
      <3>2. /\ Allowed(l) /\ Only(l, ToSet(fs))
            /\ \A f \in ToSet(fs) \cap Wanted : /\ Reads(l, f) = <<f>>
                                                /\ \A h \in Seq(Fact) : Left(l, f, h) = h
            /\ \A f : f \notin ToSet(fs) \cap Wanted =>
                         Reads(l, f) = <<>> /\ \A h \in Seq(Fact) : Left(l, f, h) = <<>>
        BY <2>1, <3>1, AllowedTakes DEF l
      <3> QED BY <2>1, <3>2
    <2>4. /\ Allowed(m) /\ Only(m, {})
          /\ \A f \in {Class, Function} \cap (typed \ Wanted) :
                \E c \in ToSet(m) : c.call = "mark" /\ c.family = f
      BY <2>1, AllowedMarks
    <2> HIDE DEF l, m
    <2>5. Allowed(l \o m) /\ ToSet(l \o m) = ToSet(l) \cup ToSet(m)
      BY <2>3, <2>4, AllowedConcat
    <2>6. /\ Only(l \o m, {Class, Function})
          /\ \A f \in {Class, Function} : Same(l \o m, l, f)
      <3>1. l \in Seq(PipelineCall) /\ m \in Seq(PipelineCall)
        BY <2>3, <2>4 DEF Allowed
      <3>2. /\ Only(l \o m, {Class, Function} \cup {})
            /\ \A f \in {Class, Function} : Same(l \o m, l, f)
        BY <2>3, <2>4, <3>1, CallsApart
      <3>3. {Class, Function} \cup {} = {Class, Function}
        OBVIOUS
      <3> QED BY <3>2, <3>3
    <2> QED BY <2>2, <2>3, <2>4, <2>5, <2>6 DEF Same
  <1> QED BY <1>1, <1>2

LEMMA CallCallsFacts ==
    ASSUME RequestInv, count \in [Families -> Nat]
    PROVE  /\ Allowed(CallCalls) /\ Only(CallCalls, {Call, TestFunction})
           /\ \A f \in {Call, TestFunction} \cap Wanted :
                 Reads(CallCalls, f) = <<f>> /\ \A h \in Seq(Fact) : Left(CallCalls, f, h) = h
           /\ \A f \in {Call, TestFunction} \ Wanted :
                 Reads(CallCalls, f) = <<>> /\ \A h \in Seq(Fact) : Left(CallCalls, f, h) = <<>>
           /\ Call \in typed \ Wanted =>
                 \E c \in ToSet(CallCalls) : c.call = "mark" /\ c.family = Call
  <1> DEFINE fs == <<Call, TestFunction>>
             gs == <<Call>>
             l == Calls(fs, Wanted, Takes("drain"))
             m == Calls(gs, typed \ Wanted, Marks(count))
  <1>1. /\ OnceEach(fs) /\ ToSet(fs) = {Call, TestFunction}
        /\ OnceEach(gs) /\ ToSet(gs) = {Call}
    <2>1. Call # TestFunction
      BY DEF Call, TestFunction
    <2> QED BY <2>1, FamilyNames, FamilyLists
  <1>2. CallCalls = l \o m
    BY DEF CallCalls
  <1> HIDE DEF fs, gs
  <1>3. /\ Allowed(l) /\ Only(l, {Call, TestFunction})
        /\ \A f \in {Call, TestFunction} \cap Wanted : /\ Reads(l, f) = <<f>>
                                                       /\ \A h \in Seq(Fact) : Left(l, f, h) = h
        /\ \A f \in {Call, TestFunction} \ Wanted :
              Reads(l, f) = <<>> /\ \A h \in Seq(Fact) : Left(l, f, h) = <<>>
    <2>1. \A f \in ToSet(fs) \cap Wanted : f \in Spooled
      BY <1>1, SpooledFacts
    <2> HIDE DEF l
    <2>2. /\ Allowed(l) /\ Only(l, ToSet(fs))
          /\ \A f \in ToSet(fs) \cap Wanted : /\ Reads(l, f) = <<f>>
                                              /\ \A h \in Seq(Fact) : Left(l, f, h) = h
          /\ \A f : f \notin ToSet(fs) \cap Wanted =>
                       Reads(l, f) = <<>> /\ \A h \in Seq(Fact) : Left(l, f, h) = <<>>
      BY <1>1, <2>1, AllowedTakes DEF l
    <2> QED BY <1>1, <2>2
  <1>4. /\ Allowed(m) /\ Only(m, {})
        /\ \A f \in {Call} \cap (typed \ Wanted) :
              \E c \in ToSet(m) : c.call = "mark" /\ c.family = f
    BY <1>1, AllowedMarks
  <1> HIDE DEF l, m
  <1>5. Allowed(l \o m) /\ ToSet(l \o m) = ToSet(l) \cup ToSet(m)
    BY <1>3, <1>4, AllowedConcat
  <1>6. /\ Only(l \o m, {Call, TestFunction})
        /\ \A f \in {Call, TestFunction} : Same(l \o m, l, f)
    <2>1. l \in Seq(PipelineCall) /\ m \in Seq(PipelineCall)
      BY <1>3, <1>4 DEF Allowed
    <2>2. /\ Only(l \o m, {Call, TestFunction} \cup {})
          /\ \A f \in {Call, TestFunction} : Same(l \o m, l, f)
      BY <1>3, <1>4, <2>1, CallsApart
    <2>3. {Call, TestFunction} \cup {} = {Call, TestFunction}
      OBVIOUS
    <2> QED BY <2>2, <2>3
  <1> QED BY <1>2, <1>3, <1>4, <1>5, <1>6 DEF Same

LEMMA DirectoryCallsFacts ==
    ASSUME RequestInv
    PROVE  /\ Allowed(DirectoryCalls) /\ Only(DirectoryCalls, {Module, Directory})
           /\ Reads(DirectoryCalls, Module) \in {<<>>, <<Module>>}
           /\ Reads(DirectoryCalls, Directory) = <<>>
           /\ Needs(Directory) =>
                 \A h \in Seq(Fact) :
                    /\ Left(DirectoryCalls, Module, h) = IF Module \in Wanted THEN h ELSE <<>>
                    /\ Left(DirectoryCalls, Directory, h) = FactsOf(Directory, 0)
           /\ ~Needs(Directory) => DirectoryCalls = <<>>
  <1>1. CASE ~Needs(Directory)
    <2>1. DirectoryCalls = <<>>
      BY <1>1 DEF DirectoryCalls
    <2> QED BY <1>1, <2>1, NoCalls, LeftOfNone
  <1>2. CASE Needs(Directory)
    <2> DEFINE how == IF Module \in Wanted THEN "whole" ELSE "aside"
               c == Take(Module, how)
               e == Give(Directory, FactsOf(Directory, 0))
    <2>1. /\ Module \in Families /\ Directory \in Families /\ Module # Directory
          /\ Module \in Spooled /\ 0 \in 0..Docs
      BY <1>2, FamilyNames, SpooledFacts, SizeIsNat DEF Module, Directory
    <2>2. FactsOf(Directory, 0) \in Seq(FactsIn(Directory))
      BY <2>1, FactsOfType
    <2>3. how \in {"whole", "drain", "aside"} /\ (how = "aside" <=> Module \notin Wanted)
      OBVIOUS
    <2>4. DirectoryCalls = <<c>> \o <<e>>
      BY <1>2 DEF DirectoryCalls
    <2> HIDE DEF how
    <2>5. /\ c \in PipelineCall /\ c.call = "take" /\ c.family = Module
          /\ e \in PipelineCall /\ e.call = "send" /\ e.family = Directory
      BY <2>1, <2>2, <2>3, CallShapes
    <2>6. /\ Reading(Module)[c] = <<Module>>
          /\ \A h : Part(Module, h)[c] = IF Module \in Wanted THEN h ELSE <<>>
      <3> DEFINE g == Module
      <3> HIDE DEF g
      <3>1. g \in Families /\ c = Take(g, how)
        BY <2>1 DEF g
      <3>2. Reading(g)[Take(g, how)] = <<g>>
        BY <2>3, <3>1, TakeValues
      <3> HIDE DEF c
      <3>3. ASSUME how # "aside" PROVE \A h : Part(g, h)[Take(g, how)] = h
        <4>1. how \in {"whole", "drain", "aside"} /\ g = g
          BY <2>3
        <4> QED BY <3>1, <3>3, <4>1, TakeValues
      <3>4. ASSUME how = "aside" PROVE \A h : Part(g, h)[Take(g, how)] = <<>>
        <4>1. how \in {"whole", "drain", "aside"} /\ (g # g \/ how = "aside")
          BY <2>3, <3>4
        <4> QED BY <3>1, <4>1, TakeValues
      <3> QED BY <2>3, <3>1, <3>2, <3>3, <3>4 DEF g
    <2>7. Reading(Directory)[e] = <<>> /\ \A h : Part(Directory, h)[e] = FactsOf(Directory, 0)
      <3> DEFINE g == Directory
                 s == FactsOf(g, 0)
      <3>1. g \in Families /\ s \in Seq(FactsIn(g)) /\ e = Give(g, s)
        BY <2>1, <2>2
      <3> HIDE DEF g, s, e
      <3>2. e \in {Give(g, s), Hold(g, s)}
        BY <3>1
      <3>3. Reading(g)[e] = <<>> /\ \A h : Part(g, h)[e] = s
        BY <3>1, <3>2, GiveValues
      <3> QED BY <3>3 DEF g, s
    <2> HIDE DEF c, e
    <2>8. /\ Allowed(<<c>>) /\ Only(<<c>>, {Module}) /\ Reads(<<c>>, Module) = <<Module>>
          /\ \A h \in Seq(Fact) : Left(<<c>>, Module, h) = IF Module \in Wanted THEN h ELSE <<>>
      BY <2>1, <2>5, <2>6, AllowedOne, LeftOfOne
    <2>9. /\ Allowed(<<e>>) /\ Only(<<e>>, {Directory}) /\ Reads(<<e>>, Directory) = <<>>
          /\ \A h \in Seq(Fact) : Left(<<e>>, Directory, h) = FactsOf(Directory, 0)
      BY <2>5, <2>7, AllowedOne, LeftOfOne
    <2> DEFINE l == <<c>>
               m == <<e>>
    <2>10. l \in Seq(PipelineCall) /\ m \in Seq(PipelineCall)
      BY <2>8, <2>9 DEF Allowed
    <2>11. Allowed(l \o m)
      <3>1. Allowed(l) /\ Allowed(m)
        BY <2>8, <2>9
      <3> HIDE DEF l, m
      <3> QED BY <3>1, AllowedConcat
    <2>12. /\ Only(l \o m, {Module} \cup {Directory})
           /\ Same(l \o m, l, Module) /\ Same(l \o m, m, Directory)
      <3>1. Only(l, {Module}) /\ Only(m, {Directory}) /\ {Module} \cap {Directory} = {}
        BY <2>1, <2>8, <2>9
      <3> HIDE DEF l, m
      <3>2. /\ Only(l \o m, {Module} \cup {Directory})
            /\ \A f \in {Module} : Same(l \o m, l, f)
            /\ \A f \in {Directory} : Same(l \o m, m, f)
        BY <2>10, <3>1, CallsApart
      <3> QED BY <3>2
    <2>13. {Module} \cup {Directory} = {Module, Directory}
      OBVIOUS
    <2> QED BY <1>2, <2>4, <2>8, <2>9, <2>11, <2>12, <2>13 DEF Same
  <1> QED BY <1>1, <1>2

LEMMA ScanCallsFacts ==
    ASSUME RequestInv
    PROVE  /\ Allowed(ScanCalls) /\ Only(ScanCalls, {Route})
           /\ Reads(ScanCalls, Route) = <<>>
           /\ Route \in Wanted => \A h \in Seq(Fact) : Left(ScanCalls, Route, h) = FactsOf(Route, 0)
           /\ Route \notin Wanted => \A h \in Seq(Fact) : Left(ScanCalls, Route, h) = <<>>
  <1>1. CASE Route \notin Wanted
    <2>1. ScanCalls = <<>>
      BY <1>1 DEF ScanCalls
    <2> QED BY <1>1, <2>1, NoCalls, LeftOfNone
  <1>2. CASE Route \in Wanted
    <2> DEFINE e == Give(Route, FactsOf(Route, 0))
    <2>1. Route \in Families /\ 0 \in 0..Docs
      BY FamilyNames, SizeIsNat
    <2>2. FactsOf(Route, 0) \in Seq(FactsIn(Route))
      BY <2>1, FactsOfType
    <2>3. e \in PipelineCall /\ e.call = "send" /\ e.family = Route
      BY <2>1, <2>2, CallShapes
    <2>6. e \in {Give(Route, FactsOf(Route, 0)), Hold(Route, FactsOf(Route, 0))}
      OBVIOUS
    <2>7. ASSUME NEW c \in {Give(Route, FactsOf(Route, 0)), Hold(Route, FactsOf(Route, 0))}
          PROVE  Reading(Route)[c] = <<>> /\ \A h : Part(Route, h)[c] = FactsOf(Route, 0)
      BY <2>1, <2>2, GiveValues
    <2>4. Reading(Route)[e] = <<>> /\ \A h : Part(Route, h)[e] = FactsOf(Route, 0)
      BY <2>6, <2>7
    <2>5. ScanCalls = <<e>>
      BY <1>2 DEF ScanCalls
    <2> HIDE DEF e
    <2> QED BY <1>2, <2>3, <2>4, <2>5, AllowedOne, LeftOfOne
  <1> QED BY <1>1, <1>2

LEMMA EmptyCallsFacts ==
    ASSUME count \in [Families -> Nat]
    PROVE  /\ Allowed(EmptyCalls) /\ Only(EmptyCalls, {})
           /\ \A f \in {Class, Syntax, AttributeAccess} \cap typed :
                 count[f] = 0 => \E c \in ToSet(EmptyCalls) : c.call = "mark" /\ c.family = f
  <1> DEFINE fs == <<Syntax, Class, AttributeAccess>>
             S == {f \in typed : count[f] = 0}
             l == Calls(fs, S, Marks(count))
  <1>1. OnceEach(fs) /\ ToSet(fs) = {Syntax, Class, AttributeAccess}
    <2>1. Class # Syntax /\ Class # AttributeAccess /\ Syntax # AttributeAccess
      BY DEF Class, Syntax, AttributeAccess
    <2> QED BY <2>1, FamilyNames, FamilyLists
  <1>2. EmptyCalls = l
    BY DEF EmptyCalls
  <1>3. S \subseteq typed
    OBVIOUS
  <1>4. \A f \in {Class, Syntax, AttributeAccess} \cap typed : count[f] = 0 => f \in ToSet(fs) \cap S
    BY <1>1
  <1> HIDE DEF fs, S
  <1>5. /\ Allowed(l) /\ Only(l, {})
        /\ \A f \in ToSet(fs) \cap S : \E c \in ToSet(l) : c.call = "mark" /\ c.family = f
    BY <1>1, <1>3, AllowedMarks
  <1> HIDE DEF l
  <1> QED BY <1>2, <1>4, <1>5

\* Lists of calls one after the other, for families apart.
LEMMA AllowedApart ==
    ASSUME NEW l, NEW m, NEW S, NEW T,
           Allowed(l), Allowed(m), Only(l, S), Only(m, T), S \cap T = {}
    PROVE  /\ Allowed(l \o m) /\ Only(l \o m, S \cup T)
           /\ ToSet(l \o m) = ToSet(l) \cup ToSet(m)
           /\ \A f \in S : Same(l \o m, l, f)
           /\ \A f \in T : Same(l \o m, m, f)
  <1>1. Allowed(l \o m) /\ ToSet(l \o m) = ToSet(l) \cup ToSet(m)
    BY AllowedConcat
  <1>2. l \in Seq(PipelineCall) /\ m \in Seq(PipelineCall)
    BY DEF Allowed
  <1>3. /\ Only(l \o m, S \cup T)
        /\ \A f \in S : Same(l \o m, l, f)
        /\ \A f \in T : Same(l \o m, m, f)
    BY <1>2, CallsApart
  <1> QED BY <1>1, <1>3

\* What the repository phase makes the pipeline do: every call it makes may be made, each
\* stage acts for families of its own, and every table nobody else announces is announced.
LEMMA RepositoryCallsParts ==
    ASSUME RequestInv, count \in [Families -> Nat]
    PROVE  /\ Allowed(RepositoryCalls)
           /\ Only(RepositoryCalls, {Class, Function, Module, Directory, Route, Call, TestFunction})
           /\ \A f \in {Class, Function} : Same(RepositoryCalls, ClassCalls, f)
           /\ \A f \in {Module, Directory} : Same(RepositoryCalls, DirectoryCalls, f)
           /\ Same(RepositoryCalls, ScanCalls, Route)
           /\ \A f \in {Call, TestFunction} : Same(RepositoryCalls, CallCalls, f)
           /\ \A f \in typed \ Wanted :
                 (f \in {Class, Syntax, AttributeAccess} => count[f] = 0) =>
                    \E c \in ToSet(RepositoryCalls) : c.call = "mark" /\ c.family = f
  <1> DEFINE E == EmptyCalls
             C == ClassCalls
             D == DirectoryCalls
             R == ScanCalls
             K == CallCalls
             CF == {Class, Function}
             MD == {Module, Directory}
             CT == {Call, TestFunction}
             SA == {Class, Syntax, AttributeAccess}
  <1>1. /\ CF \cap MD = {} /\ (CF \cup MD) \cap {Route} = {}
        /\ ((CF \cup MD) \cup {Route}) \cap CT = {}
    BY DEF Class, Function, Module, Directory, Route, Call, TestFunction
  <1>2. ((CF \cup MD) \cup {Route}) \cup CT
          = {Class, Function, Module, Directory, Route, Call, TestFunction}
    OBVIOUS
  <1>3. typed \subseteq SA \cup {Function, Call}
    BY DEF RequestInv, Specialized
  <1>4. Function \in CF
    OBVIOUS
  <1>5. /\ Allowed(E) /\ Only(E, {})
        /\ \A f \in SA \cap typed :
              count[f] = 0 => \E c \in ToSet(E) : c.call = "mark" /\ c.family = f
    BY EmptyCallsFacts
  <1>6. /\ Allowed(C) /\ Only(C, CF)
        /\ \A f \in CF \cap (typed \ Wanted) : \E c \in ToSet(C) : c.call = "mark" /\ c.family = f
    BY ClassCallsFacts
  <1>7. Allowed(D) /\ Only(D, MD)
    BY DirectoryCallsFacts
  <1>8. Allowed(R) /\ Only(R, {Route})
    BY ScanCallsFacts
  <1>9. /\ Allowed(K) /\ Only(K, CT)
        /\ Call \in typed \ Wanted => \E c \in ToSet(K) : c.call = "mark" /\ c.family = Call
    BY CallCallsFacts
  <1>10. RepositoryCalls = (((E \o C) \o D) \o R) \o K
    BY DEF RepositoryCalls
  <1> HIDE DEF E, C, D, R, K, CF, MD, CT, SA
  <1> DEFINE a == E \o C
  <1>11. /\ Allowed(a) /\ Only(a, {} \cup CF) /\ ToSet(a) = ToSet(E) \cup ToSet(C)
         /\ \A f \in CF : Same(a, C, f)
    <2>1. {} \cap CF = {}
      OBVIOUS
    <2> QED BY <1>5, <1>6, <2>1, AllowedApart
  <1>12. Only(a, CF)
    <2>1. {} \cup CF = CF
      OBVIOUS
    <2> QED BY <1>11, <2>1
  <1> HIDE DEF a
  <1> DEFINE b == a \o D
  <1>13. /\ Allowed(b) /\ Only(b, CF \cup MD) /\ ToSet(b) = ToSet(a) \cup ToSet(D)
         /\ \A f \in CF : Same(b, a, f)
         /\ \A f \in MD : Same(b, D, f)
    BY <1>1, <1>7, <1>11, <1>12, AllowedApart
  <1> HIDE DEF b
  <1> DEFINE d == b \o R
  <1>14. /\ Allowed(d) /\ Only(d, (CF \cup MD) \cup {Route}) /\ ToSet(d) = ToSet(b) \cup ToSet(R)
         /\ \A f \in CF \cup MD : Same(d, b, f)
         /\ \A f \in {Route} : Same(d, R, f)
    BY <1>1, <1>8, <1>13, AllowedApart
  <1> HIDE DEF d
  <1> DEFINE e == d \o K
  <1>15. /\ Allowed(e) /\ Only(e, ((CF \cup MD) \cup {Route}) \cup CT)
         /\ ToSet(e) = ToSet(d) \cup ToSet(K)
         /\ \A f \in (CF \cup MD) \cup {Route} : Same(e, d, f)
         /\ \A f \in CT : Same(e, K, f)
    BY <1>1, <1>9, <1>14, AllowedApart
  <1>16. RepositoryCalls = e
    BY <1>10 DEF a, b, d
  <1> HIDE DEF e
  <1>17. /\ \A f \in CF : Same(e, C, f)
         /\ \A f \in MD : Same(e, D, f)
         /\ Same(e, R, Route)
    BY <1>11, <1>13, <1>14, <1>15 DEF Same
  <1>18. ToSet(E) \subseteq ToSet(e) /\ ToSet(C) \subseteq ToSet(e) /\ ToSet(K) \subseteq ToSet(e)
    BY <1>11, <1>13, <1>14, <1>15
  <1>19. ASSUME NEW f \in typed \ Wanted, f \in SA => count[f] = 0
         PROVE  \E c \in ToSet(e) : c.call = "mark" /\ c.family = f
    <2>1. CASE f \in SA
      BY <1>5, <1>18, <1>19, <2>1
    <2>2. CASE f = Function
      BY <1>4, <1>6, <1>18, <2>2
    <2>3. CASE f = Call
      BY <1>9, <1>18, <2>3
    <2> QED BY <1>3, <2>1, <2>2, <2>3
  <1>20. \A f \in typed \ Wanted :
            (f \in SA => count[f] = 0) => \E c \in ToSet(e) : c.call = "mark" /\ c.family = f
    BY <1>19
  <1> QED BY <1>2, <1>15, <1>16, <1>17, <1>20 DEF C, D, R, K, CF, MD, CT, SA

\* What the repository phase still has to do with the facts of a family when it begins.
LEMMA RepositoryCallsLeft ==
    ASSUME RequestInv, count \in [Families -> Nat], NEW f \in Families, NEW h \in Seq(Fact)
    PROVE  /\ f \in Wanted \cap Spooled => Left(RepositoryCalls, f, h) = h
           /\ f \in Wanted \cap {Directory, Route} => Left(RepositoryCalls, f, h) = FactsOf(f, 0)
           /\ f \notin Wanted => Left(RepositoryCalls, f, h) = <<>>
           /\ f \notin Spooled \cup {Directory, Route} => Left(RepositoryCalls, f, h) = <<>>
           /\ Reads(RepositoryCalls, f) \in {<<>>, <<f>>}
  <1> DEFINE L == Left(RepositoryCalls, f, h)
             N == Reads(RepositoryCalls, f)
             U == {Class, Function, Module, Directory, Route, Call, TestFunction}
  <1>1. /\ Only(RepositoryCalls, U)
        /\ \A g \in {Class, Function} : Same(RepositoryCalls, ClassCalls, g)
        /\ \A g \in {Module, Directory} : Same(RepositoryCalls, DirectoryCalls, g)
        /\ Same(RepositoryCalls, ScanCalls, Route)
        /\ \A g \in {Call, TestFunction} : Same(RepositoryCalls, CallCalls, g)
    BY RepositoryCallsParts
  <1>2. /\ \A g \in Wanted \cap {Class, Function, Call, TestFunction} : g \in Spooled
        /\ Needs(Directory) => Module \in Spooled /\ Directory \in Wanted
        /\ \A g \in Spooled : \/ g \in Wanted \cap {Class, Function, Call, TestFunction}
                              \/ g = Module /\ Needs(Directory)
    BY SpooledFacts
  <1>3. /\ {Class, Function, Call, TestFunction} \cap {Module, Directory, Route} = {}
        /\ Module # Directory /\ Module # Route
    BY DEF Class, Function, Call, TestFunction, Module, Directory, Route
  <1>4. Directory \in Wanted => Needs(Directory)
    BY DEF Needs
  <1>5. CASE f \notin U
    <2>1. L = <<>> /\ N = <<>>
      BY <1>1, <1>5 DEF Only
    <2> QED BY <1>2, <1>5, <2>1
  <1>6. CASE f \in {Class, Function}
    <2>1. L = Left(ClassCalls, f, h) /\ N = Reads(ClassCalls, f)
      BY <1>1, <1>6 DEF Same
    <2>2. CASE f \in Wanted
      <3>1. L = h /\ N = <<f>>
        BY <1>6, <2>1, <2>2, ClassCallsFacts
      <3> QED BY <1>2, <1>3, <1>6, <2>2, <3>1
    <2>3. CASE f \notin Wanted
      <3>1. L = <<>> /\ N = <<>>
        BY <1>6, <2>1, <2>3, ClassCallsFacts
      <3> QED BY <2>3, <3>1
    <2> QED BY <2>2, <2>3
  <1>7. CASE f \in {Call, TestFunction}
    <2>1. L = Left(CallCalls, f, h) /\ N = Reads(CallCalls, f)
      BY <1>1, <1>7 DEF Same
    <2>2. CASE f \in Wanted
      <3>1. L = h /\ N = <<f>>
        BY <1>7, <2>1, <2>2, CallCallsFacts
      <3> QED BY <1>2, <1>3, <1>7, <2>2, <3>1
    <2>3. CASE f \notin Wanted
      <3>1. L = <<>> /\ N = <<>>
        BY <1>7, <2>1, <2>3, CallCallsFacts
      <3> QED BY <2>3, <3>1
    <2> QED BY <2>2, <2>3
  <1>8. CASE f = Module
    <2>1. L = Left(DirectoryCalls, Module, h) /\ N = Reads(DirectoryCalls, Module)
      BY <1>1, <1>8 DEF Same
    <2>2. N \in {<<>>, <<f>>}
      BY <1>8, <2>1, DirectoryCallsFacts
    <2>3. CASE Needs(Directory)
      <3>1. L = IF Module \in Wanted THEN h ELSE <<>>
        BY <2>1, <2>3, DirectoryCallsFacts
      <3> QED BY <1>2, <1>3, <1>8, <2>2, <2>3, <3>1
    <2>4. CASE ~Needs(Directory)
      <3>1. L = <<>>
        BY <2>1, <2>4, DirectoryCallsFacts, LeftOfNone
      <3>2. f \notin Spooled
        BY <1>2, <1>3, <1>8, <2>4
      <3> QED BY <1>3, <1>8, <2>2, <3>1, <3>2
    <2> QED BY <2>3, <2>4
  <1>9. CASE f = Directory
    <2>1. L = Left(DirectoryCalls, Directory, h) /\ N = Reads(DirectoryCalls, Directory)
      BY <1>1, <1>9 DEF Same
    <2>2. N = <<>>
      BY <2>1, DirectoryCallsFacts
    <2>3. f \notin Spooled
      BY <1>2, <1>3, <1>9
    <2>4. CASE Needs(Directory)
      <3>1. L = FactsOf(f, 0)
        BY <1>9, <2>1, <2>4, DirectoryCallsFacts
      <3> QED BY <1>2, <1>9, <2>2, <2>3, <2>4, <3>1
    <2>5. CASE ~Needs(Directory)
      <3>1. L = <<>>
        BY <2>1, <2>5, DirectoryCallsFacts, LeftOfNone
      <3> QED BY <1>4, <1>9, <2>2, <2>5, <3>1
    <2> QED BY <2>4, <2>5
  <1>10. CASE f = Route
    <2>1. L = Left(ScanCalls, Route, h) /\ N = Reads(ScanCalls, Route)
      BY <1>1, <1>10 DEF Same
    <2>2. N = <<>>
      BY <2>1, ScanCallsFacts
    <2>3. f \notin Spooled
      BY <1>2, <1>3, <1>10
    <2>4. CASE Route \in Wanted
      <3>1. L = FactsOf(f, 0)
        BY <1>10, <2>1, <2>4, ScanCallsFacts
      <3> QED BY <1>10, <2>2, <2>3, <2>4, <3>1
    <2>5. CASE Route \notin Wanted
      <3>1. L = <<>>
        BY <2>1, <2>5, ScanCallsFacts
      <3> QED BY <1>10, <2>2, <2>5, <3>1
    <2> QED BY <2>4, <2>5
  <1> QED BY <1>5, <1>6, <1>7, <1>8, <1>9, <1>10

-----------------------------------------------------------------------------
(* What the pipeline keeps true.                                           *)

\* A list of calls that does not read a family does not depend on what is held of it.
LEMMA NotRead ==
    ASSUME NEW l \in Seq(PipelineCall), NEW f, Reads(l, f) = <<>>
    PROVE  /\ \A c \in ToSet(l) : c.call \in {"take", "drain"} => c.family # f
           /\ \A h \in Seq(Fact), k \in Seq(Fact) : Left(l, f, h) = Left(l, f, k)
  <1> DEFINE p == Reading(f)
  <1>1. p \in ListsFor(PipelineCall, {f})
    BY ReadingType
  <1>2. ToSet(l) \subseteq PipelineCall
    BY ToSetOfSeq
  <1> HIDE DEF p
  <1>3. Projected(l, p) = <<>>
    BY DEF Reads, p
  <1>4. \A c \in ToSet(l) : p[c] = <<>>
    BY <1>1, <1>3, ProjectedNone
  <1>5. ASSUME NEW c \in ToSet(l), c.call \in {"take", "drain"} PROVE c.family # f
    <2>1. c \in PipelineCall /\ p[c] = <<>>
      BY <1>2, <1>4
    <2>2. <<f>> # <<>>
      OBVIOUS
    <2> QED BY <1>5, <2>1, <2>2 DEF p, Reading
  <1>6. ASSUME NEW h \in Seq(Fact), NEW k \in Seq(Fact) PROVE Left(l, f, h) = Left(l, f, k)
    <2> DEFINE q == Part(f, h)
               r == Part(f, k)
    <2>1. ASSUME NEW c \in ToSet(l) PROVE q[c] = r[c]
      <3>1. c \in PipelineCall
        BY <1>2
      <3>2. c.family = f => c.call \notin {"take", "drain"}
        BY <1>5
      <3>3. c.call \in {"mark", "send", "hold", "take", "drain"}
        BY <3>1, CallFields
      <3> QED BY <3>1, <3>2, <3>3 DEF Part
    <2> HIDE DEF q, r
    <2>2. Projected(l, q) = Projected(l, r)
      BY <2>1, ProjectedSame
    <2> QED BY <2>2 DEF Left, q, r
  <1> QED BY <1>5, <1>6

\* Of a list that reads a family once at most, what is left after a call that reads it does
\* not.
LEMMA OneReading ==
    ASSUME NEW l \in Seq(PipelineCall), l # <<>>, NEW f, Reads(l, f) \in {<<>>, <<f>>}
    PROVE  /\ Reads(Tail(l), f) \in {<<>>, <<f>>}
           /\ Reads(l, f) = <<>> => Reads(Tail(l), f) = <<>>
           /\ Head(l).call \in {"take", "drain"} /\ Head(l).family = f => Reads(Tail(l), f) = <<>>
  <1> DEFINE a == Reading(f)[Head(l)]
             b == Reads(Tail(l), f)
  <1>1. Head(l) \in PipelineCall /\ Tail(l) \in Seq(PipelineCall)
    BY CallsHead
  <1>2. Reads(l, f) = a \o b /\ a \in Seq({f})
    BY ReadsOfHead
  <1>3. b \in Seq({f})
    BY <1>1, ReadsType
  <1>4. a \in {<<>>, <<f>>}
        /\ (Head(l).call \in {"take", "drain"} /\ Head(l).family = f => a = <<f>>)
    BY <1>1 DEF Reading
  <1> HIDE DEF a, b
  <1>5. CASE a = <<>>
    <2>1. a \o b = b
      BY <1>3, <1>5, ConcatEmptySeq
    <2>2. <<f>> # <<>>
      OBVIOUS
    <2> QED BY <1>2, <1>4, <1>5, <2>1, <2>2 DEF b
  <1>6. CASE a = <<f>>
    <2>1. Len(a) = 1 /\ Len(a \o b) = 1 + Len(b) /\ Len(b) \in Nat
      BY <1>2, <1>3, <1>6, ConcatProperties, LenProperties
    <2>2. Len(a \o b) \in {0, 1}
      BY <1>2
    <2>3. Len(b) = 0
      BY <2>1, <2>2
    <2>4. b = <<>>
      BY <1>3, <2>3, EmptySeq
    <2> QED BY <2>4 DEF b
  <1> QED BY <1>4, <1>5, <1>6

\* Types of what the pipeline keeps, and what its stages mean.
KeptInv ==
    /\ RequestInv /\ kept \subseteq requested
    /\ stage \in {"documents", "repository"} /\ index \in 0..Docs
    /\ count \in [Families -> Nat]
    /\ held \in [Families -> Seq(Fact)] /\ \A f \in Families : held[f] \in Seq(FactsIn(f))
    /\ opened \subseteq Spooled
    /\ stage = "documents" => opened = Spooled
    /\ stage = "repository" => index = Docs
    /\ phase \notin {"open", "failed"} => stage = "repository" /\ todo = <<>>

\* A family is held in a document when it is spooled, and read at most once in the
\* repository phase, while it is still there.
Legal(c) ==
    \/ c.call = "mark" /\ c.family \in typed
    \/ c.call = "hold" /\ stage = "documents" /\ c.family \in opened
    \/ c.call = "send" /\ (stage = "documents" => c.family \notin opened)
    \/ c.call = "take" /\ stage = "repository" /\ c.family \in opened
    \/ c.call = "drain" /\ stage = "repository"

CallsInv ==
    /\ todo \in Seq(PipelineCall)
    /\ \A c \in ToSet(todo) : Legal(c)
    /\ \A f \in Families : /\ Reads(todo, f) \in {<<>>, <<f>>}
                           /\ stage = "documents" => Reads(todo, f) = <<>>

\* What has become of the facts of a family so far: held while its documents come in, sent
\* otherwise; and what it has to be.
Reached(f) == IF stage = "documents" /\ f \in opened THEN held[f] ELSE sent[f]
Target(f) ==
    IF stage = "documents" THEN IF f \in DocumentFamilies THEN Upto(f, index) ELSE <<>>
    ELSE IF f \in Wanted THEN Source(f) ELSE <<>>

ContentInv ==
    \A f \in Families : /\ Reached(f) \o Left(todo, f, held[f]) = Target(f)
                        /\ stage = "documents" /\ f \in opened => sent[f] = <<>>

CountInv == \A f \in typed : count[f] = Len(Upto(f, index))

\* A table nobody else announces has been announced, is about to be, or waits for its first
\* row or for the repository phase.
Announced == Listed(markers) \cup typed_markers
Marking(f) == \E c \in ToSet(todo) : c.call = "mark" /\ c.family = f
MarksInv ==
    /\ Announced \subseteq typed \cup selected
    /\ \A f \in typed \ Wanted :
          \/ f \in Announced
          \/ Marking(f)
          \/ stage = "documents" /\ (f \in {Class, Syntax, AttributeAccess} => count[f] = 0)

PipelineInv == KeptInv /\ CallsInv /\ ContentInv /\ CountInv /\ MarksInv

LEMMA FamilyIsFamilies == Family = Families
  BY PipelineAssumption

LEMMA PipelineInit ==
    ASSUME Init
    PROVE  PipelineInv
  <1> USE FamilyIsFamilies
  <1>1. /\ count = [f \in Families |-> 0] /\ opened = Spooled
        /\ held = [f \in Families |-> <<>>] /\ todo = <<>> /\ stage = "documents"
        /\ index = IF PerFile = {} /\ typed = {} THEN Docs ELSE 0
    BY DEF Init
  <1>2. /\ markers = <<>> /\ typed_markers = {} /\ phase = "open"
        /\ sent = [f \in Families |-> <<>>]
    BY DEF Init, DeliveryInit
  <1>3. RequestInv /\ kept \subseteq requested
    <2>1. PICK r \in Requests : /\ kept = r.kept /\ selected = r.selected
                                /\ requested = r.requested /\ typed = r.typed
      BY DEF Init
    <2>2. /\ r.kept \subseteq r.requested /\ r.selected \subseteq Families
          /\ r.requested \subseteq Families /\ r.typed \subseteq Specialized
      BY <2>1, PipelineAssumption
    <2> QED BY <2>1, <2>2 DEF RequestInv
  <1>4. \A X : <<>> \in Seq(X)
    BY EmptySeq
  <1>5. Docs \in Nat /\ index \in 0..Docs
    BY <1>1, SizeIsNat
  <1>6. KeptInv
    BY <1>1, <1>2, <1>3, <1>4, <1>5 DEF KeptInv
  <1>7. CallsInv
    BY <1>1, LeftOfNone DEF CallsInv
  <1>8. ContentInv
    <2> SUFFICES ASSUME NEW f \in Families
                 PROVE  /\ Reached(f) \o Left(todo, f, held[f]) = Target(f)
                        /\ stage = "documents" /\ f \in opened => sent[f] = <<>>
      BY DEF ContentInv
    <2>1. Reached(f) = <<>> /\ held[f] = <<>> /\ sent[f] = <<>>
      BY <1>1, <1>2 DEF Reached
    <2>2. Left(todo, f, held[f]) = <<>>
      BY <1>1, LeftOfNone
    <2>3. Target(f) = <<>>
      <3>1. f \in DocumentFamilies => index = 0
        BY <1>1 DEF DocumentFamilies
      <3>2. Upto(f, 0) = <<>>
        BY UptoFacts
      <3> QED BY <1>1, <3>1, <3>2 DEF Target
    <2>4. <<>> \o <<>> = <<>>
      BY <1>4, ConcatEmptySeq
    <2> QED BY <2>1, <2>2, <2>3, <2>4
  <1>9. CountInv
    <2> SUFFICES ASSUME NEW f \in typed PROVE count[f] = Len(Upto(f, index))
      BY DEF CountInv
    <2>1. f \in Families
      BY <1>3, FamilyNames DEF RequestInv
    <2>2. index = 0 /\ Upto(f, 0) = <<>>
      BY <1>1, <2>1, UptoFacts
    <2> QED BY <1>1, <2>1, <2>2
  <1>10. MarksInv
    <2>1. Announced = {}
      <3>1. DOMAIN markers = {}
        BY <1>2
      <3> QED BY <1>2, <3>1 DEF Announced, Listed
    <2>2. \A f \in typed : count[f] = 0
      BY <1>1, <1>3, FamilyNames DEF RequestInv
    <2> QED BY <1>1, <2>1, <2>2 DEF MarksInv
  <1> QED BY <1>6, <1>7, <1>8, <1>9, <1>10 DEF PipelineInv

\* The first call is one of the calls the delivery takes.
LEMMA CallsFit ==
    ASSUME PipelineInv
    PROVE  NextCallFits
  <1> SUFFICES ASSUME todo # <<>>, NEW c, c = Head(todo)
               PROVE  /\ c.family \in Family
                      /\ c.call = "send" => c.facts \in Seq({e \in Fact : e[1] = c.family})
                      /\ c.call = "mark" => c.rows \in Nat
    BY DEF NextCallFits
  <1>1. c \in PipelineCall
    BY CallsHead DEF PipelineInv, CallsInv
  <1> QED BY <1>1, CallFields, FamilyIsFamilies DEF FactsIn

LEMMA RequestsStay ==
    ASSUME [Next]_vars
    PROVE  UNCHANGED <<kept, selected, requested, typed>>
  <1> USE DEF modeVars
  <1>2. ASSUME NEW f, NEW s, Send(f, s) PROVE UNCHANGED modeVars
    BY <1>2 DEF Send
  <1>3. ASSUME NEW f, NEW n, MarkTyped(f, n) PROVE UNCHANGED modeVars
    BY <1>3 DEF MarkTyped
  <1>4. CASE DoSend \/ DoMark
    BY <1>2, <1>3, <1>4 DEF DoSend, DoMark
  <1>5. CASE ReceiveFails \/ Abandon \/ Finish
    BY <1>5 DEF ReceiveFails, Abandon, Finish, Close, Fail
  <1>6. CASE Continue
    BY <1>6 DEF Continue, EmitBatch, Closing, MarkUnseen, Flush, Answer
  <1>7. CASE Receive \/ Join \/ DoHold \/ DoTake \/ DoDrain
    BY <1>7 DEF Receive, Join, DoHold, DoTake, DoDrain, deliveryVars
  <1>8. CASE \E w \in Worker : Work(w) \/ Panic(w)
    BY <1>8 DEF Work, Panic, Extract, Pass, deliveryVars
  <1>9. CASE UNCHANGED vars
    BY <1>9 DEF vars, deliveryVars
  <1> QED BY <1>4, <1>5, <1>6, <1>7, <1>8, <1>9 DEF Next, Deliver

LEMMA WantedStays ==
    ASSUME UNCHANGED <<selected, requested, typed>>
    PROVE  /\ Wanted' = Wanted /\ Spooled' = Spooled /\ DocumentFamilies' = DocumentFamilies
           /\ RequestInv' = RequestInv
  <1>1. Wanted' = Wanted
    BY DEF Wanted
  <1>2. \A f : Needs(f)' = Needs(f)
    BY <1>1 DEF Needs
  <1>3. PerFile' = PerFile
    BY <1>1, <1>2 DEF PerFile
  <1>4. Spooled' = Spooled
    BY <1>1, <1>2, <1>3 DEF Spooled
  <1>5. DocumentFamilies' = DocumentFamilies
    BY <1>1, <1>3 DEF DocumentFamilies
  <1> QED BY <1>1, <1>4, <1>5 DEF RequestInv

\* A step that makes none of the calls.
LEMMA OtherKeeps ==
    ASSUME PipelineInv, UNCHANGED <<kept, selected, requested, typed, storage, index, todo, stage, sent>>,
           phase' \notin {"open", "failed"} => stage = "repository" /\ todo = <<>>,
           Announced \subseteq Announced', Announced' \subseteq Announced \cup selected
    PROVE  PipelineInv'
  <1> USE DEF PipelineInv, storage
  <1>1. /\ Wanted' = Wanted /\ Spooled' = Spooled /\ DocumentFamilies' = DocumentFamilies
        /\ RequestInv' = RequestInv
    BY WantedStays
  <1>2. KeptInv'
    BY <1>1 DEF KeptInv
  <1>3. CallsInv'
    BY DEF CallsInv, Legal
  <1>4. ContentInv'
    BY <1>1 DEF ContentInv, Reached, Target
  <1>5. CountInv'
    BY DEF CountInv
  <1>6. MarksInv'
    BY <1>1 DEF MarksInv, Marking
  <1> QED BY <1>2, <1>3, <1>4, <1>5, <1>6

\* What each step of the delivery does to the announcements.
LEMMA SendAnnounces ==
    ASSUME DeliveryTypeOK, NEW f \in Family, NEW s, Send(f, s)
    PROVE  /\ Announced \subseteq Announced' /\ Announced' \subseteq Announced \cup selected
           /\ sent' = [sent EXCEPT ![f] = @ \o s] /\ phase' = phase
           /\ UNCHANGED modeVars
  <1>1. markers \in Seq(Family)
    BY DEF DeliveryTypeOK
  <1>2. /\ sent' = [sent EXCEPT ![f] = @ \o s] /\ phase' = phase
        /\ UNCHANGED modeVars /\ typed_markers' = typed_markers
        /\ \/ f \in selected /\ markers' = Marked(f)
           \/ markers' = markers
    BY DEF Send
  <1>3. Listed(Marked(f)) = Listed(markers) \cup {f}
    BY <1>1, MarkedFacts
  <1> QED BY <1>2, <1>3 DEF Announced

LEMMA MarkAnnounces ==
    ASSUME DeliveryTypeOK, NEW f \in Family, NEW n, MarkTyped(f, n)
    PROVE  /\ Announced' = Announced \cup {f}
           /\ sent' = sent /\ phase' = phase /\ UNCHANGED modeVars
  <1>1. markers \in Seq(Family)
    BY DEF DeliveryTypeOK
  <1>2. /\ sent' = sent /\ phase' = phase /\ UNCHANGED modeVars
        /\ \/ markers' = Marked(f) /\ typed_markers' = typed_markers
           \/ markers' = markers /\ typed_markers' = typed_markers \cup {f}
    BY DEF MarkTyped
  <1>3. Listed(Marked(f)) = Listed(markers) \cup {f}
    BY <1>1, MarkedFacts
  <1> QED BY <1>2, <1>3 DEF Announced

LEMMA ContinueAnnounces ==
    ASSUME DeliveryTypeOK, EmitBatch \/ Closing
    PROVE  /\ Announced \subseteq Announced' /\ Announced' \subseteq Announced \cup selected
           /\ sent' = sent /\ UNCHANGED modeVars
           /\ phase' \notin {"open", "failed"} => phase \notin {"open", "failed"}
  <1>1. markers \in Seq(Family) /\ selected \subseteq Family
    BY DEF DeliveryTypeOK
  <1>2. \A f \in Family : Listed(Marked(f)) = Listed(markers) \cup {f}
    BY <1>1, MarkedFacts
  <1>3. CASE EmitBatch \/ Answer
    BY <1>3 DEF EmitBatch, Answer, Announced, storeVars
  <1>4. CASE MarkUnseen
    <2>1. CASE selected \ marked = {}
      BY <1>4, <2>1 DEF MarkUnseen, Announced
    <2>2. CASE selected \ marked # {}
      <3> DEFINE f == Least(selected \ marked)
      <3>1. f \in selected /\ f \in Family
        BY <1>1, <2>2, LeastMember
      <3>2. /\ markers' = Marked(f) /\ typed_markers' = typed_markers /\ phase' = phase
            /\ sent' = sent /\ UNCHANGED modeVars
        BY <1>4, <2>2 DEF MarkUnseen
      <3> HIDE DEF f
      <3> QED BY <1>2, <3>1, <3>2 DEF Announced
    <2> QED BY <2>1, <2>2
  <1>5. CASE Flush
    <2>1. CASE Unflushed = {}
      BY <1>5, <2>1 DEF Flush, Announced, consumerVars
    <2>2. CASE Unflushed # {}
      <3> DEFINE f == Least(Unflushed)
      <3>1. f \in Family
        <4>1. Unflushed \in SUBSET Family
          BY DEF Unflushed, DeliveryTypeOK
        <4> QED BY <2>2, <4>1, LeastMember
      <3>2. /\ markers' = (IF f \in typed_markers THEN Marked(f) ELSE markers)
            /\ typed_markers' = typed_markers \ {f} /\ phase' = phase
            /\ sent' = sent /\ UNCHANGED modeVars
        BY <1>5, <2>2 DEF Flush
      <3> HIDE DEF f
      <3> QED BY <1>2, <3>1, <3>2 DEF Announced
    <2> QED BY <2>1, <2>2
  <1> QED BY <1>3, <1>4, <1>5 DEF Closing

\* A document: its facts are held or sent as far as they are wanted, and tables it brings
\* the first rows of are announced.
LEMMA ReceiveKeeps ==
    ASSUME PipelineInv, PlaceInv, WorkersInv, DeliveryTypeOK, Receive
    PROVE  PipelineInv'
  <1> DEFINE d == Head(channel[NextWorker])
             n == index + 1
  <1>1. /\ stage = "documents" /\ todo = <<>> /\ index < Docs /\ phase = "open"
        /\ todo' = DocumentCalls(d)
        /\ count' = [f \in Families |-> IF f \in typed THEN count[f] + Size[f][d] ELSE count[f]]
        /\ index' = n
        /\ UNCHANGED <<deliveryVars, typed, opened, held, stage>>
    BY FamilyIsFamilies DEF Receive, Idle
  <1>2. d = n
    <2>1. NextWorker \in Worker /\ NextOf(NextWorker) = n
      BY <1>1, NextDocument
    <2>2. channel[NextWorker] # <<>>
      BY DEF Receive
    <2> QED BY <2>1, <2>2 DEF NextOf
  <1>3. index \in Nat /\ Docs \in Nat /\ n \in Doc /\ n \in 0..Docs /\ index \in 0..(Docs - 1)
    BY <1>1, SizeIsNat DEF PlaceInv, Doc
  <1> HIDE DEF d
  <1>4. UNCHANGED <<kept, selected, requested, typed, sent, markers, typed_markers, phase>>
    BY <1>1 DEF deliveryVars, modeVars, storeVars, consumerVars
  <1>5. /\ Wanted' = Wanted /\ Spooled' = Spooled /\ DocumentFamilies' = DocumentFamilies
        /\ RequestInv' = RequestInv
    BY <1>4, WantedStays
  <1> USE DEF PipelineInv
  <1>6. /\ todo' \in Seq(PipelineCall)
        /\ \A c \in ToSet(todo') :
              \/ c.call = "mark" /\ c.family \in typed
              \/ c.call = "hold" /\ c.family \in opened
              \/ c.call = "send" /\ c.family \notin opened
        /\ \A f \in FirstRows(d) \cap {Class, Syntax, AttributeAccess} :
              \E c \in ToSet(todo') : c.call = "mark" /\ c.family = f
        /\ \A f : Reads(todo', f) = <<>>
        /\ \A f \in DocumentFamilies, h \in Seq(Fact) : Left(todo', f, h) = FactsOf(f, d)
        /\ \A f : f \notin DocumentFamilies => \A h \in Seq(Fact) : Left(todo', f, h) = <<>>
    <2>1. RequestInv /\ d \in Doc
      BY <1>2, <1>3 DEF KeptInv
    <2> QED BY <1>1, <2>1, DocumentCallsFacts
  <1>7. \A f \in Families : Size[f][n] \in Nat
    BY <1>3, SizeIsNat
  <1>8. KeptInv'
    <2>1. count' \in [Families -> Nat]
      BY <1>1, <1>2, <1>7 DEF KeptInv
    <2> HIDE DEF n
    <2> QED BY <1>1, <1>3, <1>4, <1>5, <2>1 DEF KeptInv
  <1>9. CallsInv'
    BY <1>1, <1>4, <1>6 DEF CallsInv, Legal
  <1>10. ContentInv'
    <2> SUFFICES ASSUME NEW f \in Families
                 PROVE  /\ Reached(f)' \o Left(todo', f, held'[f]) = Target(f)'
                        /\ (stage = "documents" /\ f \in opened => sent[f] = <<>>)'
      BY DEF ContentInv
    <2>1. /\ Reached(f) \o Left(todo, f, held[f]) = Target(f)
          /\ f \in opened => sent[f] = <<>>
      BY <1>1 DEF ContentInv
    <2>2. held[f] \in Seq(Fact) /\ sent[f] \in Seq(Fact) /\ Reached(f) \in Seq(Fact)
      BY FamilyIsFamilies DEF KeptInv, DeliveryTypeOK, Facts, Reached
    <2>3. Reached(f) = Target(f)
      <3>1. Left(todo, f, held[f]) = <<>>
        BY <1>1, LeftOfNone
      <3> QED BY <2>1, <2>2, <3>1, ConcatEmptySeq
    <2>4. Reached(f)' = Reached(f) /\ held'[f] = held[f] /\ sent'[f] = sent[f]
      BY <1>1, <1>4 DEF Reached
    <2>5. Reached(f) \o Left(todo', f, held[f]) = Target(f)'
      <3>1. CASE f \in DocumentFamilies
        <4>1. Left(todo', f, held[f]) = FactsOf(f, n)
          BY <1>2, <1>6, <2>2, <3>1
        <4>2. Reached(f) = Upto(f, index)
          BY <1>1, <2>3, <3>1 DEF Target
        <4>3. Upto(f, n) = Upto(f, index) \o FactsOf(f, n)
          BY <1>3, UptoFacts
        <4>4. Target(f)' = Upto(f, n)
          BY <1>1, <1>5, <3>1 DEF Target
        <4> QED BY <4>1, <4>2, <4>3, <4>4
      <3>2. CASE f \notin DocumentFamilies
        <4>1. Left(todo', f, held[f]) = <<>>
          BY <1>6, <2>2, <3>2
        <4>2. Reached(f) = <<>> /\ Target(f)' = <<>>
          BY <1>1, <1>5, <2>3, <3>2 DEF Target
        <4> QED BY <2>2, <4>1, <4>2, ConcatEmptySeq
      <3> QED BY <3>1, <3>2
    <2> QED BY <1>1, <2>1, <2>4, <2>5
  <1>11. CountInv'
    <2> SUFFICES ASSUME NEW f \in typed PROVE count'[f] = Len(Upto(f, n))
      BY <1>1, <1>4 DEF CountInv
    <2>1. f \in Families
      BY FamilyNames DEF KeptInv, RequestInv
    <2>2. count'[f] = count[f] + Size[f][n] /\ count[f] = Len(Upto(f, index))
      BY <1>1, <1>2, <2>1 DEF CountInv
    <2>3. Upto(f, index) \in Seq(Fact) /\ FactsOf(f, n) \in Seq(Fact) /\ Len(FactsOf(f, n)) = Size[f][n]
      <3>1. index \in 0..Docs
        BY <1>3
      <3> QED BY <1>3, <2>1, <3>1, UptoFacts, FactsOfType
    <2>4. Upto(f, n) = Upto(f, index) \o FactsOf(f, n)
      BY <1>3, <2>1, UptoFacts
    <2>5. Len(Upto(f, n)) = Len(Upto(f, index)) + Len(FactsOf(f, n))
      BY <2>3, <2>4, ConcatProperties
    <2> QED BY <2>2, <2>3, <2>5
  <1>12. MarksInv'
    <2> SUFFICES ASSUME NEW f \in typed \ Wanted, f \notin Announced
                 PROVE  \/ Marking(f)'
                        \/ f \in {Class, Syntax, AttributeAccess} => count'[f] = 0
      BY <1>1, <1>4, <1>5 DEF MarksInv, Announced
    <2>1. f \in Families
      BY FamilyNames DEF KeptInv, RequestInv
    <2>2. ~Marking(f)
      BY <1>1, LeftOfNone DEF Marking
    <2>3. f \in {Class, Syntax, AttributeAccess} => count[f] = 0
      BY <2>2 DEF MarksInv
    <2>4. CASE f \in {Class, Syntax, AttributeAccess} /\ Size[f][n] > 0
      <3>1. f \in FirstRows(d)
        BY <1>2, <2>3, <2>4 DEF FirstRows
      <3> QED BY <1>6, <2>4, <3>1 DEF Marking
    <2>5. CASE f \in {Class, Syntax, AttributeAccess} /\ Size[f][n] = 0
      <3>1. count'[f] = 0
        BY <1>1, <1>2, <2>1, <2>3, <2>5
      <3> QED BY <3>1
    <2> QED BY <1>7, <2>1, <2>4, <2>5
  <1> QED BY <1>8, <1>9, <1>10, <1>11, <1>12

\* The repository phase begins: nothing is left of the documents, and what it is about to
\* do brings every wanted family to its end.
LEMMA JoinKeeps ==
    ASSUME PipelineInv, DeliveryTypeOK, Join
    PROVE  PipelineInv'
  <1>1. /\ stage = "documents" /\ todo = <<>> /\ index = Docs /\ phase = "open"
        /\ todo' = RepositoryCalls /\ stage' = "repository"
        /\ UNCHANGED <<deliveryVars, typed, count, opened, held, index>>
    BY DEF Join, Idle, storage
  <1>2. UNCHANGED <<kept, selected, requested, typed, sent, markers, typed_markers, phase>>
    BY <1>1 DEF deliveryVars, modeVars, storeVars, consumerVars
  <1>3. /\ Wanted' = Wanted /\ Spooled' = Spooled /\ DocumentFamilies' = DocumentFamilies
        /\ RequestInv' = RequestInv
    BY <1>2, WantedStays
  <1> USE DEF PipelineInv
  <1>4. RequestInv /\ count \in [Families -> Nat] /\ opened = Spooled
    BY <1>1 DEF KeptInv
  <1>5. /\ todo' \in Seq(PipelineCall)
        /\ \A c \in ToSet(todo') : \/ c.call = "mark" /\ c.family \in typed
                                   \/ c.call = "take" /\ c.family \in Spooled
                                   \/ c.call = "send"
        /\ \A f \in typed \ Wanted :
              (f \in {Class, Syntax, AttributeAccess} => count[f] = 0) =>
                 \E c \in ToSet(todo') : c.call = "mark" /\ c.family = f
    BY <1>1, <1>4, RepositoryCallsParts DEF Allowed
  <1>6. \A f \in Families : <<>> \in Seq(Fact) /\ Reads(todo', f) \in {<<>>, <<f>>}
    BY <1>1, <1>4, EmptySeq, RepositoryCallsLeft
  <1>7. KeptInv'
    BY <1>1, <1>2, <1>3 DEF KeptInv
  <1>8. CallsInv'
    BY <1>1, <1>2, <1>4, <1>5, <1>6 DEF CallsInv, Legal
  <1>9. ContentInv'
    <2> SUFFICES ASSUME NEW f \in Families
                 PROVE  sent[f] \o Left(todo', f, held[f]) = IF f \in Wanted THEN Source(f) ELSE <<>>
      BY <1>1, <1>2, <1>3 DEF ContentInv, Reached, Target
    <2>1. /\ Reached(f) \o Left(todo, f, held[f]) = Target(f)
          /\ f \in opened => sent[f] = <<>>
      BY <1>1 DEF ContentInv
    <2>2. held[f] \in Seq(Fact) /\ sent[f] \in Seq(Fact) /\ Reached(f) \in Seq(Fact)
      BY FamilyIsFamilies DEF KeptInv, DeliveryTypeOK, Facts, Reached
    <2>3. Reached(f) = Target(f)
      <3>1. Left(todo, f, held[f]) = <<>>
        BY <1>1, LeftOfNone
      <3> QED BY <2>1, <2>2, <3>1, ConcatEmptySeq
    <2>4. Reached(f) = IF f \in DocumentFamilies THEN Upto(f, Docs) ELSE <<>>
      BY <1>1, <2>3 DEF Target
    <2> DEFINE L == Left(todo', f, held[f])
    <2>5. /\ f \in Wanted \cap Spooled => L = held[f]
          /\ f \in Wanted \cap {Directory, Route} => L = FactsOf(f, 0)
          /\ f \notin Wanted => L = <<>>
          /\ f \notin Spooled \cup {Directory, Route} => L = <<>>
      BY <1>1, <1>4, <2>2, RepositoryCallsLeft
    <2> HIDE DEF L
    <2>6. /\ Spooled \subseteq DocumentFamilies
          /\ \A g \in DocumentFamilies \ Spooled : g \in Wanted
          /\ \A g \in Wanted \ DocumentFamilies : g \in {Directory, Route}
          /\ Directory \notin DocumentFamilies /\ Route \notin DocumentFamilies
      BY <1>4, SpooledFacts
    <2>7. /\ f \in {Directory, Route} => Source(f) = FactsOf(f, 0)
          /\ f \notin {Directory, Route} => Source(f) = Upto(f, Docs)
          /\ Source(f) \in Seq(Fact)
      BY SourceFacts
    <2>8. CASE f \in Spooled
      <3>1. held[f] = Upto(f, Docs) /\ sent[f] = <<>> /\ f \notin {Directory, Route}
        BY <1>1, <1>4, <2>1, <2>4, <2>6, <2>8 DEF Reached
      <3>2. sent[f] \o L = L
        <4>1. L \in Seq(Fact)
          BY <2>2, <2>5, <2>8, <1>6
        <4> QED BY <3>1, <4>1, ConcatEmptySeq
      <3>3. L = IF f \in Wanted THEN Source(f) ELSE <<>>
        BY <2>5, <2>7, <2>8, <3>1
      <3> QED BY <3>2, <3>3 DEF L
    <2>9. CASE f \in DocumentFamilies \ Spooled
      <3>1. sent[f] = Upto(f, Docs) /\ f \in Wanted /\ f \notin {Directory, Route}
        BY <1>1, <1>4, <2>4, <2>6, <2>9 DEF Reached
      <3>2. L = <<>> /\ sent[f] \o <<>> = sent[f]
        BY <2>2, <2>5, <2>9, <3>1, ConcatEmptySeq
      <3> QED BY <2>7, <3>1, <3>2 DEF L
    <2>10. CASE f \notin DocumentFamilies
      <3>1. sent[f] = <<>>
        BY <1>1, <1>4, <2>4, <2>6, <2>10 DEF Reached
      <3>2. CASE f \in Wanted
        <4>1. f \in {Directory, Route} /\ L = Source(f)
          BY <2>5, <2>6, <2>7, <2>10, <3>2
        <4>2. sent[f] \o L = L
          BY <2>7, <3>1, <4>1, ConcatEmptySeq
        <4> QED BY <3>2, <4>1, <4>2 DEF L
      <3>3. CASE f \notin Wanted
        <4>1. L = <<>> /\ <<>> \o <<>> = <<>>
          BY <1>6, <2>5, <3>3, ConcatEmptySeq
        <4> QED BY <3>1, <3>3, <4>1 DEF L
      <3> QED BY <3>2, <3>3
    <2> QED BY <2>8, <2>9, <2>10
  <1>10. CountInv'
    BY <1>1 DEF CountInv
  <1>11. MarksInv'
    <2> SUFFICES ASSUME NEW f \in typed \ Wanted, f \notin Announced
                 PROVE  Marking(f)'
      BY <1>1, <1>2, <1>3 DEF MarksInv, Announced
    <2>1. ~Marking(f)
      BY <1>1, LeftOfNone DEF Marking
    <2>2. f \in {Class, Syntax, AttributeAccess} => count[f] = 0
      BY <2>1 DEF MarksInv
    <2> QED BY <1>5, <2>2 DEF Marking
  <1> QED BY <1>7, <1>8, <1>9, <1>10, <1>11

\* The first call and the others.
LEMMA FirstCall ==
    ASSUME PipelineInv, todo # <<>>
    PROVE  /\ Head(todo) \in PipelineCall /\ Tail(todo) \in Seq(PipelineCall)
           /\ Head(todo).family \in Families
           /\ Legal(Head(todo)) /\ \A c \in ToSet(Tail(todo)) : Legal(c)
           /\ \A f \in Families :
                 /\ Reads(Tail(todo), f) \in {<<>>, <<f>>}
                 /\ stage = "documents" => Reads(Tail(todo), f) = <<>>
                 /\ Head(todo).call \in {"take", "drain"} /\ Head(todo).family = f =>
                       Reads(Tail(todo), f) = <<>>
           /\ \A f : Marking(f) => \/ Head(todo).call = "mark" /\ Head(todo).family = f
                                   \/ \E c \in ToSet(Tail(todo)) : c.call = "mark" /\ c.family = f
  <1>1. todo \in Seq(PipelineCall)
    BY DEF PipelineInv, CallsInv
  <1>2. /\ Head(todo) \in PipelineCall /\ Tail(todo) \in Seq(PipelineCall)
        /\ ToSet(todo) = {Head(todo)} \cup ToSet(Tail(todo))
    BY <1>1, CallsHead
  <1>3. Head(todo).family \in Families
    BY <1>2, CallFields
  <1>4. Legal(Head(todo)) /\ \A c \in ToSet(Tail(todo)) : Legal(c)
    BY <1>2 DEF PipelineInv, CallsInv
  <1>5. ASSUME NEW f \in Families
        PROVE  /\ Reads(Tail(todo), f) \in {<<>>, <<f>>}
               /\ stage = "documents" => Reads(Tail(todo), f) = <<>>
               /\ Head(todo).call \in {"take", "drain"} /\ Head(todo).family = f =>
                     Reads(Tail(todo), f) = <<>>
    <2>1. /\ Reads(todo, f) \in {<<>>, <<f>>}
          /\ stage = "documents" => Reads(todo, f) = <<>>
      BY DEF PipelineInv, CallsInv
    <2>2. /\ Reads(Tail(todo), f) \in {<<>>, <<f>>}
          /\ Reads(todo, f) = <<>> => Reads(Tail(todo), f) = <<>>
          /\ Head(todo).call \in {"take", "drain"} /\ Head(todo).family = f =>
                Reads(Tail(todo), f) = <<>>
      BY <1>1, <2>1, OneReading
    <2> QED BY <2>1, <2>2
  <1>6. ASSUME NEW f, Marking(f)
        PROVE  \/ Head(todo).call = "mark" /\ Head(todo).family = f
               \/ \E c \in ToSet(Tail(todo)) : c.call = "mark" /\ c.family = f
    BY <1>2, <1>6 DEF Marking
  <1> QED BY <1>2, <1>3, <1>4, <1>5, <1>6

\* What the first call and the others still do with the facts of a family.
LEMMA FirstCallLeft ==
    ASSUME PipelineInv, DeliveryTypeOK, todo # <<>>, NEW f \in Families
    PROVE  /\ held[f] \in Seq(Fact) /\ sent[f] \in Seq(Fact) /\ Reached(f) \in Seq(Fact)
           /\ Left(Tail(todo), f, held[f]) \in Seq(Fact)
           /\ Part(f, held[f])[Head(todo)] \in Seq(Fact)
           /\ Reached(f) \o (Part(f, held[f])[Head(todo)] \o Left(Tail(todo), f, held[f])) = Target(f)
           /\ stage = "documents" /\ f \in opened => sent[f] = <<>>
  <1>1. held[f] \in Seq(Fact) /\ sent[f] \in Seq(Fact) /\ Reached(f) \in Seq(Fact)
    BY FamilyIsFamilies DEF PipelineInv, KeptInv, DeliveryTypeOK, Facts, Reached
  <1>2. todo \in Seq(PipelineCall) /\ Tail(todo) \in Seq(PipelineCall)
    BY FirstCall DEF PipelineInv, CallsInv
  <1>3. /\ Left(todo, f, held[f]) = Part(f, held[f])[Head(todo)] \o Left(Tail(todo), f, held[f])
        /\ Part(f, held[f])[Head(todo)] \in Seq(Fact)
    BY <1>1, <1>2, LeftOfHead
  <1>4. Left(Tail(todo), f, held[f]) \in Seq(Fact)
    BY <1>1, <1>2, LeftType
  <1>5. /\ Reached(f) \o Left(todo, f, held[f]) = Target(f)
        /\ stage = "documents" /\ f \in opened => sent[f] = <<>>
    BY DEF PipelineInv, ContentInv
  <1> QED BY <1>1, <1>3, <1>4, <1>5

\* A call that is done: what is left to show is what it did to the facts.
LEMMA CallDone ==
    ASSUME PipelineInv, todo # <<>>, todo' = Tail(todo), phase' = "open",
           UNCHANGED <<kept, selected, requested, typed, count, opened, index, stage>>,
           Announced \subseteq Announced', Announced' \subseteq Announced \cup selected \cup typed,
           Head(todo).call = "mark" => Head(todo).family \in Announced',
           held' \in [Families -> Seq(Fact)], \A f \in Families : held'[f] \in Seq(FactsIn(f)),
           ContentInv'
    PROVE  PipelineInv'
  <1> USE DEF PipelineInv
  <1>1. /\ Wanted' = Wanted /\ Spooled' = Spooled /\ RequestInv' = RequestInv
    BY WantedStays
  <1>2. KeptInv'
    BY <1>1 DEF KeptInv
  <1>3. CallsInv'
    BY FirstCall DEF CallsInv, Legal
  <1>4. CountInv'
    BY DEF CountInv
  <1>5. MarksInv'
    <2> SUFFICES ASSUME NEW f \in typed \ Wanted, f \notin Announced'
                 PROVE  \/ Marking(f)'
                        \/ stage = "documents" /\ (f \in {Class, Syntax, AttributeAccess} => count[f] = 0)
      BY <1>1 DEF MarksInv
    <2>1. \/ Marking(f)
          \/ stage = "documents" /\ (f \in {Class, Syntax, AttributeAccess} => count[f] = 0)
      BY DEF MarksInv
    <2>2. Marking(f) => Marking(f)'
      <3>1. ~(Head(todo).call = "mark" /\ Head(todo).family = f)
        OBVIOUS
      <3>2. Marking(f) => \E c \in ToSet(Tail(todo)) : c.call = "mark" /\ c.family = f
        BY <3>1, FirstCall
      <3> QED BY <3>2 DEF Marking
    <2> QED BY <2>1, <2>2
  <1> QED BY <1>2, <1>3, <1>4, <1>5

LEMMA SendKeeps ==
    ASSUME PipelineInv, DeliveryTypeOK, DoSend
    PROVE  PipelineInv'
  <1> DEFINE c == Head(todo)
             g == c.family
             s == c.facts
  <1>1. /\ todo # <<>> /\ c.call = "send" /\ Send(g, s) /\ todo' = Tail(todo)
        /\ UNCHANGED <<typed, count, opened, held, index, stage>>
    BY DEF DoSend, storage
  <1>2. c \in PipelineCall /\ g \in Families /\ s \in Seq(FactsIn(g)) /\ s \in Seq(Fact)
    <2>1. c \in PipelineCall
      BY <1>1, FirstCall
    <2> QED BY <1>1, <2>1, CallFields, FactsInFact
  <1>3. stage = "documents" => g \notin opened
    <2>1. Legal(c)
      BY <1>1, FirstCall
    <2> QED BY <1>1, <2>1 DEF Legal
  <1>4. /\ Announced \subseteq Announced' /\ Announced' \subseteq Announced \cup selected
        /\ sent' = [sent EXCEPT ![g] = @ \o s] /\ phase' = phase
        /\ UNCHANGED modeVars
    BY <1>1, <1>2, FamilyIsFamilies, SendAnnounces
  <1>5. phase' = "open" /\ UNCHANGED <<kept, selected, requested>>
    BY <1>1, <1>4 DEF Send, Idle, modeVars
  <1>6. Wanted' = Wanted /\ DocumentFamilies' = DocumentFamilies
    BY <1>1, <1>5, WantedStays
  <1>7. \A f \in Families : sent'[f] = IF f = g THEN sent[f] \o s ELSE sent[f]
    BY <1>4, FamilyIsFamilies DEF DeliveryTypeOK, Facts
  <1> HIDE DEF c, g, s
  <1>8. \A f \in Families : /\ f = g => Part(f, held[f])[Head(todo)] = s
                            /\ f # g => Part(f, held[f])[Head(todo)] = <<>>
    BY <1>1, <1>2 DEF Part, c, g, s
  <1>9. ContentInv'
    <2> SUFFICES ASSUME NEW f \in Families
                 PROVE  /\ Reached(f)' \o Left(todo', f, held'[f]) = Target(f)'
                        /\ (stage = "documents" /\ f \in opened => sent[f] = <<>>)'
      BY DEF ContentInv
    <2> DEFINE l == Left(Tail(todo), f, held[f])
    <2>1. /\ Reached(f) \in Seq(Fact) /\ l \in Seq(Fact)
          /\ Reached(f) \o (Part(f, held[f])[Head(todo)] \o l) = Target(f)
          /\ stage = "documents" /\ f \in opened => sent[f] = <<>>
      BY <1>1, FirstCallLeft
    <2>2. Left(todo', f, held'[f]) = l /\ Target(f)' = Target(f)
      BY <1>1, <1>6 DEF Target
    <2> HIDE DEF l
    <2>3. CASE f = g
      <3>1. Reached(f)' = Reached(f) \o s
        BY <1>1, <1>3, <1>7, <2>3 DEF Reached
      <3>2. (Reached(f) \o s) \o l = Reached(f) \o (s \o l)
        BY <1>2, <2>1, Regroup
      <3> QED BY <1>1, <1>3, <1>8, <2>1, <2>2, <2>3, <3>1, <3>2
    <2>4. CASE f # g
      <3>1. Reached(f)' = Reached(f) /\ sent'[f] = sent[f]
        BY <1>1, <1>7, <2>4 DEF Reached
      <3>2. <<>> \o l = l
        BY <2>1, ConcatEmptySeq
      <3> QED BY <1>1, <1>8, <2>1, <2>2, <2>4, <3>1, <3>2
    <2> QED BY <2>3, <2>4
  <1>10. held \in [Families -> Seq(Fact)] /\ \A f \in Families : held[f] \in Seq(FactsIn(f))
    BY DEF PipelineInv, KeptInv
  <1>11. Head(todo).call # "mark"
    BY <1>1 DEF c
  <1> QED BY <1>1, <1>4, <1>5, <1>9, <1>10, <1>11, CallDone

LEMMA MarkKeeps ==
    ASSUME PipelineInv, DeliveryTypeOK, DoMark
    PROVE  PipelineInv'
  <1> DEFINE g == Head(todo).family
  <1>1. /\ todo # <<>> /\ Head(todo).call = "mark" /\ MarkTyped(g, Head(todo).rows)
        /\ todo' = Tail(todo) /\ UNCHANGED <<typed, count, opened, held, index, stage>>
    BY DEF DoMark, storage
  <1>2. g \in Families /\ Head(todo) \in PipelineCall
    BY <1>1, FirstCall
  <1>3. g \in typed
    <2>1. Legal(Head(todo))
      BY <1>1, FirstCall
    <2> QED BY <1>1, <2>1 DEF Legal
  <1>4. Announced' = Announced \cup {g} /\ sent' = sent /\ phase' = phase /\ UNCHANGED modeVars
    BY <1>1, <1>2, FamilyIsFamilies, MarkAnnounces
  <1>5. phase' = "open" /\ UNCHANGED <<kept, selected, requested>>
    BY <1>1, <1>4 DEF MarkTyped, Idle, modeVars
  <1>6. Wanted' = Wanted /\ DocumentFamilies' = DocumentFamilies
    BY <1>1, <1>5, WantedStays
  <1>7. ContentInv'
    <2> SUFFICES ASSUME NEW f \in Families
                 PROVE  /\ Reached(f)' \o Left(todo', f, held'[f]) = Target(f)'
                        /\ (stage = "documents" /\ f \in opened => sent[f] = <<>>)'
      BY DEF ContentInv
    <2> DEFINE l == Left(Tail(todo), f, held[f])
    <2>1. /\ l \in Seq(Fact)
          /\ Reached(f) \o (Part(f, held[f])[Head(todo)] \o l) = Target(f)
          /\ stage = "documents" /\ f \in opened => sent[f] = <<>>
      BY <1>1, FirstCallLeft
    <2>2. /\ Left(todo', f, held'[f]) = l /\ Target(f)' = Target(f) /\ Reached(f)' = Reached(f)
      BY <1>1, <1>4, <1>6 DEF Target, Reached
    <2>3. Part(f, held[f])[Head(todo)] = <<>>
      BY <1>1, <1>2 DEF Part
    <2> HIDE DEF l
    <2>4. <<>> \o l = l
      BY <2>1, ConcatEmptySeq
    <2> QED BY <1>1, <1>4, <2>1, <2>2, <2>3, <2>4
  <1>8. held \in [Families -> Seq(Fact)] /\ \A f \in Families : held[f] \in Seq(FactsIn(f))
    BY DEF PipelineInv, KeptInv
  <1>9. /\ Announced \subseteq Announced' /\ Announced' \subseteq Announced \cup selected \cup typed
        /\ Head(todo).family \in Announced'
    BY <1>3, <1>4
  <1> QED BY <1>1, <1>5, <1>7, <1>8, <1>9, CallDone

LEMMA HoldKeeps ==
    ASSUME PipelineInv, DeliveryTypeOK, DoHold
    PROVE  PipelineInv'
  <1> DEFINE c == Head(todo)
             g == c.family
             s == c.facts
  <1>1. /\ todo # <<>> /\ c.call = "hold" /\ todo' = Tail(todo) /\ phase = "open"
        /\ held' = [held EXCEPT ![g] = @ \o s]
        /\ UNCHANGED <<deliveryVars, typed, count, opened, index, stage>>
    BY DEF DoHold, Idle
  <1>2. c \in PipelineCall /\ g \in Families /\ s \in Seq(FactsIn(g)) /\ s \in Seq(Fact)
    <2>1. c \in PipelineCall
      BY <1>1, FirstCall
    <2> QED BY <1>1, <2>1, CallFields, FactsInFact
  <1>3. stage = "documents" /\ g \in opened
    <2>1. Legal(c)
      BY <1>1, FirstCall
    <2> QED BY <1>1, <2>1 DEF Legal
  <1>4. UNCHANGED <<kept, selected, requested, sent, markers, typed_markers, phase>>
    BY <1>1 DEF deliveryVars, modeVars, storeVars, consumerVars
  <1>5. Announced' = Announced
    BY <1>4 DEF Announced
  <1>6. Wanted' = Wanted /\ DocumentFamilies' = DocumentFamilies
    BY <1>1, <1>4, WantedStays
  <1>7. held \in [Families -> Seq(Fact)] /\ \A f \in Families : held[f] \in Seq(FactsIn(f))
    BY DEF PipelineInv, KeptInv
  <1>8. held[g] \o s \in Seq(FactsIn(g)) /\ held[g] \o s \in Seq(Fact)
    <2>1. held[g] \in Seq(FactsIn(g)) /\ held[g] \in Seq(Fact)
      BY <1>2, <1>7
    <2> QED BY <1>2, <2>1, ConcatProperties
  <1>9. \A f \in Families : held'[f] = IF f = g THEN held[f] \o s ELSE held[f]
    BY <1>1, <1>7
  <1> HIDE DEF c, g, s
  <1>10. \A f \in Families : /\ f = g => Part(f, held[f])[Head(todo)] = s
                             /\ f # g => Part(f, held[f])[Head(todo)] = <<>>
    BY <1>1, <1>2 DEF Part, c, g, s
  <1>11. held' \in [Families -> Seq(Fact)] /\ \A f \in Families : held'[f] \in Seq(FactsIn(f))
    BY <1>1, <1>2, <1>7, <1>8, <1>9
  <1>12. ContentInv'
    <2> SUFFICES ASSUME NEW f \in Families
                 PROVE  /\ Reached(f)' \o Left(todo', f, held'[f]) = Target(f)'
                        /\ (stage = "documents" /\ f \in opened => sent[f] = <<>>)'
      BY DEF ContentInv
    <2> DEFINE l == Left(Tail(todo), f, held[f])
    <2>1. /\ held[f] \in Seq(Fact) /\ l \in Seq(Fact) /\ Reached(f) \in Seq(Fact)
          /\ Reached(f) \o (Part(f, held[f])[Head(todo)] \o l) = Target(f)
          /\ stage = "documents" /\ f \in opened => sent[f] = <<>>
      BY <1>1, FirstCallLeft
    <2>2. Left(todo', f, held'[f]) = l
      <3>1. Tail(todo) \in Seq(PipelineCall) /\ Reads(Tail(todo), f) = <<>>
        BY <1>1, <1>3, FirstCall
      <3>2. held'[f] \in Seq(Fact)
        BY <1>11
      <3>3. Left(Tail(todo), f, held'[f]) = l
        BY <2>1, <3>1, <3>2, NotRead
      <3> QED BY <1>1, <3>3
    <2>3. Target(f)' = Target(f)
      BY <1>1, <1>6 DEF Target
    <2> HIDE DEF l
    <2>4. CASE f = g
      <3>1. Reached(f) = held[f] /\ Reached(f)' = held[f] \o s
        BY <1>1, <1>3, <1>9, <2>4 DEF Reached
      <3>2. (held[f] \o s) \o l = held[f] \o (s \o l)
        BY <1>2, <2>1, Regroup
      <3> QED BY <1>1, <1>4, <1>10, <2>1, <2>2, <2>3, <2>4, <3>1, <3>2
    <2>5. CASE f # g
      <3>1. Reached(f)' = Reached(f)
        BY <1>1, <1>4, <1>9, <2>5 DEF Reached
      <3>2. <<>> \o l = l
        BY <2>1, ConcatEmptySeq
      <3> QED BY <1>1, <1>4, <1>10, <2>1, <2>2, <2>3, <2>5, <3>1, <3>2
    <2> QED BY <2>4, <2>5
  <1>13. Head(todo).call # "mark"
    BY <1>1 DEF c
  <1> QED BY <1>1, <1>4, <1>5, <1>11, <1>12, <1>13, CallDone

\* Calls that do with a store h what the first call does with what is held.
Replaces(X, h) ==
    /\ X \in Seq(PipelineCall) /\ \A c \in ToSet(X) : c.call \in {"send", "drain"}
    /\ \A g \in Families : /\ Left(X, g, h[g]) = Part(g, held[g])[Head(todo)]
                           /\ Reads(X, g) \in {<<>>, <<g>>}
                           /\ g # Head(todo).family => Reads(X, g) = <<>>

\* Replacing a call that reads by calls that do the same, what is left does not read.
LEMMA ReadReplaced ==
    ASSUME PipelineInv, DeliveryTypeOK, todo # <<>>, phase = "open",
           Head(todo).call \in {"take", "drain"},
           NEW X, Replaces(X, held'), todo' = X \o Tail(todo),
           UNCHANGED <<deliveryVars, typed, count, index, stage>>,
           opened' \in {opened, opened \ {Head(todo).family}},
           held' \in [Families -> Seq(Fact)], \A f \in Families : held'[f] \in Seq(FactsIn(f)),
           \A f \in Families : f # Head(todo).family => held'[f] = held[f]
    PROVE  PipelineInv'
  <1> DEFINE g == Head(todo).family
  <1> USE DEF PipelineInv
  <1>1. UNCHANGED <<kept, selected, requested, typed, sent, markers, typed_markers, phase>>
    BY DEF deliveryVars, modeVars, storeVars, consumerVars
  <1>2. /\ Wanted' = Wanted /\ Spooled' = Spooled /\ DocumentFamilies' = DocumentFamilies
        /\ RequestInv' = RequestInv
    BY <1>1, WantedStays
  <1>3. /\ Tail(todo) \in Seq(PipelineCall) /\ g \in Families /\ stage = "repository"
        /\ \A c \in ToSet(Tail(todo)) : Legal(c)
        /\ Reads(Tail(todo), g) = <<>>
    <2>1. Legal(Head(todo)) /\ g \in Families
      BY FirstCall
    <2>2. stage = "repository"
      BY <2>1 DEF Legal
    <2> QED BY <2>1, <2>2, FirstCall
  <1>4. X \in Seq(PipelineCall) /\ \A c \in ToSet(X) : c.call \in {"send", "drain"}
    BY DEF Replaces
  <1>5. todo' \in Seq(PipelineCall) /\ ToSet(todo') = ToSet(X) \cup ToSet(Tail(todo))
    BY <1>3, <1>4, CallsConcat
  <1>6. KeptInv'
    <2>1. stage # "documents" /\ opened' \subseteq Spooled
      BY <1>3 DEF KeptInv
    <2> QED BY <1>1, <1>2, <2>1 DEF KeptInv
  <1>7. CallsInv'
    <2>1. ASSUME NEW c \in ToSet(todo') PROVE Legal(c)'
      <3>1. CASE c \in ToSet(X)
        BY <1>1, <1>3, <1>4, <3>1 DEF Legal
      <3>2. CASE c \in ToSet(Tail(todo))
        <4>1. c.call \in {"take", "drain"} => c.family # g
          BY <1>3, <3>2, NotRead
        <4> QED BY <1>1, <1>3, <3>2, <4>1 DEF Legal
      <3> QED BY <1>5, <2>1, <3>1, <3>2
    <2>2. ASSUME NEW f \in Families PROVE Reads(todo', f) \in {<<>>, <<f>>}
      <3>1. Reads(todo', f) = Reads(X, f) \o Reads(Tail(todo), f)
        BY <1>3, <1>4, ReadsOfConcat
      <3>2. /\ Reads(X, f) \in Seq({f}) /\ Reads(Tail(todo), f) \in Seq({f})
        BY <1>3, <1>4, ReadsType
      <3>3. Reads(X, f) \in {<<>>, <<f>>} /\ Reads(Tail(todo), f) \in {<<>>, <<f>>}
        BY FirstCall DEF Replaces
      <3>4. Reads(X, f) = <<>> \/ Reads(Tail(todo), f) = <<>>
        BY <1>3 DEF Replaces
      <3> QED BY <3>1, <3>2, <3>3, <3>4, ConcatEmptySeq
    <2> QED BY <1>1, <1>3, <1>5, <2>1, <2>2 DEF CallsInv
  <1>8. ContentInv'
    <2> SUFFICES ASSUME NEW f \in Families
                 PROVE  Reached(f)' \o Left(todo', f, held'[f]) = Target(f)'
      BY <1>1, <1>3 DEF ContentInv
    <2> DEFINE l == Left(Tail(todo), f, held[f])
               p == Part(f, held[f])[Head(todo)]
    <2>1. /\ held[f] \in Seq(Fact) /\ Reached(f) \o (p \o l) = Target(f)
      BY FirstCallLeft
    <2>2. held'[f] \in Seq(Fact)
      OBVIOUS
    <2>3. Left(Tail(todo), f, held'[f]) = l
      <3>1. CASE f = g
        <4> DEFINE t == Tail(todo)
                   h == held'[f]
                   k == held[f]
        <4>1. t \in Seq(PipelineCall) /\ Reads(t, f) = <<>> /\ h \in Seq(Fact) /\ k \in Seq(Fact)
          BY <1>3, <2>1, <2>2, <3>1
        <4> HIDE DEF t, h, k
        <4>2. Left(t, f, h) = Left(t, f, k)
          BY <4>1, NotRead
        <4> QED BY <4>2 DEF t, h, k
      <3>2. CASE f # g
        <4>1. held'[f] = held[f]
          BY <3>2
        <4> QED BY <4>1
      <3> QED BY <3>1, <3>2
    <2>4. Left(todo', f, held'[f]) = Left(X, f, held'[f]) \o Left(Tail(todo), f, held'[f])
      <3> DEFINE t == Tail(todo)
                 h == held'[f]
      <3>1. t \in Seq(PipelineCall) /\ h \in Seq(Fact) /\ todo' = X \o t
        BY <1>3, <2>2
      <3> HIDE DEF t, h
      <3>2. Left(X \o t, f, h) = Left(X, f, h) \o Left(t, f, h)
        BY <1>4, <3>1, LeftOfConcat
      <3> QED BY <3>1, <3>2 DEF t, h
    <2>5. Left(X, f, held'[f]) = p
      BY DEF Replaces
    <2>6. Reached(f)' = Reached(f) /\ Target(f)' = Target(f)
      BY <1>1, <1>2, <1>3 DEF Reached, Target
    <2> HIDE DEF l, p
    <2> QED BY <2>1, <2>3, <2>4, <2>5, <2>6
  <1>9. CountInv'
    BY <1>1 DEF CountInv
  <1>10. MarksInv'
    <2> SUFFICES ASSUME NEW f \in typed \ Wanted, f \notin Announced
                 PROVE  Marking(f)'
      BY <1>1, <1>2 DEF MarksInv, Announced
    <2>1. Marking(f)
      BY <1>3 DEF MarksInv
    <2>2. \E c \in ToSet(Tail(todo)) : c.call = "mark" /\ c.family = f
      BY <2>1, FirstCall
    <2> QED BY <1>5, <2>2 DEF Marking
  <1> QED BY <1>6, <1>7, <1>8, <1>9, <1>10

LEMMA TakeKeeps ==
    ASSUME PipelineInv, DeliveryTypeOK, DoTake
    PROVE  PipelineInv'
  <1> DEFINE c == Head(todo)
             f == c.family
             X == CASE c.how = "whole" -> <<Give(f, held[f])>>
                    [] c.how = "drain" -> <<Drain(f)>>
                    [] c.how = "aside" -> <<>>
  <1>1. /\ todo # <<>> /\ phase = "open" /\ c.call = "take" /\ todo' = X \o Tail(todo)
        /\ opened' = opened \ {f}
        /\ UNCHANGED <<deliveryVars, typed, count, held, index, stage>>
    BY DEF DoTake, Idle
  <1>2. held \in [Families -> Seq(Fact)] /\ \A g \in Families : held[g] \in Seq(FactsIn(g))
    BY DEF PipelineInv, KeptInv
  <1>3. /\ c \in PipelineCall /\ f \in Families /\ c.how \in {"whole", "drain", "aside"}
    <2>1. c \in PipelineCall
      BY <1>1, FirstCall
    <2> QED BY <1>1, <2>1, CallFields
  <1>4. X = CASE c.how = "whole" -> <<Give(f, held[f])>>
              [] c.how = "drain" -> <<Drain(f)>>
              [] c.how = "aside" -> <<>>
    OBVIOUS
  <1> HIDE DEF X
  <1>5. ASSUME NEW g \in Families
        PROVE  Part(g, held[g])[c] = IF g # f \/ c.how = "aside" THEN <<>> ELSE held[g]
    BY <1>1, <1>3 DEF Part
  <1>6. Replaces(X, held)
    <2>1. CASE c.how = "aside"
      <3>1. X = <<>>
        BY <1>4, <2>1
      <3> QED BY <1>5, <2>1, <3>1, LeftOfNone DEF Replaces
    <2>2. CASE c.how = "whole"
      <3> DEFINE e == Give(f, held[f])
                 s == held[f]
      <3>1. X = <<e>> /\ s \in Seq(FactsIn(f))
        BY <1>2, <1>3, <1>4, <2>2
      <3>2. e \in PipelineCall /\ e.call = "send" /\ e.family = f
        BY <1>3, <3>1, CallShapes
      <3>3. X \in Seq(PipelineCall) /\ ToSet(X) = {e}
        BY <3>1, <3>2, OneCall
      <3>4. e \in {Give(f, s), Hold(f, s)}
        OBVIOUS
      <3> HIDE DEF e, s, f
      <3>5. ASSUME NEW g \in Families
            PROVE  Left(X, g, held[g]) = Part(g, held[g])[c] /\ Reads(X, g) = <<>>
        <4>1. held[g] \in Seq(Fact)
          BY <1>2
        <4>2. Left(X, g, held[g]) = Part(g, held[g])[e] /\ Reads(X, g) = Reading(g)[e]
          BY <3>1, <3>2, <4>1, LeftOfOne
        <4>3. /\ g = f => \A h : Part(g, h)[e] = s
              /\ g # f => \A h : Part(g, h)[e] = <<>>
              /\ Reading(g)[e] = <<>>
          BY <1>3, <3>1, <3>4, GiveValues
        <4> QED BY <1>5, <2>2, <4>2, <4>3 DEF s
      <3> QED BY <3>2, <3>3, <3>5 DEF Replaces
    <2>3. CASE c.how = "drain"
      <3> DEFINE e == Drain(f)
      <3>1. X = <<e>>
        BY <1>4, <2>3
      <3>2. e \in PipelineCall /\ e.call = "drain" /\ e.family = f
        BY <1>3, CallShapes
      <3>3. X \in Seq(PipelineCall) /\ ToSet(X) = {e}
        BY <3>1, <3>2, OneCall
      <3> HIDE DEF e
      <3>4. ASSUME NEW g \in Families
            PROVE  /\ Left(X, g, held[g]) = Part(g, held[g])[c]
                   /\ Reads(X, g) = IF g = f THEN <<g>> ELSE <<>>
        <4>1. held[g] \in Seq(Fact)
          BY <1>2
        <4>2. Left(X, g, held[g]) = Part(g, held[g])[e] /\ Reads(X, g) = Reading(g)[e]
          BY <3>1, <3>2, <4>1, LeftOfOne
        <4>3. /\ Part(g, held[g])[e] = IF g = f THEN held[g] ELSE <<>>
              /\ Reading(g)[e] = IF g = f THEN <<g>> ELSE <<>>
          BY <3>2 DEF Part, Reading
        <4> QED BY <1>5, <2>3, <4>2, <4>3
      <3> QED BY <3>2, <3>3, <3>4 DEF Replaces
    <2> QED BY <1>3, <2>1, <2>2, <2>3
  <1> HIDE DEF c, f
  <1>7. /\ Head(todo).call \in {"take", "drain"} /\ opened' \in {opened, opened \ {Head(todo).family}}
        /\ held' = held /\ Replaces(X, held')
    BY <1>1, <1>6 DEF c, f
  <1> QED BY <1>1, <1>2, <1>7, ReadReplaced DEF c

LEMMA DrainKeeps ==
    ASSUME PipelineInv, DeliveryTypeOK, DoDrain
    PROVE  PipelineInv'
  <1> DEFINE c == Head(todo)
             f == c.family
             facts == held[f]
             small == Len(facts) <= Batch
             front == SubSeq(facts, 1, Batch)
             rest == SubSeq(facts, Batch + 1, Len(facts))
  <1>1. /\ todo # <<>> /\ phase = "open" /\ c.call = "drain"
        /\ small => /\ todo' = (IF facts = <<>> THEN <<>> ELSE <<Give(f, facts)>>) \o Tail(todo)
                    /\ held' = held
        /\ ~small => /\ todo' = <<Give(f, front)>> \o todo
                     /\ held' = [held EXCEPT ![f] = rest]
        /\ UNCHANGED <<deliveryVars, typed, count, opened, index, stage>>
    BY DEF DoDrain, Idle
  <1>2. /\ held \in [Families -> Seq(Fact)] /\ \A g \in Families : held[g] \in Seq(FactsIn(g))
        /\ todo \in Seq(PipelineCall)
    BY DEF PipelineInv, KeptInv, CallsInv
  <1>3. c \in PipelineCall /\ f \in Families /\ Tail(todo) \in Seq(PipelineCall)
    BY <1>1, FirstCall
  <1>4. facts \in Seq(FactsIn(f)) /\ facts \in Seq(Fact)
    BY <1>2, <1>3
  <1> HIDE DEF facts, c
  <1>5. ASSUME NEW g \in Families
        PROVE  /\ Part(g, held[g])[c] = IF g = f THEN held[g] ELSE <<>>
               /\ Reading(g)[c] = IF g = f THEN <<g>> ELSE <<>>
    BY <1>1, <1>3 DEF Part, Reading
  <1> HIDE DEF f
  \* Sending some facts of the family.
  <1>6. ASSUME NEW s \in Seq(FactsIn(f)), NEW X, X = <<Give(f, s)>>
        PROVE  /\ X \in Seq(PipelineCall) /\ \A e \in ToSet(X) : e.call \in {"send", "drain"}
               /\ \A g \in Families, h \in Seq(Fact) : Left(X, g, h) = IF g = f THEN s ELSE <<>>
               /\ \A g \in Families : Reads(X, g) = <<>>
    <2> DEFINE e == Give(f, s)
    <2>1. e \in PipelineCall /\ e.call = "send" /\ e.family = f
      BY <1>3, CallShapes
    <2>2. X \in Seq(PipelineCall) /\ ToSet(X) = {e}
      BY <1>6, <2>1, OneCall
    <2>3. e \in {Give(f, s), Hold(f, s)} /\ X = <<e>>
      BY <1>6
    <2> HIDE DEF e
    <2>4. ASSUME NEW g \in Families
          PROVE  Reads(X, g) = <<>> /\ \A h \in Seq(Fact) : Left(X, g, h) = IF g = f THEN s ELSE <<>>
      <3>1. Reads(X, g) = Reading(g)[e] /\ \A h \in Seq(Fact) : Left(X, g, h) = Part(g, h)[e]
        BY <2>1, <2>3, LeftOfOne
      <3>2. /\ g = f => \A h : Part(g, h)[e] = s
            /\ g # f => \A h : Part(g, h)[e] = <<>>
            /\ Reading(g)[e] = <<>>
        BY <1>3, <2>3, GiveValues
      <3> QED BY <3>1, <3>2
    <2> QED BY <2>1, <2>2, <2>4
  <1>7. CASE small
    <2> DEFINE X == IF facts = <<>> THEN <<>> ELSE <<Give(f, facts)>>
    <2>1. Replaces(X, held)
      <3>1. CASE facts = <<>>
        <4>1. X = <<>>
          BY <3>1
        <4>2. \A g \in Families : g = f => held[g] = <<>>
          BY <3>1 DEF facts
        <4> HIDE DEF X
        <4> QED BY <1>5, <4>1, <4>2, LeftOfNone DEF Replaces, c
      <3>2. CASE facts # <<>>
        <4>1. X = <<Give(f, facts)>>
          BY <3>2
        <4> HIDE DEF X
        <4>2. /\ X \in Seq(PipelineCall) /\ \A e \in ToSet(X) : e.call \in {"send", "drain"}
              /\ \A g \in Families, h \in Seq(Fact) : Left(X, g, h) = IF g = f THEN facts ELSE <<>>
              /\ \A g \in Families : Reads(X, g) = <<>>
          BY <1>4, <1>6, <4>1
        <4>3. ASSUME NEW g \in Families PROVE Left(X, g, held[g]) = Part(g, held[g])[c]
          <5>1. held[g] \in Seq(Fact)
            BY <1>2
          <5> QED BY <1>5, <4>2, <5>1 DEF facts
        <4> QED BY <4>2, <4>3 DEF Replaces, c
      <3> QED BY <3>1, <3>2
    <2>2. todo' = X \o Tail(todo) /\ held' = held
      BY <1>1, <1>7
    <2> HIDE DEF X, small
    <2>3. /\ Head(todo).call \in {"take", "drain"} /\ opened' \in {opened, opened \ {Head(todo).family}}
          /\ Replaces(X, held')
      BY <1>1, <2>1, <2>2 DEF c
    <2> QED BY <1>1, <1>2, <2>2, <2>3, ReadReplaced
  <1>8. CASE ~small
    <2>1. Len(facts) >= Batch /\ Len(facts) \in Nat /\ Batch \in Nat \ {0}
      BY <1>4, <1>8, LenProperties, DeliveryAssumption
    <2>2. front \in Seq(Fact) /\ rest \in Seq(Fact) /\ front \o rest = facts
      BY <1>4, <2>1, CutBatch
    <2>3. front \in Seq(FactsIn(f)) /\ rest \in Seq(FactsIn(f))
      <3>1. \A i \in 1..Len(facts) : facts[i] \in FactsIn(f)
        BY <1>4, ElementOfSeq
      <3> DEFINE F == FactsIn(f)
      <3> HIDE DEF F
      <3>2. facts \in Seq(F) /\ \A i \in 1..Len(facts) : facts[i] \in F
        BY <1>4, <3>1 DEF F
      <3>3. SubSeq(facts, 1, Batch) \in Seq(F) /\ SubSeq(facts, Batch + 1, Len(facts)) \in Seq(F)
        BY <2>1, <3>2, SubSeqProperties
      <3> QED BY <3>3 DEF F
    <2>4. todo' = <<Give(f, front)>> \o todo /\ held' = [held EXCEPT ![f] = rest]
      BY <1>1, <1>8
    <2> HIDE DEF front, rest, small
    <2>5. \A g \in Families : held'[g] = IF g = f THEN rest ELSE held[g]
      BY <1>2, <2>4
    <2>6. held' \in [Families -> Seq(Fact)] /\ \A g \in Families : held'[g] \in Seq(FactsIn(g))
      BY <1>2, <1>3, <2>2, <2>3, <2>4, <2>5
    <2> DEFINE a == <<Give(f, front)>>
               b == <<c>>
               X == a \o b
    <2>7. /\ a \in Seq(PipelineCall) /\ \A e \in ToSet(a) : e.call \in {"send", "drain"}
          /\ \A g \in Families, h \in Seq(Fact) : Left(a, g, h) = IF g = f THEN front ELSE <<>>
          /\ \A g \in Families : Reads(a, g) = <<>>
      <3> HIDE DEF a
      <3>1. a = <<Give(f, front)>>
        BY DEF a
      <3> QED BY <1>6, <2>3, <3>1
    <2>8. b \in Seq(PipelineCall) /\ ToSet(b) = {c}
      BY <1>3, OneCall
    <2>9. todo' = X \o Tail(todo)
      <3>1. todo = b \o Tail(todo)
        BY <1>1, <1>2, HeadAndTail DEF c
      <3>2. todo' = a \o todo
        BY <2>4
      <3> HIDE DEF a, b
      <3>3. (a \o b) \o Tail(todo) = a \o (b \o Tail(todo))
        BY <1>3, <2>7, <2>8, ConcatAssociative
      <3> QED BY <3>1, <3>2, <3>3
    <2>10. ASSUME NEW g \in Families
           PROVE  /\ Left(X, g, held'[g]) = Part(g, held[g])[c]
                  /\ Reads(X, g) = IF g = f THEN <<g>> ELSE <<>>
      <3>1. held'[g] \in Seq(Fact) /\ held[g] \in Seq(Fact)
        BY <1>2, <2>6
      <3>2. Left(b, g, held'[g]) = Part(g, held'[g])[c] /\ Reads(b, g) = Reading(g)[c]
        BY <1>3, <3>1, LeftOfOne
      <3>3. Part(g, held'[g])[c] = IF g = f THEN held'[g] ELSE <<>>
        BY <1>1, <1>3 DEF Part, f
      <3>4. Left(a, g, held'[g]) = (IF g = f THEN front ELSE <<>>) /\ Reads(a, g) = <<>>
        BY <2>7, <3>1
      <3> HIDE DEF a, b
      <3>5. Left(X, g, held'[g]) = Left(a, g, held'[g]) \o Left(b, g, held'[g])
        BY <2>7, <2>8, <3>1, LeftOfConcat
      <3>6. Reads(X, g) = Reads(a, g) \o Reads(b, g)
        BY <2>7, <2>8, ReadsOfConcat
      <3>7. Reads(b, g) \in Seq({g})
        BY <2>8, ReadsType
      <3>8. Reads(X, g) = Reading(g)[c]
        BY <3>2, <3>4, <3>6, <3>7, ConcatEmptySeq
      <3>9. CASE g = f
        BY <1>5, <2>2, <2>5, <3>2, <3>3, <3>4, <3>5, <3>8, <3>9 DEF facts
      <3>10. CASE g # f
        <4>1. <<>> \o <<>> = <<>>
          BY EmptySeq, ConcatEmptySeq
        <4> QED BY <1>5, <3>2, <3>3, <3>4, <3>5, <3>8, <3>10, <4>1
      <3> QED BY <3>9, <3>10
    <2>11. X \in Seq(PipelineCall) /\ ToSet(X) = ToSet(a) \cup ToSet(b)
      <3> HIDE DEF a, b
      <3> QED BY <2>7, <2>8, CallsConcat
    <2> HIDE DEF a, b, X
    <2>12. \A e \in ToSet(X) : e.call \in {"send", "drain"}
      BY <1>1, <2>7, <2>8, <2>11
    <2>13. Replaces(X, held')
      BY <2>10, <2>11, <2>12 DEF Replaces, c, f
    <2>14. /\ Head(todo).call \in {"take", "drain"} /\ opened' \in {opened, opened \ {Head(todo).family}}
           /\ \A g \in Families : g # Head(todo).family => held'[g] = held[g]
      BY <1>1, <2>5 DEF c, f
    <2> QED BY <1>1, <2>6, <2>9, <2>13, <2>14, ReadReplaced
  <1> QED BY <1>7, <1>8

LEMMA PipelineKeeps ==
    ASSUME PipelineInv, PlaceInv, WorkersInv, DeliveryTypeOK, [Next]_vars
    PROVE  PipelineInv'
  <1>1. UNCHANGED <<kept, selected, requested, typed>>
    BY RequestsStay
  <1>2. KeptInv
    BY DEF PipelineInv
  <1>3. ASSUME UNCHANGED <<typed, storage, index, todo, stage, sent, markers, typed_markers>>,
               phase' \in {phase, "failed"}
        PROVE  PipelineInv'
    <2>1. Announced' = Announced
      BY <1>3 DEF Announced
    <2>2. phase' \notin {"open", "failed"} => stage = "repository" /\ todo = <<>>
      BY <1>2, <1>3 DEF KeptInv
    <2> QED BY <1>1, <1>3, <2>1, <2>2, OtherKeeps
  <1>4. CASE \E w \in Worker : Work(w) \/ Panic(w)
    <2>1. UNCHANGED <<deliveryVars, typed, storage, index, todo, stage>>
      BY <1>4 DEF Work, Panic, Extract, Pass
    <2> QED BY <1>3, <2>1 DEF deliveryVars, storeVars, consumerVars
  <1>5. CASE ReceiveFails \/ Abandon
    <2>1. Fail /\ UNCHANGED <<typed, storage, index, todo, stage>>
      BY <1>5 DEF ReceiveFails, Abandon
    <2> QED BY <1>3, <2>1 DEF Fail, storeVars, consumerVars
  <1>6. CASE UNCHANGED vars
    BY <1>3, <1>6 DEF vars, deliveryVars, storeVars, consumerVars
  <1>7. CASE Finish
    <2>1. /\ stage = "repository" /\ todo = <<>>
          /\ UNCHANGED <<typed, storage, index, todo, stage, sent, markers, typed_markers>>
      BY <1>7 DEF Finish, Close, storeVars, consumerVars
    <2>2. Announced' = Announced
      BY <2>1 DEF Announced
    <2> QED BY <1>1, <2>1, <2>2, OtherKeeps
  <1>8. CASE Continue
    <2>1. (EmitBatch \/ Closing) /\ UNCHANGED <<typed, storage, index, todo, stage>>
      BY <1>8 DEF Continue
    <2>2. /\ Announced \subseteq Announced' /\ Announced' \subseteq Announced \cup selected
          /\ sent' = sent
          /\ phase' \notin {"open", "failed"} => phase \notin {"open", "failed"}
      BY <2>1, ContinueAnnounces
    <2>3. phase' \notin {"open", "failed"} => stage = "repository" /\ todo = <<>>
      BY <1>2, <2>2 DEF KeptInv
    <2> QED BY <1>1, <2>1, <2>2, <2>3, OtherKeeps
  <1> QED BY <1>4, <1>5, <1>6, <1>7, <1>8, ReceiveKeeps, JoinKeeps, SendKeeps, MarkKeeps, HoldKeeps,
             TakeKeeps, DrainKeeps DEF Next, Deliver

AnalysisInv == DeliveryInv /\ PlaceInv /\ WorkersInv /\ PipelineInv

LEMMA AnalysisHolds == Spec => []AnalysisInv
  <1>1. Init => AnalysisInv
    <2> SUFFICES ASSUME Init PROVE AnalysisInv
      OBVIOUS
    <2>1. DeliveryInv
      BY RequestsAreFamilies, InitInv
    <2>2. PlaceInv /\ WorkersInv
      BY WorkersInit
    <2> QED BY <2>1, <2>2, PipelineInit DEF AnalysisInv
  <1>2. AnalysisInv /\ [Next]_vars => AnalysisInv'
    <2> SUFFICES ASSUME AnalysisInv, [Next]_vars PROVE AnalysisInv'
      OBVIOUS
    <2>1. DeliveryInv /\ PlaceInv /\ WorkersInv /\ PipelineInv /\ DeliveryTypeOK
      BY DEF AnalysisInv, DeliveryInv
    <2>2. [DeliveryNext]_deliveryVars
      BY <2>1, CallsFit, PipelineStep
    <2>3. DeliveryInv'
      BY <2>1, <2>2, NextInv
    <2>4. PlaceInv' /\ WorkersInv'
      BY <2>1, WorkersStep
    <2>5. PipelineInv'
      BY <2>1, PipelineKeeps
    <2> QED BY <2>3, <2>4, <2>5 DEF AnalysisInv
  <1> QED BY <1>1, <1>2, PTL DEF Spec

\* Every call of an analysis fits: what it sends are facts of the family it names, and what
\* it reads from the deferred store was opened, held and not read before.
THEOREM NothingIsMissing == Spec => []NothingMissing
  <1>1. AnalysisInv => NothingMissing
    <2> SUFFICES ASSUME AnalysisInv PROVE ~Missing /\ NextCallFits
      BY DEF NothingMissing
    <2>1. NextCallFits
      BY CallsFit DEF AnalysisInv
    <2>2. todo # <<>> => Legal(Head(todo))
      BY FirstCall DEF AnalysisInv
    <2> QED BY <2>1, <2>2 DEF Missing, Legal
  <1> QED BY <1>1, AnalysisHolds, PTL

\* So an analysis is a delivery under some sequence of calls: however workers, documents and
\* failures fall, its consumer is treated as DeliverySpec says.
THEOREM PipelineIsADelivery == Spec => DeliverySpec
  <1>1. Init => /\ kept \subseteq Family /\ selected \subseteq Family /\ requested \subseteq Family
                /\ DeliveryInit
    BY RequestsAreFamilies
  <1>2. AnalysisInv /\ [Next]_vars => [DeliveryNext]_deliveryVars
    BY CallsFit, PipelineStep DEF AnalysisInv
  <1> QED BY <1>1, <1>2, AnalysisHolds, PTL DEF Spec, DeliverySpec

\* An analysis with any documents, threads, sizes and request loses no fact between its calls
\* and the consumer, ...
THEOREM PipelineConserves == Spec => []Conserved
  BY PipelineIsADelivery, DeliveryConserves, PTL

\* ... has handed everything over when it closes, ...
THEOREM PipelineHandsOver == Spec => []HandedOver
  BY PipelineIsADelivery, DeliveryHandsOver, PTL

\* ... and emits nothing larger than a batch.
THEOREM PipelineBatchesBounded == Spec => BatchBound
  BY PipelineIsADelivery, BatchesBounded, PTL

LEMMA ConsumerHolds == Spec => []ConsumerInv
  <1>1. Init => ConsumerInv
    BY ConsumerInit DEF Init
  <1>2. AnalysisInv /\ ConsumerInv /\ [Next]_vars => ConsumerInv'
    <2> SUFFICES ASSUME AnalysisInv, ConsumerInv, [Next]_vars PROVE ConsumerInv'
      OBVIOUS
    <2>1. DeliveryInv /\ ElsewhereInv /\ AnsweredInv /\ MarkersInv
      BY DEF AnalysisInv, ConsumerInv
    <2>2. [DeliveryNext]_deliveryVars
      BY CallsFit, PipelineStep DEF AnalysisInv
    <2>3. ElsewhereInv'
      BY <2>1, <2>2, ElsewhereStep
    <2>4. AnsweredInv'
      BY <2>1, <2>2, AnsweredStep
    <2>5. MarkersInv'
      BY <2>1, <2>2, MarkersStep
    <2> QED BY <2>3, <2>4, <2>5 DEF ConsumerInv
  <1> QED BY <1>1, <1>2, AnalysisHolds, PTL DEF Spec

\* The type invariant.
THEOREM PipelineTypes == Spec => []TypeOK
  <1>1. AnalysisInv => TypeOK
    <2> SUFFICES ASSUME AnalysisInv PROVE TypeOK
      OBVIOUS
    <2>1. DeliveryTypeOK /\ PlaceInv /\ KeptInv
      BY DEF AnalysisInv, DeliveryInv, PipelineInv
    <2>2. typed \subseteq Family
      BY <2>1, FamilyNames, FamilyIsFamilies DEF KeptInv, RequestInv
    <2> QED BY <2>1, <2>2, FamilyIsFamilies DEF TypeOK, KeptInv, PlaceInv, Facts
  <1> QED BY <1>1, AnalysisHolds, PTL

\* What was sent of a family is the beginning of its facts in source order, and nothing of a
\* family that is not wanted.
LEMMA SentSoFar ==
    ASSUME AnalysisInv, NEW f \in Families
    PROVE  /\ sent[f] \in Seq(Fact) /\ \E more \in Seq(Fact) : Source(f) = sent[f] \o more
           /\ f \notin Wanted => sent[f] = <<>>
           /\ phase \notin {"open", "failed"} =>
                 sent[f] = IF f \in Wanted THEN Source(f) ELSE <<>>
  <1> DEFINE l == Left(todo, f, held[f])
  <1>1. /\ held[f] \in Seq(Fact) /\ sent[f] \in Seq(Fact) /\ todo \in Seq(PipelineCall)
        /\ stage \in {"documents", "repository"} /\ index \in 0..Docs /\ RequestInv
    BY FamilyIsFamilies
       DEF AnalysisInv, PipelineInv, KeptInv, CallsInv, DeliveryInv, DeliveryTypeOK, Facts
  <1>2. l \in Seq(Fact)
    BY <1>1, LeftType
  <1>3. Source(f) \in Seq(Fact) /\ <<>> \in Seq(Fact)
    BY SourceFacts, EmptySeq
  <1>4. /\ Reached(f) \o l = Target(f)
        /\ stage = "documents" /\ f \in opened => sent[f] = <<>>
    BY DEF AnalysisInv, PipelineInv, ContentInv
  <1>5. phase \notin {"open", "failed"} => stage = "repository" /\ todo = <<>>
    BY DEF AnalysisInv, PipelineInv, KeptInv
  <1>6. todo = <<>> => l = <<>>
    BY LeftOfNone
  <1> HIDE DEF l
  <1>7. CASE sent[f] = <<>> /\ stage = "documents"
    <2>1. Source(f) = sent[f] \o Source(f)
      BY <1>3, <1>7, ConcatEmptySeq
    <2> QED BY <1>1, <1>3, <1>5, <1>7, <2>1
  <1>8. CASE sent[f] # <<>> /\ stage = "documents"
    <2>1. Reached(f) = sent[f] /\ f \notin opened
      BY <1>4, <1>8 DEF Reached
    <2>2. f \in DocumentFamilies
      <3>1. sent[f] \o l # <<>>
        BY <1>1, <1>2, <1>8, ConcatEqualIffEmpty
      <3> QED BY <1>4, <1>8, <2>1, <3>1 DEF Target
    <2>3. f \in Wanted
      <3>1. opened = Spooled
        BY <1>8 DEF AnalysisInv, PipelineInv, KeptInv
      <3> QED BY <1>1, <2>1, <2>2, <3>1, SpooledFacts
    <2>4. sent[f] \o l = Upto(f, index)
      BY <1>4, <1>8, <2>1, <2>2 DEF Target
    <2>5. PICK rest \in Seq(Fact) : Source(f) = Upto(f, index) \o rest
      BY <1>1, UptoIsPrefix
    <2>6. Source(f) = sent[f] \o (l \o rest) /\ l \o rest \in Seq(Fact)
      <3>1. (sent[f] \o l) \o rest = sent[f] \o (l \o rest)
        BY <1>1, <1>2, <2>5, Regroup
      <3>2. l \o rest \in Seq(Fact)
        BY <1>2, <2>5, ConcatProperties
      <3> QED BY <2>4, <2>5, <3>1, <3>2
    <2> QED BY <1>1, <1>5, <1>8, <2>3, <2>6
  <1>9. CASE stage = "repository"
    <2>1. sent[f] \o l = IF f \in Wanted THEN Source(f) ELSE <<>>
      BY <1>4, <1>9 DEF Reached, Target
    <2>2. sent[f] \o <<>> = sent[f] /\ <<>> \o Source(f) = Source(f)
      BY <1>1, <1>3, ConcatEmptySeq
    <2>3. f \notin Wanted => sent[f] = <<>>
      <3>1. sent[f] \o l = <<>> => sent[f] = <<>>
        BY <1>1, <1>2, ConcatEqualIffEmpty
      <3> QED BY <2>1, <3>1
    <2> QED BY <1>1, <1>2, <1>3, <1>5, <1>6, <2>1, <2>2, <2>3
  <1> QED BY <1>1, <1>7, <1>8, <1>9

\* The consumer sees the facts of a family in source order and once each, whatever order the
\* documents were extracted in and whenever the analysis stops.
THEOREM StreamIsInOrder == Spec => []StreamInOrder
  <1>1. AnalysisInv /\ ConsumerInv => StreamInOrder
    <2> SUFFICES ASSUME AnalysisInv, ConsumerInv, NEW f \in Family
                 PROVE  /\ IsPrefix(stream[f], Source(f))
                        /\ IsPrefix(rows[f], Source(f))
                        /\ IsPrefix(retained[f], Source(f))
      BY DEF StreamInOrder
    <2>1. f \in Families
      BY FamilyIsFamilies
    <2>2. PICK more \in Seq(Fact) : Source(f) = sent[f] \o more
      BY <2>1, SentSoFar
    <2>3. /\ sent[f] \in Seq(Fact) /\ stream[f] \in Seq(Fact) /\ pending[f] \in Seq(Fact)
          /\ <<>> \in Seq(Fact)
      BY EmptySeq DEF AnalysisInv, DeliveryInv, DeliveryTypeOK, Facts
    <2>4. IsPrefix(sent[f], Source(f))
      BY <2>2, <2>3, PrefixOfConcat
    <2>5. IsPrefix(<<>>, Source(f))
      <3>1. Source(f) \in Seq(Fact) /\ <<>> \o Source(f) = Source(f)
        BY <2>1, SourceFacts, ConcatEmptySeq
      <3>2. IsPrefix(<<>>, <<>> \o Source(f))
        BY <2>3, <3>1, PrefixOfConcat
      <3> QED BY <3>1, <3>2
    <2>6. IsPrefix(stream[f], Source(f))
      <3>1. CASE Streamed(f)
        <4>1. stream[f] \o pending[f] = sent[f]
          BY <3>1 DEF AnalysisInv, DeliveryInv, Conserved
        <4>2. (stream[f] \o pending[f]) \o more = stream[f] \o (pending[f] \o more)
          BY <2>2, <2>3, Regroup
        <4>3. pending[f] \o more \in Seq(Fact)
          BY <2>2, <2>3, ConcatProperties
        <4>4. IsPrefix(stream[f], stream[f] \o (pending[f] \o more))
          BY <2>3, <4>3, PrefixOfConcat
        <4> QED BY <2>2, <4>1, <4>2, <4>4
      <3>2. CASE ~Streamed(f)
        <4>1. stream[f] = <<>>
          BY <3>2 DEF ConsumerInv, ElsewhereInv
        <4> QED BY <2>5, <4>1
      <3> QED BY <3>1, <3>2
    <2>7. /\ rows[f] = sent[f] \/ rows[f] = <<>>
          /\ retained[f] = sent[f] \/ retained[f] = <<>>
      BY DEF AnalysisInv, DeliveryInv, StoreInv, ConsumerInv, ElsewhereInv
    <2> QED BY <2>4, <2>5, <2>6, <2>7
  <1> QED BY <1>1, AnalysisHolds, ConsumerHolds, PTL

\* A table session announces exactly the selected tables, once each, and emits no rows.
THEOREM TablesAreAnnounced == Spec => []TablesAnnounced
  <1>1. AnalysisInv /\ ConsumerInv => TablesAnnounced
    <2> SUFFICES ASSUME AnalysisInv, ConsumerInv, requested = {}
                 PROVE  /\ answered = {} /\ IsInjective(markers)
                        /\ Done => Listed(markers) = typed \cup selected
      BY DEF TablesAnnounced
    <2>1. \A f \in Family : stream[f] = <<>>
      <3> SUFFICES ASSUME NEW f \in Family PROVE stream[f] = <<>>
        OBVIOUS
      <3>1. stream[f] \in Seq(Fact) /\ pending[f] \in Seq(Fact)
        BY DEF AnalysisInv, DeliveryInv, DeliveryTypeOK, Facts
      <3>2. CASE f \in selected
        BY <3>2 DEF ConsumerInv, ElsewhereInv, Streamed, Mirrored
      <3>3. CASE f \notin selected
        <4>1. sent[f] = <<>>
          BY <3>3, FamilyIsFamilies, SentSoFar DEF Wanted
        <4>2. ~Streamed(f) => stream[f] = <<>>
          BY DEF ConsumerInv, ElsewhereInv
        <4>3. Streamed(f) => stream[f] \o pending[f] = <<>>
          BY <4>1 DEF AnalysisInv, DeliveryInv, Conserved
        <4>4. stream[f] \o pending[f] = <<>> => stream[f] = <<>>
          BY <3>1, ConcatEqualIffEmpty
        <4> QED BY <4>2, <4>3, <4>4
      <3> QED BY <3>2, <3>3
    <2>2. answered = {}
      BY <2>1 DEF ConsumerInv, AnsweredInv
    <2>3. IsInjective(markers)
      BY DEF ConsumerInv, MarkersInv
    <2>4. ASSUME Done
          PROVE  Listed(markers) = typed \cup selected
      <3>1. phase = "closed" /\ stage = "repository" /\ todo = <<>>
        BY <2>4 DEF Done, AnalysisInv, PipelineInv, KeptInv
      <3>2. typed_markers = {} /\ selected \subseteq Listed(markers)
        BY <3>1 DEF ConsumerInv, MarkersInv
      <3>3. Announced = Listed(markers) /\ Announced \subseteq typed \cup selected
        BY <3>2 DEF Announced, AnalysisInv, PipelineInv, MarksInv
      <3>4. ASSUME NEW f \in typed \ selected PROVE f \in Announced
        <4>1. f \in typed \ Wanted
          BY <3>4 DEF Wanted
        <4>2. ~Marking(f)
          BY <3>1, LeftOfNone DEF Marking
        <4> QED BY <3>1, <4>1, <4>2 DEF AnalysisInv, PipelineInv, MarksInv
      <3> QED BY <3>2, <3>3, <3>4
    <2> QED BY <2>2, <2>3, <2>4
  <1> QED BY <1>1, AnalysisHolds, ConsumerHolds, PTL

-----------------------------------------------------------------------------
(* What a completed analysis reports.                                      *)

\* The delivery has counted what it was sent, but for the families it joins in memory.
Counted == [f \in Families |-> IF Joined(f) THEN 0 ELSE Len(sent[f])]
EmittedInv == emitted_count = Sum(Counted)

LEMMA EmittedInit ==
    ASSUME Init
    PROVE  EmittedInv
  <1>1. emitted_count = 0 /\ \A f \in Families : Len(sent[f]) = 0
    BY FamilyIsFamilies DEF Init, DeliveryInit
  <1>2. Counted = [f \in Families |-> 0]
    BY <1>1 DEF Counted
  <1>3. Sum([f \in Families |-> 0]) = 0
    BY DEF Sum, Families
  <1> QED BY <1>1, <1>2, <1>3 DEF EmittedInv

LEMMA EmittedStep ==
    ASSUME DeliveryInv, EmittedInv, [DeliveryNext]_deliveryVars
    PROVE  EmittedInv'
  <1>1. Family = Families /\ sent \in [Families -> Seq(Fact)] /\ emitted_count \in Nat
    BY FamilyIsFamilies DEF DeliveryInv, DeliveryTypeOK, Facts
  <1>2. Counted \in [Families -> Nat]
    <2>1. \A f \in Families : Len(sent[f]) \in Nat
      BY <1>1, LenProperties
    <2> QED BY <2>1 DEF Counted
  <1>3. ASSUME UNCHANGED <<emitted_count, sent, kept, selected, requested>>
        PROVE  EmittedInv'
    BY <1>3 DEF EmittedInv, Counted, Joined, Mirrored
  <1>4. ASSUME NEW f \in Family, NEW s \in Seq(Fact), Send(f, s)
        PROVE  EmittedInv'
    <2>1. /\ UNCHANGED <<kept, selected, requested>> /\ sent' = [sent EXCEPT ![f] = @ \o s]
          /\ emitted_count' = emitted_count + (IF Joined(f) THEN 0 ELSE Len(s))
      <3>1. UNCHANGED <<kept, selected, requested>> /\ sent' = [sent EXCEPT ![f] = @ \o s]
        BY <1>4 DEF Send, modeVars
      <3>2. CASE SendCaptured(f, s)
        BY <3>1, <3>2 DEF SendCaptured, Joined
      <3>3. CASE SendRetained(f, s)
        BY <1>1, <3>1, <3>3 DEF SendRetained
      <3>4. CASE SendStreamed(f, s)
        BY <3>1, <3>4 DEF SendStreamed, Streamed, Joined
      <3> QED BY <1>4, <3>2, <3>3, <3>4, <3>1 DEF Send
    <2>2. \A g \in Families : Joined(g)' = Joined(g)
      BY <2>1 DEF Joined, Mirrored
    <2>3. /\ Len(sent[f] \o s) = Len(sent[f]) + Len(s) /\ Len(s) \in Nat /\ Len(sent[f]) \in Nat
      BY <1>1, <1>4, ConcatProperties, LenProperties
    <2>4. \A g \in Families : sent'[g] = IF g = f THEN sent[f] \o s ELSE sent[g]
      BY <1>1, <2>1
    <2> DEFINE n == IF Joined(f) THEN 0 ELSE Len(s)
    <2>5. n \in Nat
      BY <2>3
    <2>6. Counted' = [g \in Families |-> IF Joined(g) THEN 0 ELSE Len(sent'[g])]
      BY <2>2 DEF Counted
    <2>7. \A g \in Families : Counted'[g] = IF g = f THEN Counted[g] + n ELSE Counted[g]
      <3> SUFFICES ASSUME NEW g \in Families
                   PROVE  Counted'[g] = IF g = f THEN Counted[g] + n ELSE Counted[g]
        OBVIOUS
      <3>1. /\ Counted'[g] = IF Joined(g) THEN 0 ELSE Len(sent'[g])
            /\ Counted[g] = IF Joined(g) THEN 0 ELSE Len(sent[g])
        BY <2>6 DEF Counted
      <3>2. CASE g = f
        <4>1. CASE Joined(g)
          <5>1. Counted'[g] = 0 /\ Counted[g] = 0 /\ n = 0
            BY <3>1, <3>2, <4>1
          <5> QED BY <3>2, <5>1
        <4>2. CASE ~Joined(g)
          <5>1. Counted'[g] = Len(sent'[g]) /\ Counted[g] = Len(sent[g]) /\ n = Len(s)
            BY <3>1, <3>2, <4>2
          <5>2. Len(sent'[g]) = Len(sent[g]) + Len(s)
            BY <2>3, <2>4, <3>2
          <5> QED BY <3>2, <5>1, <5>2
        <4> QED BY <4>1, <4>2
      <3>3. CASE g # f
        BY <2>4, <3>1, <3>3
      <3> QED BY <3>2, <3>3
    <2>8. Counted' \in [Families -> Nat]
      <3>1. \A g \in Families : Counted'[g] \in Nat
        BY <1>2, <2>5, <2>7
      <3> QED BY <2>6, <3>1
    <2> DEFINE t == Counted
               u == Counted'
    <2> HIDE DEF n, t, u
    <2>9. /\ t \in [Families -> Nat] /\ u \in [Families -> Nat] /\ f \in Families
          /\ \A g \in Families : u[g] = IF g = f THEN t[g] + n ELSE t[g]
      BY <1>1, <1>2, <2>7, <2>8 DEF t, u
    <2>10. Sum(u) = Sum(t) + n
      BY <2>5, <2>9, SumAdds
    <2>11. emitted_count = Sum(t) /\ emitted_count' = emitted_count + n
      BY <2>1 DEF EmittedInv, t, n
    <2> QED BY <2>10, <2>11 DEF EmittedInv, u
  <1>5. CASE \E f \in Family, n \in Nat : MarkTyped(f, n)
    BY <1>3, <1>5 DEF MarkTyped, modeVars
  <1>6. CASE EmitBatch \/ MarkUnseen \/ Flush
    BY <1>3, <1>6 DEF EmitBatch, MarkUnseen, Flush, modeVars
  <1>7. CASE Close \/ Answer \/ Fail
    BY <1>3, <1>7 DEF Close, Answer, Fail, modeVars, storeVars
  <1>8. CASE UNCHANGED deliveryVars
    BY <1>3, <1>8 DEF deliveryVars, modeVars, storeVars
  <1> QED BY <1>4, <1>5, <1>6, <1>7, <1>8 DEF DeliveryNext, Closing

LEMMA EmittedHolds == Spec => []EmittedInv
  <1>1. Init => EmittedInv
    BY EmittedInit
  <1>2. AnalysisInv /\ EmittedInv /\ [Next]_vars => EmittedInv'
    <2> SUFFICES ASSUME AnalysisInv, EmittedInv, [Next]_vars PROVE EmittedInv'
      OBVIOUS
    <2>1. DeliveryInv
      BY DEF AnalysisInv
    <2>2. [DeliveryNext]_deliveryVars
      BY CallsFit, PipelineStep DEF AnalysisInv
    <2> QED BY <2>1, <2>2, EmittedStep
  <1> QED BY <1>1, <1>2, AnalysisHolds, PTL DEF Spec

\* When the delivery is about to close, what it streamed, captured and retained and the rows
\* the tables took are the wanted facts, each counted once.
LEMMA CountsAddUp ==
    ASSUME AnalysisInv, ConsumerInv, EmittedInv, phase = "unseen"
    PROVE  FactCount = Sum([f \in Families |-> IF Needs(f) THEN Len(Source(f)) ELSE 0])
  <1> DEFINE a == Counted
             b == [f \in Families |-> Len(retained[f])]
             c == [f \in Families |-> IF f \in typed \ Wanted THEN count[f] ELSE 0]
             ab == [f \in Families |-> Len(sent[f])]
             abc == [f \in Families |-> IF Needs(f) THEN Len(Source(f)) ELSE 0]
  <1>1. /\ Family = Families /\ RequestInv /\ index = Docs /\ count \in [Families -> Nat]
        /\ sent \in [Families -> Seq(Fact)] /\ retained \in [Families -> Seq(Fact)]
    BY FamilyIsFamilies
       DEF AnalysisInv, PipelineInv, KeptInv, DeliveryInv, DeliveryTypeOK, Facts
  <1>2. ASSUME NEW f \in Families
        PROVE  Len(sent[f]) \in Nat /\ Len(retained[f]) \in Nat /\ Len(Source(f)) \in Nat
    <2>1. sent[f] \in Seq(Fact) /\ retained[f] \in Seq(Fact) /\ Source(f) \in Seq(Fact)
      BY <1>1, SourceFacts
    <2> QED BY <2>1, LenProperties
  <1>3. ASSUME NEW f \in Families
        PROVE  ab[f] = a[f] + b[f]
    <2>1. CASE Joined(f)
      <3>1. retained[f] = sent[f]
        BY <1>1, <2>1 DEF AnalysisInv, DeliveryInv, StoreInv
      <3> QED BY <1>2, <2>1, <3>1 DEF Counted
    <2>2. CASE ~Joined(f)
      <3>1. retained[f] = <<>>
        BY <1>1, <2>2 DEF ConsumerInv, ElsewhereInv
      <3>2. b[f] = 0
        BY <3>1
      <3>3. a[f] = Len(sent[f]) /\ ab[f] = Len(sent[f])
        BY <2>2 DEF Counted
      <3> DEFINE n == Len(sent[f])
      <3>4. n \in Nat /\ a[f] = n /\ ab[f] = n
        BY <1>2, <3>3
      <3> HIDE DEF n, a, b, ab
      <3> QED BY <3>2, <3>4
    <2> QED BY <2>1, <2>2
  <1>4. ASSUME NEW f \in Families
        PROVE  abc[f] = ab[f] + c[f]
    <2>1. sent[f] = IF f \in Wanted THEN Source(f) ELSE <<>>
      BY SentSoFar
    <2>2. CASE f \in Wanted
      BY <1>2, <2>1, <2>2 DEF Needs
    <2>3. CASE f \in typed \ Wanted
      <3>1. count[f] = Len(Upto(f, Docs))
        BY <1>1, <2>3 DEF AnalysisInv, PipelineInv, CountInv
      <3>2. f \notin {Directory, Route}
        BY <1>1, <2>3 DEF RequestInv, Specialized, AttributeAccess, Call, Class, Function, Syntax,
                          Directory, Route
      <3>3. Source(f) = Upto(f, Docs)
        BY <3>2, SourceFacts
      <3>4. Len(sent[f]) = 0
        BY <2>1, <2>3
      <3> QED BY <1>2, <2>3, <3>1, <3>3, <3>4 DEF Needs
    <2>4. CASE f \notin Wanted \cup typed
      <3>1. Len(sent[f]) = 0
        BY <2>1, <2>4
      <3> QED BY <2>4, <3>1 DEF Needs
    <2> QED BY <2>2, <2>3, <2>4
  <1>5. /\ a \in [Families -> Nat] /\ b \in [Families -> Nat] /\ c \in [Families -> Nat]
        /\ ab \in [Families -> Nat] /\ abc \in [Families -> Nat]
    BY <1>1, <1>2 DEF Counted
  <1>6. FactCount = emitted_count + Sum(b) + Sum(c) /\ emitted_count = Sum(a)
    BY DEF FactCount, EmittedInv
  <1> HIDE DEF a, b, c, ab, abc
  <1>7. Sum(ab) = Sum(a) + Sum(b)
    BY <1>3, <1>5, SumOfBoth
  <1>8. Sum(abc) = Sum(ab) + Sum(c)
    BY <1>4, <1>5, SumOfBoth
  <1> QED BY <1>6, <1>7, <1>8 DEF abc

\* An analysis that completes has delivered all facts of all wanted families the way they
\* were asked for, has answered for what was requested, and reports how many facts it were.
THEOREM AnalysisIsComplete == Spec => []Complete
  <1>1. AnalysisInv /\ ConsumerInv /\ EmittedInv => Complete
    <2> SUFFICES ASSUME AnalysisInv, ConsumerInv, EmittedInv PROVE Complete
      OBVIOUS
    <2>1. CountHolds
      BY CountsAddUp DEF CountHolds
    <2>2. ASSUME Done, NEW f \in Family
          PROVE  /\ stream[f] = (IF f \in requested \ kept THEN Source(f) ELSE <<>>)
                 /\ retained[f] = (IF f \in kept THEN Source(f) ELSE <<>>)
                 /\ rows[f] = (IF f \in selected THEN Source(f) ELSE <<>>)
      <3>1. sent[f] = IF f \in requested \cup selected THEN Source(f) ELSE <<>>
        BY <2>2, FamilyIsFamilies, SentSoFar DEF Done, Wanted
      <3>2. kept \subseteq requested
        BY DEF AnalysisInv, PipelineInv, KeptInv
      <3>3. /\ Streamed(f) => stream[f] = sent[f]
            /\ ~Streamed(f) => stream[f] = <<>>
        <4>1. pending[f] = <<>> /\ stream[f] \in Seq(Fact)
          BY <2>2 DEF Done, AnalysisInv, DeliveryInv, PendingInv, DeliveryTypeOK, Facts
        <4>2. stream[f] \o <<>> = stream[f]
          BY <4>1, ConcatEmptySeq
        <4> QED BY <4>1, <4>2 DEF AnalysisInv, DeliveryInv, Conserved, ConsumerInv, ElsewhereInv
      <3>4. /\ Joined(f) => retained[f] = sent[f]
            /\ ~Joined(f) => retained[f] = <<>>
            /\ f \in selected => rows[f] = sent[f]
            /\ f \notin selected => rows[f] = <<>>
        BY DEF AnalysisInv, DeliveryInv, StoreInv, ConsumerInv, ElsewhereInv
      <3> QED BY <3>1, <3>2, <3>3, <3>4 DEF Streamed, Joined, Mirrored
    <2>3. ASSUME Done
          PROVE  answered = requested
      <3>1. /\ answered = {f \in Family : stream[f] # <<>>} \cup (requested \ emitted_families)
            /\ \A f \in requested \cap emitted_families : Streamed(f) /\ sent[f] # <<>>
        BY <2>3 DEF Done, ConsumerInv, AnsweredInv
      <3>2. requested \subseteq Family
        BY DEF AnalysisInv, DeliveryInv, DeliveryTypeOK
      <3>3. \A f \in Family : stream[f] # <<>> => f \in requested
        BY <2>2, <2>3
      <3>4. ASSUME NEW f \in requested \cap emitted_families PROVE stream[f] # <<>>
        <4>1. pending[f] = <<>> /\ stream[f] \in Seq(Fact)
          BY <2>3, <3>2 DEF Done, AnalysisInv, DeliveryInv, PendingInv, DeliveryTypeOK, Facts
        <4>2. stream[f] \o <<>> = stream[f]
          BY <4>1, ConcatEmptySeq
        <4>3. stream[f] \o pending[f] = sent[f]
          BY <3>1, <3>2 DEF AnalysisInv, DeliveryInv, Conserved
        <4> QED BY <3>1, <4>1, <4>2, <4>3
      <3> QED BY <3>1, <3>2, <3>3, <3>4
    <2> QED BY <2>1, <2>2, <2>3 DEF Complete
  <1> QED BY <1>1, AnalysisHolds, ConsumerHolds, EmittedHolds, PTL
=============================================================================
