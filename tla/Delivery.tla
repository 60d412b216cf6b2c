------------------------------ MODULE Delivery ------------------------------
(***************************************************************************)
(* The delivery of core/src/delivery: one consumer's view of the facts a   *)
(* kernel run extracts.  A family is retained for a join, captured for a   *)
(* table, or streamed in batches of at most FACT_BATCH_SIZE; a table       *)
(* family is announced by an "@typed:" marker instead of its rows.         *)
(* Closing announces the tables nobody filled, emits what is pending and   *)
(* answers for every requested family that produced nothing.               *)
(*                                                                         *)
(* The consumer is what its callbacks make of the emissions: the facts it  *)
(* appends per family, the families it has heard of, and the markers it    *)
(* keeps once each (SessionState::record_marker).  Families are numbered   *)
(* in the order of their names, which is the order of a BTreeMap.          *)
(***************************************************************************)
EXTENDS Naturals, Sequences, FiniteSets

CONSTANTS Family,     \* fact families, in name order
          Fact,       \* facts, opaque to the delivery
          Batch,      \* FACT_BATCH_SIZE
          Unset       \* no family

ASSUME DeliveryAssumption ==
    /\ Family \subseteq Nat /\ IsFiniteSet(Family)
    /\ Batch \in Nat \ {0}
    /\ Unset \notin Family

VARIABLES kept,             \* families joined in memory (the keys of retained)
          selected,         \* families captured for tables
          requested,        \* families the caller of close asks for
          retained, pending, typed_markers, emitted_families, emitted_count,
          marked, rows,     \* GenericCapture
          sending,          \* the family whose full batches are being emitted
          phase,            \* "open", the three parts of close, and how it ends
          stream, answered, markers,  \* the consumer
          sent              \* every fact handed to send, per family (history)

modeVars == <<kept, selected, requested>>
storeVars == <<retained, pending, typed_markers, emitted_families, emitted_count, marked, rows>>
consumerVars == <<stream, answered, markers>>
deliveryVars == <<modeVars, storeVars, sending, phase, consumerVars, sent>>

Facts == [Family -> Seq(Fact)]
Phases == {"open", "unseen", "flush", "answer", "closed", "failed"}

DeliveryTypeOK ==
    /\ kept \subseteq Family /\ selected \subseteq Family /\ requested \subseteq Family
    /\ retained \in Facts /\ pending \in Facts /\ rows \in Facts
    /\ typed_markers \subseteq Family
    /\ emitted_families \subseteq Family
    /\ emitted_count \in Nat
    /\ marked \subseteq Family
    /\ sending \in Family \cup {Unset}
    /\ phase \in Phases
    /\ stream \in Facts /\ sent \in Facts
    /\ answered \subseteq Family
    /\ markers \in Seq(Family)

\* A captured family is also streamed when its rows were requested.
Mirrored(f) == f \in requested
Streamed(f) == f \notin kept /\ (f \in selected => Mirrored(f))
Joined(f) == f \in kept /\ (f \in selected => Mirrored(f))

DeliveryInit ==
    /\ retained = [f \in Family |-> <<>>]
    /\ pending = [f \in Family |-> <<>>]
    /\ typed_markers = {}
    /\ emitted_families = {}
    /\ emitted_count = 0
    /\ marked = {}
    /\ rows = [f \in Family |-> <<>>]
    /\ sending = Unset
    /\ phase = "open"
    /\ stream = [f \in Family |-> <<>>]
    /\ answered = {}
    /\ markers = <<>>
    /\ sent = [f \in Family |-> <<>>]

Listed(s) == {s[i] : i \in DOMAIN s}
Least(S) == CHOOSE f \in S : \A g \in S : f <= g

\* Bug form: every marker is kept.
MarkedTwice(f) == Append(markers, f)

\* SessionState::record_marker keeps the first marker of a family.
Marked(f) == IF f \in Listed(markers) THEN markers ELSE Append(markers, f)

-----------------------------------------------------------------------------
(* Sending.                                                                *)

Idle == phase = "open" /\ sending = Unset

\* GenericCapture.accept of a family no row rule reads.
SendCaptured(f, produced) ==
    /\ f \in selected /\ ~Mirrored(f)
    /\ rows' = [rows EXCEPT ![f] = @ \o produced]
    /\ emitted_count' = emitted_count + Len(produced)
    /\ emitted_families' = emitted_families \cup {f}
    /\ UNCHANGED <<retained, pending, sending>>

SendRetained(f, produced) ==
    /\ Joined(f)
    /\ retained' = [retained EXCEPT ![f] = @ \o produced]
    /\ rows' = IF f \in selected THEN [rows EXCEPT ![f] = @ \o produced] ELSE rows
    /\ UNCHANGED <<pending, emitted_families, emitted_count, sending>>

SendStreamed(f, produced) ==
    /\ Streamed(f)
    /\ rows' = IF f \in selected THEN [rows EXCEPT ![f] = @ \o produced] ELSE rows
    /\ emitted_count' = emitted_count + Len(produced)
    /\ emitted_families' = IF produced = <<>> THEN emitted_families
                                             ELSE emitted_families \cup {f}
    /\ pending' = [pending EXCEPT ![f] = @ \o produced]
    /\ sending' = IF Len(pending'[f]) >= Batch THEN f ELSE Unset
    /\ UNCHANGED retained

\* Delivery::send, up to the batches it makes ready.
Send(f, produced) ==
    /\ Idle
    /\ IF f \in selected /\ f \notin marked
       THEN marked' = marked \cup {f} /\ markers' = Marked(f)
       ELSE UNCHANGED <<marked, markers>>
    /\ SendCaptured(f, produced) \/ SendRetained(f, produced) \/ SendStreamed(f, produced)
    /\ sent' = [sent EXCEPT ![f] = @ \o produced]
    /\ UNCHANGED <<modeVars, typed_markers, phase, stream, answered>>

\* Bug form: everything pending leaves as one batch.
EmitAll ==
    /\ sending # Unset
    /\ stream' = [stream EXCEPT ![sending] = @ \o pending[sending]]
    /\ pending' = [pending EXCEPT ![sending] = <<>>]
    /\ sending' = Unset
    /\ answered' = answered \cup {sending}
    /\ UNCHANGED <<modeVars, retained, typed_markers, emitted_families, emitted_count,
                   marked, rows, phase, markers, sent>>

\* Bug form: what is left after a full batch is dropped.
EmitAndForget ==
    /\ sending # Unset
    /\ stream' = [stream EXCEPT ![sending] = @ \o SubSeq(pending[sending], 1, Batch)]
    /\ pending' = [pending EXCEPT ![sending] = <<>>]
    /\ sending' = Unset
    /\ answered' = answered \cup {sending}
    /\ UNCHANGED <<modeVars, retained, typed_markers, emitted_families, emitted_count,
                   marked, rows, phase, markers, sent>>

\* One full batch of the family being sent.
EmitBatch ==
    /\ sending # Unset
    /\ LET full == pending[sending]
           rest == SubSeq(full, Batch + 1, Len(full))
       IN /\ stream' = [stream EXCEPT ![sending] = @ \o SubSeq(full, 1, Batch)]
          /\ pending' = [pending EXCEPT ![sending] = rest]
          /\ sending' = IF Len(rest) >= Batch THEN sending ELSE Unset
    /\ answered' = answered \cup {sending}
    /\ UNCHANGED <<modeVars, retained, typed_markers, emitted_families, emitted_count,
                   marked, rows, phase, markers, sent>>

\* Delivery::mark_typed: a large table is announced at once, a small one with the flush.
MarkTyped(f, row_count) ==
    /\ Idle
    /\ IF row_count >= Batch
       THEN markers' = Marked(f) /\ UNCHANGED typed_markers
       ELSE typed_markers' = typed_markers \cup {f} /\ UNCHANGED markers
    /\ UNCHANGED <<modeVars, retained, pending, emitted_families, emitted_count, marked, rows,
                   sending, phase, stream, answered, sent>>

-----------------------------------------------------------------------------
(* Closing.                                                                *)

\* Bug form: a close that emits the answers without the flush.
CloseUnflushed ==
    /\ Idle
    /\ phase' = "answer"
    /\ UNCHANGED <<modeVars, storeVars, sending, consumerVars, sent>>

Close ==
    /\ Idle
    /\ phase' = "unseen"
    /\ UNCHANGED <<modeVars, storeVars, sending, consumerVars, sent>>

\* Announce the captured families that nothing was sent for.
MarkUnseen ==
    /\ phase = "unseen"
    /\ IF selected \ marked = {}
       THEN phase' = "flush" /\ UNCHANGED <<marked, markers>>
       ELSE LET f == Least(selected \ marked)
            IN marked' = marked \cup {f} /\ markers' = Marked(f) /\ UNCHANGED phase
    /\ UNCHANGED <<modeVars, retained, pending, typed_markers, emitted_families, emitted_count,
                   rows, sending, stream, answered, sent>>

Unflushed == {f \in Family : pending[f] # <<>>} \cup typed_markers

\* Delivery::flush, one family: its deferred marker, then its last batch.
Flush ==
    /\ phase = "flush"
    /\ IF Unflushed = {}
       THEN phase' = "answer" /\ UNCHANGED <<pending, typed_markers, consumerVars>>
       ELSE LET f == Least(Unflushed)
            IN /\ markers' = IF f \in typed_markers THEN Marked(f) ELSE markers
               /\ typed_markers' = typed_markers \ {f}
               /\ stream' = [stream EXCEPT ![f] = @ \o pending[f]]
               /\ answered' = IF pending[f] = <<>> THEN answered ELSE answered \cup {f}
               /\ pending' = [pending EXCEPT ![f] = <<>>]
               /\ UNCHANGED phase
    /\ UNCHANGED <<modeVars, retained, emitted_families, emitted_count, marked, rows,
                   sending, sent>>

\* Every requested family that produced nothing is answered with an empty batch.
Answer ==
    /\ phase = "answer"
    /\ answered' = answered \cup (requested \ emitted_families)
    /\ phase' = "closed"
    /\ UNCHANGED <<modeVars, storeVars, sending, stream, markers, sent>>

\* An emission, or the work between two of them, returns an error: the delivery is dropped.
Fail ==
    /\ phase \notin {"closed", "failed"}
    /\ phase' = "failed"
    /\ UNCHANGED <<modeVars, storeVars, sending, consumerVars, sent>>

Closing == MarkUnseen \/ Flush \/ Answer

\* A delivery by itself: any calls a pipeline could make, in any order.
DeliveryNext ==
    \/ \E f \in Family, produced \in Seq(Fact) : Send(f, produced)
    \/ \E f \in Family, row_count \in Nat : MarkTyped(f, row_count)
    \/ EmitBatch \/ Close \/ Closing \/ Fail

DeliverySpec ==
    /\ kept \subseteq Family /\ selected \subseteq Family /\ requested \subseteq Family
    /\ DeliveryInit
    /\ [][DeliveryNext]_deliveryVars

-----------------------------------------------------------------------------
\* Nothing is lost, repeated or reordered between send and the consumer: what it has
\* received of a streamed family and what is still pending is exactly what was sent.
Conserved == \A f \in Family : Streamed(f) => stream[f] \o pending[f] = sent[f]

\* A delivery that closes has handed over everything it was sent, by the way each family
\* is delivered.
HandedOver ==
    phase = "closed" =>
        \A f \in Family : /\ Streamed(f) => stream[f] = sent[f]
                          /\ Joined(f) => retained[f] = sent[f]
                          /\ f \in selected => rows[f] = sent[f]

\* No emission carries more than one batch, the flush included.
BatchBound == [][\A f \in Family : Len(stream'[f]) <= Len(stream[f]) + Batch]_deliveryVars
=============================================================================
