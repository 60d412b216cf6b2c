----------------------------- MODULE EditNormalizer -----------------------------
(***************************************************************************)
(* How the byte edits of several repairs become one program for a file     *)
(* (rendering/edits/normalizer.py) and how it is applied                   *)
(* (PythonFixRenderer).  An edit replaces the bytes after start, up to     *)
(* end, of a path; with start = end it is an insertion.  Paths are         *)
(* numbers, replacements sequences.                                        *)
(***************************************************************************)
EXTENDS Integers, Sequences, SequencesExt, Lists

Insertion(edit) == edit.start = edit.end

(* _unique, less its check of every range.                                 *)
Unique(edits) == Firsts(edits)

(* _combined and _matching_insertion: the texts inserted at one offset are *)
(* joined where the first of them stands.                                  *)
Matches(edit, other) ==
    /\ Insertion(edit) /\ Insertion(other)
    /\ other.path = edit.path /\ other.start = edit.start
Combined(edits) ==
    LET with(i) == {j \in DOMAIN edits : j = i \/ Matches(edits[i], edits[j])}
        places(S) == Among([i \in DOMAIN edits |-> i], S)
        held == places({i \in DOMAIN edits : \A j \in with(i) : i <= j})
        texts(some) == FlattenSeq([k \in DOMAIN some |-> edits[some[k]].replacement])
    IN [k \in DOMAIN held |->
           [edits[held[k]] EXCEPT !.replacement = texts(places(with(held[k])))]]

(* The sort key (path, start, end).                                        *)
Precedes(edit, other) ==
    \/ edit.path < other.path
    \/ /\ edit.path = other.path
       /\ \/ edit.start < other.start
          \/ edit.start = other.start /\ edit.end < other.end
Ordered(edits) ==
    SortedBy(edits, [i \in DOMAIN edits |->
        Cardinality({j \in DOMAIN edits : Precedes(edits[j], edits[i])})])

(* _overlap.                                                               *)
Overlap(previous, edit) ==
    \/ previous.end > edit.start /\ ~Insertion(previous)
    \/ Insertion(edit) /\ previous.start < edit.start /\ edit.start < previous.end

(* normalize: the list it returns, and whether it is refused, for which    *)
(* only neighbours in it are compared.                                     *)
Normalized(edits) == Ordered(Combined(Unique(edits)))

Refused(edits) ==
    LET ordered == Normalized(edits)
    IN \/ \E i \in DOMAIN edits : edits[i].start > edits[i].end
       \/ \E i \in 2..Len(ordered) :
             /\ ordered[i - 1].path = ordered[i].path
             /\ Overlap(ordered[i - 1], ordered[i])

(* _apply_edits: from right to left, on the bytes of one document.         *)
AppliedEdits(source, edits) ==
    FoldRight(LAMBDA edit, revised :
                  SubSeq(revised, 1, edit.start) \o edit.replacement
                      \o SubSeq(revised, edit.end + 1, Len(revised)),
              edits, source)

--------------------------------------------------------------------------------
(* The reference: bytes that no two edits claim, and the revision written  *)
(* down offset by offset.                                                  *)
Bytes(edit) == edit.start + 1..edit.end

Inside(insertion, edit) ==
    /\ Insertion(insertion)
    /\ edit.start < insertion.start /\ insertion.start < edit.end

Apart(edit, other) ==
    \/ edit.path # other.path
    \/ /\ Bytes(edit) \cap Bytes(other) = {}
       /\ ~Inside(edit, other) /\ ~Inside(other, edit)

Spliced(source, edits) ==
    LET insertions(k) == SelectSeq(edits, LAMBDA e : Insertion(e) /\ e.start = k)
        others(k) == SelectSeq(edits, LAMBDA e : ~Insertion(e) /\ e.start = k)
        texts(some) == FlattenSeq([i \in DOMAIN some |-> some[i].replacement])
        claimed == UNION {Bytes(e) : e \in ToSet(edits)}
        own(k) == IF k = Len(source) \/ k + 1 \in claimed THEN <<>> ELSE <<source[k + 1]>>
    IN FlattenSeq([i \in 1..Len(source) + 1 |->
           texts(insertions(i - 1)) \o texts(others(i - 1)) \o own(i - 1)])

(* "Reject every overlapping replacement": comparing neighbours refuses    *)
(* exactly the lists in which some two different edits collide, so a batch *)
(* of repairs merges if and only if its repairs do two by two, which is    *)
(* what FixSession!Compatible takes for granted.                           *)
NeighboursDecide(lists) ==
    \A edits \in lists :
        ~Refused(edits) <=>
            /\ \A e \in ToSet(edits) : e.start <= e.end
            /\ \A e, f \in ToSet(edits) : e = f \/ Apart(e, f)

(* The program of one file, applied from right to left, puts every text    *)
(* where its edit meant it in the original bytes, insertions before the    *)
(* replacement that starts at the same offset.                             *)
AppliedInPlace(source, lists) ==
    \A edits \in lists :
        ~Refused(edits) =>
            AppliedEdits(source, Normalized(edits)) = Spliced(source, Unique(edits))
================================================================================
