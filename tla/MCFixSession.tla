---------------------------- MODULE MCFixSession ----------------------------
(***************************************************************************)
(* Instances of FixSession.  Fix 1 rewrites a and b in one plan, fix 2    *)
(* rewrites a, and fix 3 rewrites b and removes a directory; 1 and 2       *)
(* replace the same bytes of a, 1 and 3 insert at one offset of b.  Fix 2  *)
(* closes its finding, 1 closes its own or none, and 3 its own and the     *)
(* finding 4, which nothing repairs, or none.                              *)
(***************************************************************************)
EXTENDS FixSession, EditNormalizer, TLC

CONSTANTS a, b, d, e1

MCFix == 1..3
MCOther == {4}
MCFile == {a, b}
MCDir == {d}
MCEdit == {e1}
MCWrites == (1 :> {a, b}) @@ (2 :> {a}) @@ (3 :> {b})
MCPrunes == (1 :> {}) @@ (2 :> {}) @@ (3 :> {d})
ByteEdit(path, start, end, text) ==
    [path |-> path, start |-> start, end |-> end, replacement |-> text]
MCEdits ==
    [x \in MCFix |-> [f \in MCFile |->
        CASE x = 1 /\ f = a -> << ByteEdit(1, 1, 3, <<>>) >>
          [] x = 1 /\ f = b -> << ByteEdit(2, 1, 1, <<7>>) >>
          [] x = 2 /\ f = a -> << ByteEdit(1, 0, 2, <<7>>) >>
          [] x = 3 /\ f = b -> << ByteEdit(2, 1, 1, <<8>>), ByteEdit(2, 2, 3, <<>>) >>
          [] OTHER -> <<>>]]
MCOverlaps == {<<1, 2>>, <<2, 1>>}
MCCures == {c \in [MCFix -> SUBSET (MCFix \cup MCOther)] :
                /\ c[1] \in {{}, {1}}
                /\ c[2] = {2}
                /\ c[3] \in {{}, {3, 4}}}
MCMessage == [x \in MCFix \cup MCOther |-> x]
SharedMessage == [x \in MCFix \cup MCOther |-> 0]

(* MCOverlaps are the pairs the normalizer refuses to merge.               *)
ASSUME OverlapsAssumption ==
    MCOverlaps =
        {p \in MCFix \X MCFix :
            p[1] # p[2] /\ \E f \in MCWrites[p[1]] \cap MCWrites[p[2]] :
                              Refused(MCEdits[p[1]][f] \o MCEdits[p[2]][f])}

(* Up to three edits of a document of three bytes, at every range of it,   *)
(* with one of another document and one that ends before it starts.        *)
Document == <<1, 2, 3>>
InDocument ==
    {ByteEdit(1, s, e, text) : s \in 0..3, e \in 0..3, text \in {<<7>>, <<8>>}}
OneFile == {e \in InDocument : e.start <= e.end}
Lists(edits) == UNION {[1..n -> edits] : n \in 0..3}

ASSUME NormalizerAssumption ==
    /\ NeighboursDecide(Lists(OneFile \cup {ByteEdit(1, 2, 1, <<7>>), ByteEdit(2, 1, 2, <<7>>)}))
    /\ AppliedInPlace(Document, Lists(OneFile))
=============================================================================
