---------------------------- MODULE RuleEngineProofs ----------------------------
(***************************************************************************)
(* The list that RuleEngine.batches builds is the partition RuleBatches    *)
(* promises, and that partition is the connected components of Linked: for *)
(* every set of rules, every table they read and every order they come in. *)
(***************************************************************************)
EXTENDS RuleEngine, FiniteSetTheorems, ListProofs

(***************************************************************************)
(* Linked and connected.                                                   *)
(***************************************************************************)

(* RuleBatch.connected asks of the batch as a whole what Linked asks of    *)
(* its rules one by one.                                                   *)
LEMMA ConnectedIsLinked ==
    ASSUME NEW batch \in SUBSET Rule, NEW rule \in Rule
    PROVE  Connected(batch, rule) <=> \E r \in batch : Linked(r, rule)
  <1>1. ASSUME Connected(batch, rule) PROVE \E r \in batch : Linked(r, rule)
    <2>1. CASE Contextual(batch) /\ rule \in ModelNative
      BY <2>1 DEF Contextual, Linked
    <2>2. CASE BatchFamilies(batch) \cap Reads[rule] # {}
      <3>1. PICK family \in Reads[rule] : family \in BatchFamilies(batch)
        BY <2>2
      <3>2. PICK r \in batch : family \in Reads[r]
        BY <3>1 DEF BatchFamilies
      <3> QED BY <3>1, <3>2 DEF Linked
    <2> QED BY <1>1, <2>1, <2>2 DEF Connected
  <1>2. ASSUME NEW r \in batch, Linked(r, rule) PROVE Connected(batch, rule)
    <2>1. CASE {r, rule} \subseteq ModelNative
      BY <2>1 DEF Connected, Contextual
    <2>2. CASE Reads[r] \cap Reads[rule] # {}
      <3>1. Reads[r] \subseteq BatchFamilies(batch)
        BY DEF BatchFamilies
      <3> QED BY <2>2, <3>1 DEF Connected
    <2> QED BY <1>2, <2>1, <2>2 DEF Linked
  <1> QED BY <1>1, <1>2

(* RuleBatches speaks of the same rules.                                   *)
LEMMA SameContracts ==
    /\ \A left, right : Batches!Linked(left, right) <=> Linked(left, right)
    /\ \A batch, rule : Batches!Connected(batch, rule) <=> Connected(batch, rule)
  BY DEF Batches!Linked, Batches!Connected, Batches!Contextual, Batches!BatchFamilies,
         Linked, Connected, Contextual, BatchFamilies

(* Neither rule of a link is special.                                      *)
LEMMA LinkedIsSymmetric ==
    ASSUME NEW left, NEW right
    PROVE  Linked(left, right) <=> Linked(right, left)
  BY DEF Linked

(* A set of rules is linked to a rule, and no part of one is linked to     *)
(* nothing in the rest.                                                    *)
Touches(b, rule) == \E r \in b : Linked(r, rule)
HoldsTogether(b) ==
    \A part \in (SUBSET b) \ {{}, b} : \E l \in part, r \in b \ part : Linked(l, r)

(* Splitting a batch that was merged around a rule: either the rule's half *)
(* or one of the merged batches supplies the link between the halves.      *)
LEMMA MergedIsNotSplittable ==
    ASSUME NEW joined \in SUBSET SUBSET Rule,
           NEW rule \in Rule,
           \A b \in joined : Touches(b, rule) /\ HoldsTogether(b)
    PROVE  HoldsTogether((UNION joined) \cup {rule})
  <1> DEFINE whole == (UNION joined) \cup {rule}
  <1> SUFFICES ASSUME NEW part \in (SUBSET whole) \ {{}, whole}
               PROVE  \E l \in part, r \in whole \ part : Linked(l, r)
    BY DEF HoldsTogether
  <1>1. ASSUME NEW b \in joined, b \cap part # {}, ~(b \subseteq part)
        PROVE  \E l \in part, r \in whole \ part : Linked(l, r)
    <2>1. b \cap part \in (SUBSET b) \ {{}, b}
      BY <1>1
    <2>2. \A half \in (SUBSET b) \ {{}, b} : \E l \in half, r \in b \ half : Linked(l, r)
      BY DEF HoldsTogether
    <2>3. PICK l \in b \cap part, r \in b \ (b \cap part) : Linked(l, r)
      BY <2>1, <2>2, Zenon
    <2> QED BY <2>3
  <1>2. CASE rule \in part
    <2>1. PICK q \in whole : q \notin part
      OBVIOUS
    <2>2. PICK b \in joined : q \in b
      BY <2>1, <1>2
    <2>3. CASE b \cap part # {}
      BY <1>1, <2>1, <2>2, <2>3
    <2>4. CASE b \cap part = {}
      <3>1. PICK r \in b : Linked(r, rule)
        BY DEF Touches
      <3>2. r \in whole \ part
        BY <2>4, <2>2, <3>1
      <3> QED BY <3>1, <3>2, <1>2, LinkedIsSymmetric
    <2> QED BY <2>3, <2>4
  <1>3. CASE rule \notin part
    <2>1. PICK q \in part : q \in UNION joined
      BY <1>3
    <2>2. PICK b \in joined : q \in b
      BY <2>1
    <2>3. CASE ~(b \subseteq part)
      BY <1>1, <2>1, <2>2, <2>3
    <2>4. CASE b \subseteq part
      <3>1. PICK r \in b : Linked(r, rule)
        BY DEF Touches
      <3> QED BY <3>1, <2>4, <1>3
    <2> QED BY <2>3, <2>4
  <1> QED BY <1>2, <1>3

(***************************************************************************)
(* The list.                                                               *)
(***************************************************************************)

(* A list of prepared rules names each once.                               *)
PreparedInv ==
    /\ prepared \in Seq(Rule) /\ placed \in 0..Len(prepared)
    /\ \A i, j \in 1..Len(prepared) : i # j => prepared[i] # prepared[j]

(* The entries hold the rules placed so far.                               *)
HoldsInv == UNION Entries = {prepared[k] : k \in 1..placed}

(* Two entries of one list, at different places, have nothing linked.      *)
Apart(list) ==
    \A i, j \in 1..Len(list) : i # j =>
        \A l \in ToSet(list[i]), r \in ToSet(list[j]) : ~Linked(l, r)

LEMMA EntriesAreApartByLength ==
    EntriesAreApart <=> queue \in Seq(Seq(Rule)) /\ Apart(queue)
  <1>1. ASSUME queue \in Seq(Seq(Rule)) PROVE DOMAIN queue = 1..Len(queue)
    BY <1>1, LenProperties
  <1> QED BY <1>1 DEF EntriesAreApart, Apart

LEMMA PreparedAtFirst ==
    ASSUME prepared \in SetToAllKPermutations(Rule)
    PROVE  /\ prepared \in Seq(Rule)
           /\ \A i, j \in 1..Len(prepared) : i # j => prepared[i] # prepared[j]
  <1>1. PICK S \in SUBSET Rule : prepared \in SetToSeqs(S)
    BY DEF SetToAllKPermutations
  <1> DEFINE n == Cardinality(S)
  <1>2. n \in Nat
    BY <1>1, RuleAssumption, FS_Subset, FS_CardinalityType
  <1>3. prepared \in [1..n -> S] /\ \A i, j \in 1..n : i # j => prepared[i] # prepared[j]
    BY <1>1, Zenon DEF SetToSeqs
  <1> HIDE DEF n
  <1>4. prepared \in [1..n -> Rule]
    BY <1>3
  <1>5. prepared \in Seq(Rule) /\ Len(prepared) = n
    BY <1>2, <1>4
  <1> QED BY <1>3, <1>5

(***************************************************************************)
(* One iteration of the loop.                                              *)
(***************************************************************************)

(* What Placing makes of a well formed list: the batches of the rule leave *)
(* it and one with their rules and the new one comes in.                   *)
LEMMA PlacingFacts ==
    ASSUME EntriesAreApart, NEW rule \in Rule
    PROVE  LET whole == (UNION {ToSet(b) : b \in Joins(rule)}) \cup {rule}
           IN  /\ Placing(rule) \in Seq(Seq(Rule))
               /\ \E merged \in Seq(Rule) :
                      /\ ToSet(merged) = whole
                      /\ ToSet(Placing(rule)) = (ToSet(queue) \ Joins(rule)) \cup {merged}
               /\ Apart(Placing(rule))
  <1> DEFINE J == Joins(rule)
             whole == (UNION {ToSet(b) : b \in J}) \cup {rule}
             joined == Among(queue, J)
             kept == Among(queue, ToSet(queue) \ J)
             merged == Merged(rule)
             first == First(rule)
  <1>1. /\ queue \in Seq(Seq(Rule)) /\ Apart(queue) /\ Len(queue) \in Nat
        /\ ToSet(queue) = {queue[i] : i \in 1..Len(queue)}
        /\ ToSet(queue) \subseteq Seq(Rule)
    BY EntriesAreApartByLength, LenProperties, ToSetOfSeq
  <1>2. J \subseteq ToSet(queue)
    BY DEF Joins
  <1>3. joined \in Seq(Seq(Rule)) /\ ToSet(joined) = J
    <2> HIDE DEF J
    <2>1. joined \in Seq(Seq(Rule) \cap J) /\ ToSet(joined) = ToSet(queue) \cap J
      BY <1>1, AmongFacts
    <2>2. joined \in Seq(Seq(Rule))
      BY <2>1, SeqMonotonic
    <2> QED BY <1>2, <2>1, <2>2
  <1>4. merged \in Seq(Rule) /\ ToSet(merged) = whole
    <2> HIDE DEF joined, J
    <2>1. /\ FlattenSeq(joined) \in Seq(Rule)
          /\ ToSet(FlattenSeq(joined)) = UNION {ToSet(l) : l \in J}
      BY <1>3, FlattenFacts
    <2>2. merged = Append(FlattenSeq(joined), rule)
      BY DEF Merged, joined, J
    <2> QED BY <2>1, <2>2, AppendProperties, ToSetOfAppend
  <1>5. \A i \in 1..Len(queue) : queue[i] \notin J =>
            /\ queue[i] \in Seq(Rule)
            /\ \A l \in ToSet(queue[i]) : l \in Rule /\ \A r \in whole : ~Linked(l, r) /\ ~Linked(r, l)
    <2> TAKE i \in 1..Len(queue)
    <2> HAVE queue[i] \notin J
    <2>1. queue[i] \in Seq(Rule) /\ ToSet(queue[i]) \subseteq Rule
      BY <1>1, ElementOfSeq, ToSetOfSeq
    <2>2. \A l \in ToSet(queue[i]) : ~Linked(l, rule)
      <3>1. ~Connected(ToSet(queue[i]), rule)
        BY <1>1 DEF Joins
      <3> QED BY <2>1, <3>1, ConnectedIsLinked
    <2>3. ASSUME NEW b \in J, NEW l \in ToSet(queue[i]), NEW r \in ToSet(b) PROVE ~Linked(l, r)
      <3>1. PICK k \in 1..Len(queue) : queue[k] = b
        BY <1>1, <1>2
      <3>2. k # i
        BY <3>1
      <3> QED BY <1>1, <3>1, <3>2 DEF Apart
    <2> HIDE DEF J
    <2>4. \A l \in ToSet(queue[i]) : \A r \in whole : ~Linked(l, r)
      BY <2>2, <2>3
    <2> QED BY <2>1, <2>4, LinkedIsSymmetric
  <1>6. CASE J = {}
    <2>1. Placing(rule) = Append(queue, <<rule>>)
      BY <1>6 DEF Placing
    <2>2. <<rule>> \in Seq(Rule) /\ ToSet(<<rule>>) = whole
      <3>1. <<rule>> \in Seq(Rule) /\ ToSet(<<rule>>) = {rule}
        BY ToSetOfOne
      <3>2. whole = {rule}
        BY <1>6
      <3> QED BY <3>1, <3>2
    <2> HIDE DEF J, whole
    <2> DEFINE own == <<rule>>
    <2> HIDE DEF own
    <2>a. own \in Seq(Rule) /\ ToSet(own) = whole /\ Placing(rule) = Append(queue, own)
      BY <2>1, <2>2 DEF own
    <2>3. /\ Append(queue, own) \in Seq(Seq(Rule))
          /\ Len(Append(queue, own)) = Len(queue) + 1
          /\ \A i \in 1..Len(queue) : Append(queue, own)[i] = queue[i]
          /\ Append(queue, own)[Len(queue) + 1] = own
          /\ ToSet(Append(queue, own)) = ToSet(queue) \cup {own}
      <3>1. ToSet(Append(queue, own)) = ToSet(queue) \cup {own}
        BY <1>1, <2>a, ToSetOfAppend
      <3> QED BY <1>1, <2>a, <3>1, AppendProperties
    <2>4. Apart(Placing(rule))
      <3> SUFFICES ASSUME NEW i \in 1..(Len(queue) + 1), NEW j \in 1..(Len(queue) + 1), i # j,
                          NEW l \in ToSet(Placing(rule)[i]), NEW r \in ToSet(Placing(rule)[j])
                   PROVE  ~Linked(l, r)
        BY <2>a, <2>3 DEF Apart
      <3>1. \A k \in 1..(Len(queue) + 1) : k \in 1..Len(queue) \/ k = Len(queue) + 1
        BY <1>1
      <3>2. CASE i \in 1..Len(queue) /\ j \in 1..Len(queue)
        BY <1>1, <2>a, <2>3, <3>2 DEF Apart
      <3>3. CASE i = Len(queue) + 1 /\ j \in 1..Len(queue)
        BY <1>5, <1>6, <2>a, <2>3, <3>3
      <3>4. CASE j = Len(queue) + 1 /\ i \in 1..Len(queue)
        BY <1>5, <1>6, <2>a, <2>3, <3>4
      <3> QED BY <3>1, <3>2, <3>3, <3>4
    <2> QED BY <1>6, <2>a, <2>3, <2>4 DEF J, whole
  <1>7. CASE J # {}
    <2>1. /\ first \in 1..Len(queue)
          /\ \A i \in 1..(first - 1) : queue[i] \notin J
      <3> DEFINE I == {i \in 1..Len(queue) : queue[i] \in J}
      <3>1. I # {}
        BY <1>1, <1>2, <1>7
      <3>2. first = Min(I)
        BY <3>1, Zenon DEF First, SelectInSeq
      <3>3. I \in SUBSET (1..Len(queue))
        OBVIOUS
      <3> HIDE DEF I, first
      <3>4. first \in I /\ \A i \in I : first <= i
        BY <1>1, <3>1, <3>2, <3>3, LeastOf
      <3>5. \A i \in 1..(first - 1) : i \in 1..Len(queue) /\ ~(first <= i)
        BY <1>1, <3>3, <3>4
      <3> QED BY <3>4, <3>5 DEF I
    <2> HIDE DEF J, first, whole
    <2>2. /\ kept \in Seq(Seq(Rule)) /\ ToSet(kept) = ToSet(queue) \ J
          /\ Len(kept) \in Nat /\ first \in 1..(Len(kept) + 1)
      <3>1. /\ kept \in Seq(Seq(Rule) \cap (ToSet(queue) \ J))
            /\ ToSet(kept) = ToSet(queue) \cap (ToSet(queue) \ J)
        BY <1>1, AmongFacts
      <3>2. kept \in Seq(Seq(Rule))
        BY <3>1, SeqMonotonic
      <3>3. \A i \in 1..(first - 1) : queue[i] \in ToSet(queue) \ J
        BY <1>1, <2>1
      <3>4. first - 1 \in 0..Len(queue)
        BY <1>1, <2>1
      <3> DEFINE others == ToSet(queue) \ J
      <3>5. Len(Among(queue, others)) >= first - 1
        <4>1. \A i \in 1..(first - 1) : queue[i] \in others
          BY <3>3
        <4> HIDE DEF others
        <4> QED BY <1>1, <3>4, <4>1, AmongFront
      <3>6. Len(kept) \in Nat
        BY <3>2, LenProperties
      <3>7. ToSet(kept) = ToSet(queue) \ J
        BY <3>1
      <3>8. Len(kept) >= first - 1
        BY <3>5
      <3> HIDE DEF kept
      <3> QED BY <1>1, <2>1, <3>2, <3>6, <3>7, <3>8
    <2>3. PICK at : Stood(queue, Len(queue), kept, at)
      BY <1>1, AmongFacts
    <2>4. \A i \in 1..Len(kept) :
              at[i] \in 1..Len(queue) /\ kept[i] = queue[at[i]] /\ kept[i] \notin J
      <3>1. \A i \in 1..Len(kept) : kept[i] \in ToSet(kept)
        BY <2>2, ToSetOfSeq
      <3> QED BY <2>2, <2>3, <3>1 DEF Stood
    <2>5. \A i, j \in 1..Len(kept) : i # j => at[i] # at[j]
      <3> HIDE DEF kept
      <3> SUFFICES ASSUME NEW i \in 1..Len(kept), NEW j \in 1..Len(kept), i # j, at[i] = at[j]
                   PROVE  FALSE
        OBVIOUS
      <3>1. i < j \/ j < i
        BY <2>2
      <3> QED BY <1>1, <2>3, <2>4, <3>1 DEF Stood
    <2>6. Placing(rule) = InsertAt(kept, first, merged)
      BY <1>7 DEF Placing, J, first
    <2> DEFINE list == InsertAt(kept, first, merged)
    <2> HIDE DEF kept, merged
    <2>7. /\ list \in Seq(Seq(Rule)) /\ Len(list) = Len(kept) + 1
          /\ \A j \in 1..(Len(kept) + 1) : list[j] =
                 IF j < first THEN kept[j] ELSE IF j = first THEN merged ELSE kept[j - 1]
          /\ ToSet(list) = ToSet(kept) \cup {merged}
      <3>1. merged \in Seq(Rule)
        BY <1>4
      <3> HIDE DEF list
      <3>2. /\ InsertAt(kept, first, merged) \in Seq(Seq(Rule))
            /\ Len(InsertAt(kept, first, merged)) = Len(kept) + 1
        BY <2>2, <3>1, InsertAtFacts
      <3>3. \A j \in 1..(Len(kept) + 1) : InsertAt(kept, first, merged)[j] =
                IF j < first THEN kept[j] ELSE IF j = first THEN merged ELSE kept[j - 1]
        BY <2>2, <3>1, InsertAtFacts
      <3>4. ToSet(InsertAt(kept, first, merged)) = ToSet(kept) \cup {merged}
        BY <2>2, <3>1, InsertAtFacts
      <3> QED BY <3>2, <3>3, <3>4, Zenon DEF list
    <2> HIDE DEF list
    <2>8. Apart(list)
      <3> DEFINE pos(j) == IF j < first THEN j ELSE j - 1
      <3> SUFFICES ASSUME NEW i \in 1..(Len(kept) + 1), NEW j \in 1..(Len(kept) + 1), i # j,
                          NEW l \in ToSet(list[i]), NEW r \in ToSet(list[j])
                   PROVE  ~Linked(l, r)
        BY <2>7 DEF Apart
      <3>1. \A k \in 1..(Len(kept) + 1) : k # first =>
                pos(k) \in 1..Len(kept) /\ list[k] = kept[pos(k)]
        <4> TAKE k \in 1..(Len(kept) + 1)
        <4> HAVE k # first
        <4>1. list[k] = IF k < first THEN kept[k] ELSE IF k = first THEN merged ELSE kept[k - 1]
          BY <2>7, Zenon
        <4>2. CASE k < first
          BY <2>2, <4>1, <4>2
        <4>3. CASE k > first
          BY <2>2, <4>1, <4>3
        <4> QED BY <2>2, <4>2, <4>3
      <3>2. CASE i = first
        <4>1. l \in whole /\ j # first
          BY <1>4, <2>2, <2>7, <3>2
        <4>2. pos(j) \in 1..Len(kept) /\ list[j] = kept[pos(j)]
          BY <3>1, <4>1
        <4> HIDE DEF pos
        <4>3. PICK q \in 1..Len(queue) : list[j] = queue[q] /\ queue[q] \notin J
          BY <2>4, <4>2
        <4> QED BY <1>5, <4>1, <4>3
      <3>3. CASE j = first
        <4>1. r \in whole /\ i # first
          BY <1>4, <2>2, <2>7, <3>3
        <4>2. pos(i) \in 1..Len(kept) /\ list[i] = kept[pos(i)]
          BY <3>1, <4>1
        <4> HIDE DEF pos
        <4>3. PICK q \in 1..Len(queue) : list[i] = queue[q] /\ queue[q] \notin J
          BY <2>4, <4>2
        <4> QED BY <1>5, <4>1, <4>3
      <3>4. CASE i # first /\ j # first
        <4>1. pos(i) # pos(j)
          BY <2>2, <3>4
        <4>2. pos(i) \in 1..Len(kept) /\ pos(j) \in 1..Len(kept)
              /\ list[i] = kept[pos(i)] /\ list[j] = kept[pos(j)]
          BY <3>1, <3>4
        <4> HIDE DEF pos
        <4>3. at[pos(i)] # at[pos(j)] /\ at[pos(i)] \in 1..Len(queue) /\ at[pos(j)] \in 1..Len(queue)
          BY <2>4, <2>5, <4>1, <4>2
        <4>4. list[i] = queue[at[pos(i)]] /\ list[j] = queue[at[pos(j)]]
          BY <2>4, <4>2
        <4> QED BY <1>1, <4>3, <4>4 DEF Apart
      <3> QED BY <3>2, <3>3, <3>4
    <2> QED BY <1>4, <2>2, <2>6, <2>7, <2>8 DEF list, J, whole
  <1> QED BY <1>6, <1>7

(* The set of the entries changes as RuleBatches says it does.             *)
LEMMA PlacingEntries ==
    ASSUME EntriesAreApart, NEW rule \in Rule, queue' = Placing(rule)
    PROVE  LET joined == {entry \in Entries : Connected(entry, rule)}
           IN  Entries' = (Entries \ joined) \cup {(UNION joined) \cup {rule}}
  <1> DEFINE joined == {entry \in Entries : Connected(entry, rule)}
             whole == (UNION {ToSet(b) : b \in Joins(rule)}) \cup {rule}
  <1>1. PICK merged : /\ ToSet(merged) = whole
                      /\ ToSet(queue') = (ToSet(queue) \ Joins(rule)) \cup {merged}
    BY PlacingFacts
  <1>2. joined = {ToSet(b) : b \in Joins(rule)}
    BY DEF Joins, Entries
  <1>3. {ToSet(b) : b \in ToSet(queue) \ Joins(rule)} = Entries \ joined
    BY DEF Joins, Entries
  <1>4. Entries' = {ToSet(b) : b \in ToSet(queue')}
    BY DEF Entries
  <1> HIDE DEF joined
  <1>5. whole = (UNION joined) \cup {rule}
    BY <1>2
  <1> HIDE DEF whole
  <1>6. Entries' = {ToSet(b) : b \in ToSet(queue) \ Joins(rule)} \cup {whole}
    BY <1>1, <1>4
  <1> QED BY <1>3, <1>5, <1>6 DEF joined

(* What is invariant of the list.                                          *)
ListInv == PreparedInv /\ EntriesAreApart /\ HoldsInv

LEMMA ListInit == ASSUME EngineInit PROVE ListInv /\ Entries = {}
  <1>1. PreparedInv
    BY PreparedAtFirst, LenProperties DEF EngineInit, PreparedInv
  <1>2. EntriesAreApart /\ ToSet(queue) = {}
    <2>1. queue = <<>> /\ DOMAIN queue = {}
      BY DEF EngineInit
    <2>2. queue \in Seq(Seq(Rule))
      BY <2>1, EmptySeq
    <2>3. ToSet(queue) = {}
      BY <2>1 DEF ToSet
    <2> QED BY <2>1, <2>2, <2>3 DEF EntriesAreApart
  <1>3. Entries = {}
    BY <1>2 DEF Entries
  <1>4. {prepared[k] : k \in 1..placed} = {}
    BY DEF EngineInit
  <1> QED BY <1>1, <1>2, <1>3, <1>4 DEF ListInv, HoldsInv

(* One iteration keeps the list well formed and is a step of RuleBatches.  *)
LEMMA PlaceRuleStep ==
    ASSUME ListInv, PlaceRule
    PROVE  ListInv' /\ \E rule \in Waiting : Batches!Place(rule)
  <1> DEFINE rule == prepared[placed + 1]
  <1>1. /\ prepared \in Seq(Rule) /\ placed \in Nat /\ Len(prepared) \in Nat
        /\ placed + 1 \in 1..Len(prepared) /\ rule \in Rule
        /\ placed' = placed + 1 /\ prepared' = prepared /\ queue' = Placing(rule)
    BY LenProperties, ElementOfSeq DEF ListInv, PreparedInv, PlaceRule
  <1>2. PreparedInv'
    BY <1>1 DEF ListInv, PreparedInv
  <1>3. Waiting = {prepared[k] : k \in (placed + 1)..Len(prepared)}
    BY ToSetOfRest DEF ListInv, PreparedInv, Waiting
  <1>4. Waiting' = {prepared[k] : k \in (placed + 2)..Len(prepared)}
    <2>1. Waiting' = {prepared[k] : k \in ((placed + 1) + 1)..Len(prepared)}
      BY <1>1, ToSetOfRest DEF Waiting
    <2> QED BY <1>1, <2>1
  <1>5. rule \in Waiting /\ Waiting' = Waiting \ {rule}
    <2>1. (placed + 1)..Len(prepared) = {placed + 1} \cup (placed + 2)..Len(prepared)
      BY <1>1
    <2>2. \A k \in (placed + 2)..Len(prepared) : prepared[k] # rule
      BY <1>1 DEF ListInv, PreparedInv
    <2> QED BY <1>3, <1>4, <2>1, <2>2
  <1> HIDE DEF rule
  <1>6. EntriesAreApart'
    <2>1. Placing(rule) \in Seq(Seq(Rule)) /\ Apart(Placing(rule))
      BY <1>1, PlacingFacts DEF ListInv
    <2>2. queue' \in Seq(Seq(Rule)) /\ Apart(queue')
      BY <1>1, <2>1
    <2>3. DOMAIN queue' = 1..Len(queue')
      BY <2>2, LenProperties
    <2> QED BY <2>2, <2>3 DEF EntriesAreApart, Apart, Linked
  <1> DEFINE joined == {entry \in Entries : Connected(entry, rule)}
  <1>7. Entries' = (Entries \ joined) \cup {(UNION joined) \cup {rule}}
    BY <1>1, PlacingEntries DEF ListInv
  <1>8. HoldsInv'
    <2>1. UNION Entries' = (UNION Entries) \cup {rule}
      BY <1>7
    <2>2. {prepared[k] : k \in 1..(placed + 1)} = {prepared[k] : k \in 1..placed} \cup {rule}
      <3>1. 1..(placed + 1) = 1..placed \cup {placed + 1}
        BY <1>1
      <3> QED BY <3>1 DEF rule
    <2> QED BY <1>1, <2>1, <2>2 DEF ListInv, HoldsInv
  <1>9. Batches!Place(rule)
    BY <1>5, <1>7, SameContracts DEF Batches!Place
  <1> QED BY <1>2, <1>5, <1>6, <1>8, <1>9 DEF ListInv

LEMMA ListUnchanged ==
    ASSUME ListInv, UNCHANGED engineVars
    PROVE  ListInv' /\ UNCHANGED Batches!vars
  <1>1. prepared' = prepared /\ placed' = placed /\ queue' = queue
    BY DEF engineVars
  <1>2. Entries' = Entries /\ Waiting' = Waiting
    BY <1>1 DEF Entries, Waiting
  <1>3. PreparedInv' /\ HoldsInv'
    BY <1>1, <1>2 DEF ListInv, PreparedInv, HoldsInv
  <1>4. EntriesAreApart'
    BY <1>1 DEF ListInv, EntriesAreApart, Linked
  <1> QED BY <1>2, <1>3, <1>4 DEF ListInv, Batches!vars

LEMMA ListStep == ListInv /\ [PlaceRule]_engineVars => ListInv'
  BY PlaceRuleStep, ListUnchanged

(* RuleEngine.batches makes, list for set and iteration for step, the      *)
(* partition of RuleBatches: whatever rules were selected, in any order.   *)
THEOREM EngineImplementsBatches == EngineSpec => ImplementsRuleBatches
  <1>1. EngineInit => ListInv /\ Batches!Init
    <2> SUFFICES ASSUME EngineInit PROVE ListInv /\ Batches!Init
      OBVIOUS
    <2>1. ListInv /\ Entries = {}
      BY ListInit
    <2>2. Waiting \subseteq Rule
      <3>1. \A k \in (placed + 1)..Len(prepared) : prepared[k] \in Rule
        BY <2>1, LenProperties, ElementOfSeq DEF ListInv, PreparedInv
      <3>2. Waiting = {prepared[k] : k \in (placed + 1)..Len(prepared)}
        BY <2>1, ToSetOfRest DEF ListInv, PreparedInv, Waiting
      <3> QED BY <3>1, <3>2
    <2> QED BY <2>1, <2>2 DEF Batches!Init
  <1>2. ListInv /\ [PlaceRule]_engineVars => ListInv'
    BY ListStep
  <1>3. ListInv /\ [PlaceRule]_engineVars => [Batches!Next]_(Batches!vars)
    BY PlaceRuleStep, ListUnchanged DEF Batches!Next
  <1> QED BY <1>1, <1>2, <1>3, PTL DEF EngineSpec, ImplementsRuleBatches, Batches!Spec

(***************************************************************************)
(* The components.                                                         *)
(***************************************************************************)

(* The entries are components of the rules placed so far.                  *)
PartitionInv ==
    /\ Batches!TypeOK
    /\ Batches!BatchesAreComponents

(* One iteration of the loop keeps the entries components.                 *)
LEMMA PlaceKeepsComponents ==
    ASSUME PartitionInv, NEW rule \in Waiting, Batches!Place(rule)
    PROVE  PartitionInv'
  <1> DEFINE joined == {batch \in Entries : Connected(batch, rule)}
             whole  == (UNION joined) \cup {rule}
  <1> USE DEF PartitionInv
  <1>1. /\ rule \in Rule
        /\ joined \subseteq Entries
        /\ Entries \subseteq SUBSET Rule
        /\ Waiting' = Waiting \ {rule}
        /\ Entries' = (Entries \ joined) \cup {whole}
    BY SameContracts DEF Batches!TypeOK, Batches!Place
  <1>2. \A b \in Entries : b \in joined <=> \E r \in b : Linked(r, rule)
    BY <1>1, ConnectedIsLinked
  <1>3. Batches!TypeOK'
    <2>1. whole \in (SUBSET Rule) \ {{}}
      BY <1>1
    <2> QED BY <1>1, <2>1 DEF Batches!TypeOK
  <1>4. \A b \in Entries \ joined : \A l \in b, r \in whole : ~Linked(l, r)
    <2> SUFFICES ASSUME NEW b \in Entries \ joined, NEW l \in b, NEW r \in whole
                 PROVE  ~Linked(l, r)
      OBVIOUS
    <2>1. CASE r = rule
      BY <1>2, <2>1
    <2>2. CASE r \in UNION joined
      <3>1. PICK c \in joined : r \in c
        BY <2>2
      <3> QED BY <1>1, <3>1, SameContracts DEF Batches!BatchesAreComponents, Batches!NothingLinkedAcross
    <2> QED BY <2>1, <2>2
  <1>5. Batches!NothingLinkedAcross'
    <2> SUFFICES ASSUME NEW b \in Entries', NEW c \in Entries', b # c,
                        NEW l \in b, NEW r \in c
                 PROVE  ~Linked(l, r)
      BY SameContracts DEF Batches!NothingLinkedAcross
    <2>1. CASE b = whole
      BY <1>1, <1>4, <2>1, LinkedIsSymmetric
    <2>2. CASE c = whole
      BY <1>1, <1>4, <2>2
    <2>3. CASE b # whole /\ c # whole
      BY <1>1, <2>3, SameContracts DEF Batches!BatchesAreComponents, Batches!NothingLinkedAcross
    <2> QED BY <2>1, <2>2, <2>3
  <1>6. Batches!NothingSplittable'
    <2> SUFFICES ASSUME NEW b \in Entries', NEW part \in (SUBSET b) \ {{}, b}
                 PROVE  \E l \in part, r \in b \ part : Linked(l, r)
      BY SameContracts DEF Batches!NothingSplittable
    <2>1. CASE b = whole
      <3>1. joined \in SUBSET SUBSET Rule
        BY <1>1
      <3>2. \A c \in joined : Touches(c, rule)
        BY <1>2 DEF Touches
      <3>3. \A c \in joined : HoldsTogether(c)
        BY <1>1, SameContracts
        DEF HoldsTogether, Batches!BatchesAreComponents, Batches!NothingSplittable
      <3>4. part \in (SUBSET whole) \ {{}, whole}
        BY <2>1
      <3>5. rule \in Rule
        BY <1>1
      <3> HIDE DEF joined
      <3>6. HoldsTogether((UNION joined) \cup {rule})
        BY <3>1, <3>2, <3>3, <3>5, MergedIsNotSplittable
      <3>7. \E l \in part, r \in whole \ part : Linked(l, r)
        BY <3>4, <3>6 DEF HoldsTogether
      <3> QED BY <2>1, <3>7
    <2>2. CASE b \in Entries
      BY <2>2, SameContracts DEF Batches!BatchesAreComponents, Batches!NothingSplittable
    <2> QED BY <1>1, <2>1, <2>2
  <1>7. (\A b, c \in Entries : b # c => b \cap c = {})'
    <2>1. \A b \in Entries \ joined : b \cap whole = {}
      <3> SUFFICES ASSUME NEW b \in Entries \ joined, NEW q \in b, q \in whole
                   PROVE  FALSE
        OBVIOUS
      <3>1. q # rule
        BY DEF Batches!BatchesAreComponents
      <3>2. PICK c \in joined : q \in c
        BY <3>1
      <3> QED BY <1>1, <3>2 DEF Batches!BatchesAreComponents
    <2> QED BY <1>1, <2>1 DEF Batches!BatchesAreComponents
  <1>8. ((UNION Entries) \cap Waiting = {})'
    <2>1. (UNION Entries') \subseteq (UNION Entries) \cup {rule}
      BY <1>1
    <2> QED BY <1>1, <2>1 DEF Batches!BatchesAreComponents
  <1> QED BY <1>3, <1>5, <1>6, <1>7, <1>8 DEF Batches!BatchesAreComponents

(* The partition RuleBatches describes is the connected components, after  *)
(* every step and so at the end.                                           *)
THEOREM BatchesCorrect == Batches!Spec => []Batches!BatchesAreComponents
  <1>1. Batches!Init => PartitionInv
    BY DEF Batches!Init, PartitionInv, Batches!TypeOK, Batches!BatchesAreComponents,
           Batches!NothingLinkedAcross, Batches!NothingSplittable
  <1>2. PartitionInv /\ [Batches!Next]_(Batches!vars) => PartitionInv'
    <2> SUFFICES ASSUME PartitionInv, [Batches!Next]_(Batches!vars) PROVE PartitionInv'
      OBVIOUS
    <2>1. CASE Batches!Next
      BY <2>1, PlaceKeepsComponents DEF Batches!Next
    <2>2. CASE UNCHANGED Batches!vars
      BY <2>2, SameContracts DEF Batches!vars, PartitionInv, Batches!TypeOK,
          Batches!BatchesAreComponents, Batches!NothingLinkedAcross, Batches!NothingSplittable
    <2> QED BY <2>1, <2>2
  <1>3. PartitionInv => Batches!BatchesAreComponents
    BY DEF PartitionInv
  <1> QED BY <1>1, <1>2, <1>3, PTL DEF Batches!Spec

LEMMA ListHoldsAll == ListInv => EntriesAreApart /\ EntriesHoldAll
  <1> SUFFICES ASSUME ListInv, placed = Len(prepared)
               PROVE  UNION {ToSet(queue[i]) : i \in DOMAIN queue} = ToSet(prepared)
    BY DEF ListInv, EntriesHoldAll
  <1>1. {ToSet(queue[i]) : i \in DOMAIN queue} = Entries
    BY DEF Entries, ToSet
  <1>2. ToSet(prepared) = {prepared[k] : k \in 1..placed}
    BY ToSetOfSeq DEF ListInv, PreparedInv
  <1> QED BY <1>1, <1>2 DEF ListInv, HoldsInv

(* After any number of placed rules the list of the engine holds every     *)
(* connected component of them once, each rule in one entry; when the loop *)
(* is over, all of the prepared rules.                                     *)
THEOREM EngineCorrect == EngineSpec => []BatchesAreComponents
  <1>1. EngineInit => ListInv
    BY ListInit
  <1>2. ListInv /\ [PlaceRule]_engineVars => ListInv'
    BY ListStep
  <1>3. EngineSpec => []Batches!BatchesAreComponents
    BY EngineImplementsBatches, BatchesCorrect DEF ImplementsRuleBatches
  <1>4. ListInv /\ Batches!BatchesAreComponents => BatchesAreComponents
    BY ListHoldsAll DEF BatchesAreComponents
  <1> QED BY <1>1, <1>2, <1>3, <1>4, PTL DEF EngineSpec

(* No table family is read from two batches, so a session that gives each  *)
(* table away once can serve them all; and only one batch asks the model.  *)
THEOREM TablesHaveOneBatch ==
    EngineSpec =>
        [](\A i, j \in DOMAIN queue : i # j =>
              /\ BatchFamilies(ToSet(queue[i])) \cap BatchFamilies(ToSet(queue[j])) = {}
              /\ ~(Contextual(ToSet(queue[i])) /\ Contextual(ToSet(queue[j]))))
  <1> DEFINE Once == \A i, j \in DOMAIN queue : i # j =>
              /\ BatchFamilies(ToSet(queue[i])) \cap BatchFamilies(ToSet(queue[j])) = {}
              /\ ~(Contextual(ToSet(queue[i])) /\ Contextual(ToSet(queue[j])))
  <1>1. BatchesAreComponents => Once
    <2> SUFFICES ASSUME BatchesAreComponents,
                        NEW i \in DOMAIN queue, NEW j \in DOMAIN queue, i # j
                 PROVE  /\ BatchFamilies(ToSet(queue[i])) \cap BatchFamilies(ToSet(queue[j])) = {}
                        /\ ~(Contextual(ToSet(queue[i])) /\ Contextual(ToSet(queue[j])))
      OBVIOUS
    <2>1. \A l \in ToSet(queue[i]), r \in ToSet(queue[j]) : ~Linked(l, r)
      BY DEF BatchesAreComponents, EntriesAreApart
    <2> QED BY <2>1 DEF Linked, BatchFamilies, Contextual
  <1> QED BY <1>1, EngineCorrect, PTL
================================================================================
