---------------------------- MODULE ModelTurnsProofs ----------------------------
(***************************************************************************)
(* Proofs about ModelTurns and the planner it uses, for any rules,         *)
(* candidates, evidence, limits, batch size and number of workers: a plan  *)
(* has every candidate once, in requests within the limits; the semaphore  *)
(* bounds what is in flight even after an exception has left coroutines    *)
(* behind, an unavailable service is asked for one pack only, and every    *)
(* candidate gets its own answer, in a report no rule of which was         *)
(* answered without the model.                                             *)
(***************************************************************************)
EXTENDS ModelTurns, ListProofs

--------------------------------------------------------------------------------
(* The planner.                                                            *)

Pack == Seq(Candidate)

(* Candidates by class: a division of them.                                *)
LEMMA DividedFacts ==
    ASSUME NEW pack \in Pack, NEW class
    PROVE  /\ Divided(pack, class) \in Seq(Pack)
           /\ Distinct(pack) => Divides(Divided(pack, class), ToSet(pack))
<1> DEFINE Y == {class[c] : c \in Candidate}
           seen == [i \in DOMAIN pack |-> class[pack[i]]]
           classes == Firsts(seen)
           M == Len(classes)
           d == Divided(pack, class)
           of(k) == {c \in ToSet(pack) : class[c] = classes[k]}
<1>1. Len(pack) \in Nat /\ DOMAIN pack = 1..Len(pack) /\ \A i \in 1..Len(pack) : pack[i] \in Candidate
    BY LenProperties, ElementOfSeq DEF Pack
<1>2. seen \in Seq(Y) /\ Len(seen) = Len(pack)
    BY <1>1
<1>3. /\ classes \in Seq(Y) /\ Distinct(classes)
      /\ ToSet(classes) = ToSet(seen)
    <2> HIDE DEF seen, Y
    <2> QED BY <1>2, FirstsFacts
<1>4. ToSet(pack) = {pack[i] : i \in 1..Len(pack)} /\ ToSet(pack) \subseteq Candidate
    BY ToSetOfSeq DEF Pack
<1>5. ToSet(seen) = {seen[i] : i \in 1..Len(pack)}
    <2> HIDE DEF seen, Y
    <2> QED BY <1>2, ToSetOfSeq
<1>6. \A i \in 1..Len(pack) : seen[i] = class[pack[i]]
    BY <1>1
<1>7. M \in Nat /\ DOMAIN classes = 1..M /\ ToSet(classes) = {classes[k] : k \in 1..M}
    <2> HIDE DEF Y, classes
    <2> QED BY <1>3, LenProperties, ToSetOfSeq
<1>8. d = [k \in 1..M |-> Among(pack, of(k))]
    BY <1>7 DEF Divided
<1> HIDE DEF seen, Y, classes, M, d
<1>9. ASSUME NEW k \in 1..M
      PROVE  /\ Among(pack, of(k)) \in Pack
             /\ ToSet(Among(pack, of(k))) = of(k)
             /\ of(k) # {}
             /\ Distinct(pack) => Distinct(Among(pack, of(k)))
    <2>1. of(k) \subseteq ToSet(pack)
        OBVIOUS
    <2>2. of(k) # {}
        <3>1. classes[k] \in ToSet(seen)
            BY <1>3, <1>7
        <3>2. PICK i \in 1..Len(pack) : classes[k] = seen[i]
            BY <1>5, <3>1
        <3>3. class[pack[i]] = classes[k] /\ pack[i] \in ToSet(pack)
            BY <1>4, <1>6, <3>2
        <3> QED BY <3>3
    <2> HIDE DEF of
    <2>3. /\ Among(pack, of(k)) \in Seq(Candidate \cap of(k))
          /\ ToSet(Among(pack, of(k))) = ToSet(pack) \cap of(k)
        BY AmongFacts DEF Pack
    <2>4. Among(pack, of(k)) \in Pack
        BY <2>3, SeqMonotonic DEF Pack
    <2>5. Distinct(pack) => Distinct(Among(pack, of(k)))
        BY AmongDistinct DEF Pack
    <2>6. ToSet(pack) \cap of(k) = of(k)
        BY <2>1
    <2> QED BY <2>2, <2>3, <2>4, <2>5, <2>6
<1>10. /\ d \in Seq(Pack) /\ Len(d) = M
       /\ \A k \in 1..M : d[k] = Among(pack, of(k))
    <2> HIDE DEF of
    <2>1. \A k \in 1..M : Among(pack, of(k)) \in Pack
        BY <1>9
    <2> QED BY <1>7, <1>8, <2>1
<1>11. ASSUME Distinct(pack) PROVE Divides(d, ToSet(pack))
    <2>1. ASSUME NEW k \in 1..M PROVE Distinct(d[k]) /\ d[k] # <<>>
        <3> HIDE DEF of
        <3>1. d[k] \in Pack /\ ToSet(d[k]) # {} /\ Distinct(d[k])
            BY <1>9, <1>10, <1>11
        <3> QED BY <3>1, EmptyToSet DEF Pack
    <2>2. ASSUME NEW k \in 1..M, NEW l \in 1..M, NEW e, e \in ToSet(d[k]), e \in ToSet(d[l])
          PROVE  k = l
        <3>1. e \in of(k) /\ e \in of(l)
            <4> HIDE DEF of
            <4> QED BY <1>9, <1>10, <2>2
        <3>2. classes[k] = classes[l]
            BY <3>1
        <3> QED BY <1>3, <3>2 DEF Distinct, M
    <2>3. ASSUME NEW e \in ToSet(pack) PROVE \E k \in 1..M : e \in ToSet(d[k])
        <3>1. class[e] \in ToSet(classes)
            BY <1>3, <1>4, <1>5, <1>6
        <3>2. PICK k \in 1..M : classes[k] = class[e]
            BY <1>7, <3>1
        <3>3. e \in of(k)
            BY <3>2
        <3> HIDE DEF of
        <3> QED BY <1>9, <1>10, <3>3
    <2>4. ASSUME NEW k \in 1..M, NEW e, e \in ToSet(d[k]) PROVE e \in ToSet(pack)
        <3>1. e \in of(k)
            <4> HIDE DEF of
            <4> QED BY <1>9, <1>10, <2>4
        <3> QED BY <3>1
    <2> QED BY <1>10, <2>1, <2>2, <2>3, <2>4 DEF Divides
<1> QED BY <1>10, <1>11 DEF d

(* RepositoryPack.of neither loses nor repeats a candidate.                *)
LEMMA PackOfFacts ==
    ASSUME NEW list \in Pack
    PROVE  /\ PackOf(list) \in Pack
           /\ Distinct(list) => Distinct(PackOf(list)) /\ ToSet(PackOf(list)) = ToSet(list)
<1> DEFINE slices == Divided(list, [c \in Candidate |-> c[1]])
           places(k) == [i \in DOMAIN slices[k] |-> slices[k][i][2]]
           sorted == [k \in DOMAIN slices |-> SortedBy(slices[k], places(k))]
           M == Len(slices)
<1>1. /\ slices \in Seq(Pack)
      /\ Distinct(list) => Divides(slices, ToSet(list))
    BY DividedFacts
<1>2. PackOf(list) = FlattenSeq(sorted)
    BY DEF PackOf
<1> HIDE DEF slices
<1>3. M \in Nat /\ DOMAIN slices = 1..M /\ \A k \in 1..M : slices[k] \in Pack
    BY <1>1, LenProperties, ElementOfSeq
<1>4. ASSUME NEW k \in 1..M
      PROVE  places(k) \in Seq(Int) /\ Len(places(k)) = Len(slices[k])
    <2> DEFINE s == slices[k]
    <2>1. Len(s) \in Nat /\ DOMAIN s = 1..Len(s) /\ \A i \in 1..Len(s) : s[i] \in Candidate
        BY <1>3, LenProperties, ElementOfSeq DEF Pack
    <2> HIDE DEF s
    <2>2. \A i \in 1..Len(s) : s[i][2] \in Int
        BY <2>1, PackPlannerAssumption
    <2> QED BY <2>1, <2>2 DEF s
<1> HIDE DEF places
<1>5. ASSUME NEW k \in 1..M
      PROVE  /\ sorted[k] \in Pack /\ ToSet(sorted[k]) = ToSet(slices[k])
             /\ Len(sorted[k]) = Len(slices[k])
             /\ Distinct(slices[k]) => Distinct(sorted[k])
    <2> DEFINE s == slices[k]
               w == places(k)
    <2>1. sorted[k] = SortedBy(s, w) /\ s \in Seq(Candidate) /\ w \in Seq(Int) /\ Len(w) = Len(s)
        BY <1>3, <1>4 DEF Pack
    <2> HIDE DEF sorted, s, w
    <2>2. /\ SortedBy(s, w) \in Seq(Candidate) /\ ToSet(SortedBy(s, w)) = ToSet(s)
          /\ Len(SortedBy(s, w)) = Len(s)
          /\ Distinct(s) => Distinct(SortedBy(s, w))
        BY <2>1, SortedByFacts
    <2> QED BY <2>1, <2>2 DEF s, Pack
<1>6. sorted \in Seq(Pack) /\ Len(sorted) = M
    <2>1. sorted = [k \in 1..M |-> sorted[k]] /\ DOMAIN sorted = 1..M
        BY <1>3
    <2> HIDE DEF sorted
    <2> QED BY <1>3, <1>5, <2>1
<1> HIDE DEF sorted
<1>7. FlattenSeq(sorted) \in Pack
    BY <1>6, FlattenFacts DEF Pack
<1>8. ASSUME Distinct(list)
      PROVE  Distinct(FlattenSeq(sorted)) /\ ToSet(FlattenSeq(sorted)) = ToSet(list)
    <2>1. Divides(slices, ToSet(list))
        BY <1>1, <1>8
    <2>2. ASSUME NEW k \in 1..M PROVE Distinct(sorted[k]) /\ sorted[k] # <<>>
        <3>1. slices[k] # <<>> /\ Distinct(slices[k])
            BY <2>1 DEF Divides
        <3>2. ToSet(slices[k]) # {}
            BY <1>3, <3>1, EmptyToSet DEF Pack
        <3>3. ToSet(sorted[k]) # {} /\ sorted[k] \in Pack
            BY <1>5, <3>2
        <3>4. sorted[k] # <<>>
            BY <3>3, EmptyToSet DEF Pack
        <3> QED BY <1>5, <3>1, <3>4
    <2>3. Divides(sorted, ToSet(list))
        BY <1>5, <1>6, <2>1, <2>2 DEF Divides
    <2> QED BY <1>6, <2>3, FlattenDivides DEF Pack
<1> QED BY <1>2, <1>7, <1>8

(* Halving two candidates or more loses none and leaves neither half empty. *)
Right(pack) == Split(pack)[2]

LEMMA SplitFacts ==
    ASSUME NEW pack \in Pack, Distinct(pack), pack # <<>>
    PROVE  /\ Split(pack) \in Seq(Pack) /\ Len(Split(pack)) = 2
           /\ Len(pack) > 1 => Right(pack) # <<>>
           /\ Right(pack) # <<>> => Divides(Split(pack), ToSet(pack))
<1> DEFINE N == Len(pack)
           same(i) == {j \in DOMAIN pack : pack[j][1] = pack[i][1]}
           single == {i \in DOMAIN pack : same(i) = {i}}
           first(i) == IF i \in single THEN Cardinality({j \in single : j < i}) % 2 = 0
                       ELSE Cardinality({j \in same(i) : j < i}) < Cardinality(same(i)) \div 2
           left == {pack[i] : i \in {j \in DOMAIN pack : first(j)}}
           alone == {pack[i] : i \in single}
           front == Among(pack, ToSet(pack) \ alone)
           back == Among(pack, alone)
           ordered == front \o back
           a == Among(ordered, left)
           b == Among(ordered, ToSet(pack) \ left)
<1>1. Split(pack) = <<a, b>>
    BY DEF Split
<1>2. /\ N \in Nat /\ DOMAIN pack = 1..N /\ \A i \in 1..N : pack[i] \in Candidate
      /\ ToSet(pack) = {pack[i] : i \in 1..N} /\ ToSet(pack) \subseteq Candidate
      /\ \A i, j \in 1..N : pack[i] = pack[j] => i = j
    BY LenProperties, ElementOfSeq, ToSetOfSeq DEF Pack, Distinct
<1>3. N >= 1
    <2>1. N # 0
        BY EmptySeq DEF Pack
    <2> QED BY <1>2, <2>1
<1> HIDE DEF N
<1>4. single \subseteq 1..N /\ \A i \in 1..N : same(i) \subseteq 1..N /\ i \in same(i)
    BY <1>2
<1>5. alone \subseteq ToSet(pack) /\ left \subseteq ToSet(pack)
    <2> HIDE DEF first
    <2> QED BY <1>2, <1>4
<1>6. first(1)
    <2>1. CASE 1 \in single
        <3>1. {j \in single : j < 1} = {}
            BY <1>4
        <3>2. Cardinality({j \in single : j < 1}) = 0
            BY <3>1, FS_EmptySet
        <3>3. 0 % 2 = 0
            OBVIOUS
        <3> QED BY <2>1, <3>2, <3>3
    <2>2. CASE 1 \notin single
        <3> DEFINE S == same(1)
        <3>1. 1 \in S /\ S \subseteq 1..N /\ S # {1}
            BY <1>2, <1>3, <1>4, <2>2
        <3> HIDE DEF S
        <3>2. PICK j \in S : j # 1
            BY <3>1
        <3>3. IsFiniteSet(1..N)
            BY <1>2, FS_Interval
        <3>4. IsFiniteSet(S) /\ Cardinality(S) \in Nat
            BY <3>1, <3>3, FS_Subset, FS_CardinalityType
        <3>5. Cardinality(S) >= 2
            <4>1. Cardinality({1, j}) = 2 /\ {1, j} \subseteq S
                <5>1. IsFiniteSet({1}) /\ Cardinality({1}) = 1
                    BY FS_Singleton
                <5>2. Cardinality({1} \cup {j}) = 2
                    BY <3>2, <5>1, FS_AddElement
                <5>3. {1, j} = {1} \cup {j}
                    OBVIOUS
                <5> QED BY <3>1, <5>2, <5>3
            <4>2. Cardinality({1, j}) <= Cardinality(S)
                BY <3>4, <4>1, FS_Subset
            <4> QED BY <4>1, <4>2
        <3>6. {k \in S : k < 1} = {}
            <4>1. \A k \in 1..N : ~(k < 1)
                BY <1>2
            <4> QED BY <3>1, <4>1
        <3>7. Cardinality({k \in S : k < 1}) = 0
            BY <3>6, FS_EmptySet
        <3>8. 0 < Cardinality(S) \div 2
            BY <3>4, <3>5
        <3>9. Cardinality({k \in S : k < 1}) < Cardinality(S) \div 2
            BY <3>7, <3>8
        <3> QED BY <2>2, <3>9 DEF S
    <2> QED BY <2>1, <2>2
<1>7. ASSUME N > 1 PROVE \E i \in 1..N : ~first(i)
    <2>1. ASSUME NEW i \in 1..N, i \notin single PROVE \E k \in 1..N : ~first(k)
        <3> DEFINE S == same(i)
        <3>1. PICK g \in S : \A k \in S : k <= g
            <4>1. S \in SUBSET (1..N) /\ S # {}
                BY <1>4
            <4> HIDE DEF S
            <4> QED BY <1>2, <4>1, GreatestOf
        <3>2. g \in 1..N /\ same(g) = S
            BY <1>2
        <3>3. g \notin single
            <4>1. i \in same(i) /\ same(i) # {i}
                BY <1>2, <1>4, <2>1
            <4>2. ASSUME same(i) = {g} PROVE FALSE
                BY <4>1, <4>2
            <4> QED BY <3>2, <4>2
        <3>4. S \subseteq 1..N
            BY <1>4
        <3> HIDE DEF S
        <3>5. IsFiniteSet(S) /\ Cardinality(S) \in Nat
            <4>1. IsFiniteSet(1..N)
                BY <1>2, FS_Interval
            <4> QED BY <3>4, <4>1, FS_Subset, FS_CardinalityType
        <3>6. {k \in S : k < g} = S \ {g}
            <4>1. \A k \in 1..N : (k <= g => k < g \/ k = g) /\ ~(g < g)
                BY <1>2, <3>2
            <4> QED BY <3>1, <3>4, <4>1
        <3>7. Cardinality({k \in S : k < g}) = Cardinality(S) - 1 /\ Cardinality(S) - 1 \in Nat
            <4>1. IsFiniteSet(S \ {g}) /\ Cardinality(S \ {g}) = Cardinality(S) - 1
                BY <3>1, <3>5, FS_RemoveElement
            <4>2. Cardinality(S \ {g}) \in Nat
                BY <4>1, FS_CardinalityType
            <4> QED BY <3>6, <4>1, <4>2
        <3>8. ~(Cardinality(S) - 1 < Cardinality(S) \div 2)
            BY <3>5, <3>7
        <3>9. ~(Cardinality({k \in same(g) : k < g}) < Cardinality(same(g)) \div 2)
            BY <3>2, <3>7, <3>8
        <3> QED BY <3>2, <3>3, <3>9
    <2>2. ASSUME 1 \in single, 2 \in single PROVE ~first(2)
        <3>1. {j \in single : j < 2} = {1}
            BY <1>4, <2>2
        <3>2. Cardinality({j \in single : j < 2}) = 1
            BY <3>1, FS_Singleton
        <3>3. 1 % 2 = 1
            OBVIOUS
        <3> QED BY <2>2, <3>2, <3>3
    <2>3. 1 \in 1..N /\ 2 \in 1..N
        BY <1>2, <1>7
    <2> HIDE DEF first, single
    <2> QED BY <2>1, <2>2, <2>3
<1>8. pack[1] \in left
    <2>1. 1 \in DOMAIN pack
        BY <1>2, <1>3
    <2> HIDE DEF first
    <2> QED BY <1>6, <2>1
<1>9. ASSUME NEW i \in 1..N, ~first(i) PROVE pack[i] \in ToSet(pack) \ left
    <2> HIDE DEF first
    <2> QED BY <1>2, <1>9
<1> HIDE DEF left, alone
<1>10. /\ front \in Pack /\ ToSet(front) = ToSet(pack) \ alone /\ Distinct(front)
       /\ back \in Pack /\ ToSet(back) = alone /\ Distinct(back)
    <2>1. /\ front \in Seq(Candidate \cap (ToSet(pack) \ alone))
          /\ ToSet(front) = ToSet(pack) \cap (ToSet(pack) \ alone)
          /\ back \in Seq(Candidate \cap alone)
          /\ ToSet(back) = ToSet(pack) \cap alone
        BY AmongFacts DEF Pack
    <2>2. Distinct(front) /\ Distinct(back)
        BY AmongDistinct DEF Pack
    <2>3. ToSet(pack) \cap alone = alone /\ ToSet(pack) \cap (ToSet(pack) \ alone) = ToSet(pack) \ alone
        BY <1>5
    <2> HIDE DEF front, back
    <2>4. front \in Seq(Candidate) /\ back \in Seq(Candidate)
        BY <2>1, SeqMonotonic
    <2> QED BY <2>1, <2>2, <2>3, <2>4 DEF Pack
<1> HIDE DEF front, back
<1>11. ordered \in Pack /\ ToSet(ordered) = ToSet(pack) /\ Distinct(ordered)
    <2>1. ordered \in Pack
        BY <1>10, ConcatProperties DEF Pack
    <2>2. ToSet(ordered) = ToSet(front) \cup ToSet(back)
        BY <1>10, ToSetOfConcat DEF Pack
    <2>3. ToSet(front) \cap ToSet(back) = {}
        BY <1>10
    <2>4. Distinct(ordered)
        BY <1>10, <2>3, DistinctConcat DEF Pack
    <2> HIDE DEF ordered
    <2> QED BY <1>5, <1>10, <2>1, <2>2, <2>4
<1> HIDE DEF ordered
<1>12. /\ a \in Pack /\ ToSet(a) = left /\ Distinct(a)
       /\ b \in Pack /\ ToSet(b) = ToSet(pack) \ left /\ Distinct(b)
    <2>1. /\ a \in Seq(Candidate \cap left)
          /\ ToSet(a) = ToSet(ordered) \cap left
          /\ b \in Seq(Candidate \cap (ToSet(pack) \ left))
          /\ ToSet(b) = ToSet(ordered) \cap (ToSet(pack) \ left)
        BY <1>11, AmongFacts DEF Pack
    <2>2. Distinct(a) /\ Distinct(b)
        BY <1>11, AmongDistinct DEF Pack
    <2>3. ToSet(pack) \cap left = left /\ ToSet(pack) \cap (ToSet(pack) \ left) = ToSet(pack) \ left
        BY <1>5
    <2> HIDE DEF a, b
    <2>4. a \in Seq(Candidate) /\ b \in Seq(Candidate)
        BY <2>1, SeqMonotonic
    <2> QED BY <1>11, <2>1, <2>2, <2>3, <2>4 DEF Pack
<1> HIDE DEF a, b, first
<1> DEFINE h == <<a, b>>
<1>13. h \in Seq(Pack) /\ Len(h) = 2 /\ h[1] = a /\ h[2] = b
    BY <1>12
<1> HIDE DEF h
<1>14. ASSUME Len(pack) > 1 PROVE b # <<>>
    <2>1. PICK i \in 1..N : ~first(i)
        BY <1>7, <1>14 DEF N
    <2>2. ToSet(b) # {}
        BY <1>9, <1>12, <2>1
    <2> QED BY <1>12, <2>2, EmptyToSet DEF Pack
<1>15. ASSUME b # <<>> PROVE Divides(h, ToSet(pack))
    <2>1. a # <<>>
        <3>1. ToSet(a) # {}
            BY <1>8, <1>12
        <3> QED BY <1>12, <3>1, EmptyToSet DEF Pack
    <2>2. 1..2 = {1, 2}
        OBVIOUS
    <2>3. \A t \in 1..Len(h) : Distinct(h[t]) /\ h[t] # <<>>
        BY <1>12, <1>13, <1>15, <2>1, <2>2
    <2>4. ASSUME NEW e PROVE ~(e \in ToSet(a) /\ e \in ToSet(b))
        BY <1>12
    <2>5. ASSUME NEW e PROVE e \in ToSet(pack) <=> e \in ToSet(a) \/ e \in ToSet(b)
        BY <1>5, <1>12
    <2> QED BY <1>13, <2>2, <2>3, <2>4, <2>5 DEF Divides
<1> QED BY <1>1, <1>13, <1>14, <1>15 DEF h, Right

(* A pack of a bounded plan, or one that n more rounds of division bound.  *)
Settled(pack, n, weight) == Fits(pack, weight) \/ Len(pack) <= n \/ Len(pack) <= 1

LEMMA PartsFacts ==
    ASSUME NEW pack \in Pack, Distinct(pack), pack # <<>>, NEW depth, NEW weight
    PROVE  /\ Parts(pack, depth, weight) \in Seq(Pack)
           /\ Divides(Parts(pack, depth, weight), ToSet(pack))
           /\ \A n \in Nat : Settled(pack, n + 1, weight) =>
                 \A t \in 1..Len(Parts(pack, depth, weight)) :
                     Settled(Parts(pack, depth, weight)[t], n, weight)
<1> DEFINE areas == Areas(pack, depth)
           halves == Split(pack)
           parts == Parts(pack, depth, weight)
           fits == Fits(pack, weight)
           one == <<pack>>
<1>1. /\ areas \in Seq(Pack) /\ Divides(areas, ToSet(pack))
      /\ halves \in Seq(Pack) /\ Len(halves) = 2
      /\ Len(pack) > 1 => halves[2] # <<>>
      /\ halves[2] # <<>> => Divides(halves, ToSet(pack))
    BY DividedFacts, SplitFacts DEF Areas, Right
<1>2. parts = IF fits THEN one
              ELSE IF Len(areas) > 1 THEN areas
              ELSE IF halves[2] # <<>> THEN halves
              ELSE one
    BY DEF Parts
<1>3. one \in Seq(Pack) /\ Divides(one, ToSet(pack)) /\ Len(one) = 1 /\ one[1] = pack /\ 1..1 = {1}
    BY DividesOne DEF Pack
<1> HIDE DEF areas, halves, parts, one, fits
<1>4. parts \in Seq(Pack) /\ Divides(parts, ToSet(pack))
    BY <1>1, <1>2, <1>3
<1>5. ~fits /\ Len(pack) > 1 => Len(parts) > 1
    <2>1. CASE Len(areas) > 1
        BY <1>2, <2>1
    <2>2. CASE ~(Len(areas) > 1) /\ ~fits /\ halves[2] # <<>>
        <3>1. parts = halves
            BY <1>2, <2>2
        <3>2. Len(parts) = 2
            BY <1>1, <3>1
        <3> QED BY <3>2
    <2> QED BY <1>1, <2>1, <2>2
<1>6. fits => parts = one
    BY <1>2
<1>7. ASSUME NEW n \in Nat, Settled(pack, n + 1, weight), NEW t \in 1..Len(parts)
      PROVE  Settled(parts[t], n, weight)
    <2>1. CASE fits
        BY <1>3, <1>6, <2>1 DEF Settled, fits
    <2>2. CASE ~fits
        <3>1. Len(pack) <= n + 1 \/ Len(pack) <= 1
            BY <1>7, <2>2 DEF Settled, fits
        <3>2. Len(parts[t]) <= Len(pack) /\ (Len(parts) > 1 => Len(parts[t]) < Len(pack))
            BY <1>4, PartsAreShorter DEF Pack
        <3>3. parts[t] \in Pack
            BY <1>4, ElementOfSeq
        <3>4. Len(pack) \in Nat /\ Len(parts[t]) \in Nat
            BY <3>3, LenProperties DEF Pack
        <3>5. Len(parts[t]) <= n \/ Len(parts[t]) <= 1
            <4> DEFINE k == Len(parts[t])
                       m == Len(pack)
            <4>1. k \in Nat /\ m \in Nat /\ (m <= n + 1 \/ m <= 1) /\ k <= m /\ (m > 1 => k < m)
                BY <1>5, <2>2, <3>1, <3>2, <3>4
            <4> HIDE DEF k, m
            <4>2. k <= n \/ k <= 1
                BY <4>1
            <4> QED BY <4>2 DEF k
        <3> QED BY <3>5 DEF Settled
    <2> QED BY <2>1, <2>2
<1> QED BY <1>4, <1>7 DEF parts

(* One round over all packs.                                               *)
Round(list, depth, weight) ==
    FlattenSeq([i \in DOMAIN list |-> Parts(list[i], depth, weight)])
AllSettled(list, n, weight) == \A t \in 1..Len(list) : Settled(list[t], n, weight)

LEMMA RoundFacts ==
    ASSUME NEW S, NEW list \in Seq(Pack), Divides(list, S), NEW depth, NEW weight
    PROVE  /\ Round(list, depth, weight) \in Seq(Pack)
           /\ Divides(Round(list, depth, weight), S)
           /\ \A n \in Nat : AllSettled(list, n + 1, weight) =>
                                 AllSettled(Round(list, depth, weight), n, weight)
<1> DEFINE M == Len(list)
           pss == [i \in DOMAIN list |-> Parts(list[i], depth, weight)]
           f == [i \in 1..M |-> ToSet(list[i])]
           r == FlattenSeq(pss)
<1>1. M \in Nat /\ DOMAIN list = 1..M
    BY LenProperties
<1>2. ASSUME NEW i \in 1..M
      PROVE  /\ Parts(list[i], depth, weight) \in Seq(Pack)
             /\ Divides(Parts(list[i], depth, weight), ToSet(list[i]))
             /\ \A n \in Nat : Settled(list[i], n + 1, weight) =>
                   \A t \in 1..Len(Parts(list[i], depth, weight)) :
                       Settled(Parts(list[i], depth, weight)[t], n, weight)
    <2>1. list[i] \in Pack /\ Distinct(list[i]) /\ list[i] # <<>>
        BY ElementOfSeq DEF Divides
    <2> QED BY <2>1, PartsFacts
<1>3. pss = [i \in 1..M |-> Parts(list[i], depth, weight)]
    BY <1>1
<1> HIDE DEF M, pss
<1>4. pss \in Seq(Seq(Pack)) /\ Len(pss) = M /\ \A i \in 1..M : pss[i] = Parts(list[i], depth, weight)
    BY <1>1, <1>2, <1>3
<1>5. DividesAll(pss, f)
    <2>1. \A t \in 1..M : Divides(pss[t], f[t])
        BY <1>2, <1>4
    <2>2. \A t, u \in 1..M : \A e : e \in f[t] /\ e \in f[u] => t = u
        BY DEF Divides, M
    <2> HIDE DEF f
    <2> QED BY <1>4, <2>1, <2>2 DEF DividesAll
<1>6. UNION {f[t] : t \in 1..M} = S
    <2>1. \A e : e \in S <=> \E t \in 1..M : e \in ToSet(list[t])
        BY DEF Divides, M
    <2>2. \A t \in 1..M : f[t] = ToSet(list[t])
        OBVIOUS
    <2> HIDE DEF f
    <2> QED BY <2>1, <2>2
<1> HIDE DEF f
<1>7. Divides(r, S)
    <2>1. Divides(r, UNION {f[t] : t \in 1..Len(pss)})
        BY <1>4, <1>5, FlattenDividesAll
    <2> QED BY <1>4, <1>6, <2>1
<1>8. r \in Seq(Pack) /\ ToSet(r) = UNION {ToSet(l) : l \in ToSet(pss)}
    BY <1>4, FlattenFacts
<1> HIDE DEF r
<1>9. ASSUME NEW n \in Nat, AllSettled(list, n + 1, weight), NEW k \in 1..Len(r)
      PROVE  Settled(r[k], n, weight)
    <2>1. r[k] \in ToSet(r)
        BY <1>8, ToSetOfSeq
    <2>2. ToSet(pss) = {pss[i] : i \in 1..M}
        BY <1>4, ToSetOfSeq
    <2>3. PICK i \in 1..M : r[k] \in ToSet(pss[i])
        BY <1>8, <2>1, <2>2
    <2>4. pss[i] \in Seq(Pack)
        BY <1>4, ElementOfSeq
    <2>5. ToSet(pss[i]) = {pss[i][t] : t \in 1..Len(pss[i])}
        BY <2>4, ToSetOfSeq
    <2>6. PICK t \in 1..Len(pss[i]) : r[k] = pss[i][t]
        BY <2>3, <2>5
    <2>7. Settled(list[i], n + 1, weight)
        BY <1>9 DEF AllSettled, M
    <2> QED BY <1>2, <1>4, <2>6, <2>7
<1>10. ASSUME NEW n \in Nat, AllSettled(list, n + 1, weight) PROVE AllSettled(r, n, weight)
    BY <1>9, <1>10 DEF AllSettled
<1> QED BY <1>7, <1>8, <1>10 DEF Round, r, pss

(* RepositoryPlanner._bounded divides its packs further, until each is     *)
(* within the limits or asks about one candidate.                          *)
Bounds(list, weight) ==
    \A t \in 1..Len(list) : Fits(list[t], weight) \/ Len(list[t]) = 1

LEMMA BoundedFacts ==
    ASSUME NEW S, NEW list \in Seq(Pack), Divides(list, S), NEW weight
    PROVE  /\ Bounded(list, weight) \in Seq(Pack)
           /\ Divides(Bounded(list, weight), S)
           /\ Bounds(Bounded(list, weight), weight)
<1> DEFINE N == Len(FlattenSeq(list))
           X == {ps \in Seq(Pack) : Divides(ps, S)}
           step == [n \in 1..N |-> [ps \in X |-> Round(ps, n + 1, weight)]]
           round == CHOOSE round : round = [n \in 0..N |->
                        IF n = 0 THEN list
                        ELSE LET before == round[n - 1] IN
                             FlattenSeq([i \in DOMAIN before |-> Parts(before[i], n + 1, weight)])]
           res == round[N]
<1>1. /\ FlattenSeq(list) \in Pack /\ N \in Nat
      /\ Distinct(FlattenSeq(list)) /\ ToSet(FlattenSeq(list)) = S
    BY FlattenFacts, FlattenDivides, LenProperties DEF Pack
<1>2. AllSettled(list, N, weight)
    <2> SUFFICES ASSUME NEW t \in 1..Len(list) PROVE Len(list[t]) <= N
        BY DEF AllSettled, Settled
    <2>1. Divides(list, ToSet(FlattenSeq(list)))
        BY <1>1
    <2> QED BY <1>1, <2>1, PartsAreShorter DEF Pack
<1>3. Bounded(list, weight) = res
    BY Zenon DEF Bounded
<1> HIDE DEF N, res
<1>4. list \in X /\ step \in [1..N -> [X -> X]]
    <2>1. ASSUME NEW n \in 1..N, NEW ps \in X PROVE Round(ps, n + 1, weight) \in X
        BY RoundFacts
    <2> HIDE DEF X
    <2>2. step \in [1..N -> [X -> X]]
        BY <2>1
    <2> QED BY <2>2 DEF X
<1>5. PICK g \in [0..N -> X] : Iterated(N, list, step, g)
    <2> HIDE DEF X, step
    <2> QED BY <1>1, <1>4, Iterates DEF N
<1>6. /\ g[0] = list
      /\ \A n \in 1..N : g[n - 1] \in X /\ g[n] = Round(g[n - 1], n + 1, weight)
    <2>1. \A n \in 1..N : n - 1 \in 0..N /\ g[n - 1] \in X
        <3>1. \A n \in 1..N : n - 1 \in 0..N
            BY <1>1
        <3> HIDE DEF X
        <3> QED BY <3>1
    <2>2. g[0] = list /\ \A n \in 1..N : g[n] = step[n][g[n - 1]]
        BY <1>5 DEF Iterated
    <2>3. ASSUME NEW n \in 1..N, NEW ps \in X PROVE step[n][ps] = Round(ps, n + 1, weight)
        <3> HIDE DEF X
        <3> QED OBVIOUS
    <2> HIDE DEF X, step
    <2> QED BY <2>1, <2>2, <2>3
<1>7. g = [n \in 0..N |-> IF n = 0 THEN list
                          ELSE LET before == g[n - 1] IN
                               FlattenSeq([i \in DOMAIN before |-> Parts(before[i], n + 1, weight)])]
    <2> DEFINE h == [n \in 0..N |-> IF n = 0 THEN list
                          ELSE LET before == g[n - 1] IN
                               FlattenSeq([i \in DOMAIN before |-> Parts(before[i], n + 1, weight)])]
    <2>1. \A n \in 0..N : n = 0 \/ n \in 1..N
        BY <1>1 DEF N
    <2>2. \A n \in 1..N : n # 0 /\ n \in 0..N
        BY <1>1 DEF N
    <2>3. ASSUME NEW n \in 1..N PROVE h[n] = g[n]
        <3>1. h[n] = FlattenSeq([i \in DOMAIN g[n - 1] |-> Parts(g[n - 1][i], n + 1, weight)])
            BY <2>2
        <3> QED BY <1>6, <3>1 DEF Round
    <2>4. h[0] = g[0]
        <3>1. 0 \in 0..N
            BY <1>1 DEF N
        <3> QED BY <1>6, <3>1
    <2>5. h = [n \in 0..N |-> h[n]] /\ g = [n \in 0..N |-> g[n]]
        OBVIOUS
    <2> HIDE DEF h
    <2>6. h = g
        BY <2>1, <2>3, <2>4, <2>5
    <2> QED BY <2>6 DEF h
<1>8. round = [n \in 0..N |-> IF n = 0 THEN list
                          ELSE LET before == round[n - 1] IN
                               FlattenSeq([i \in DOMAIN before |-> Parts(before[i], n + 1, weight)])]
    <2> HIDE DEF X, step
    <2> QED BY <1>7, Zenon DEF round
<1> HIDE DEF round
<1>9. /\ round[0] = list
      /\ \A n \in 0..(N - 1) : round[n + 1] = Round(round[n], n + 2, weight)
    <2>1. 0 \in 0..N /\ \A n \in 0..(N - 1) : n + 1 \in 0..N /\ n + 1 # 0 /\ (n + 1) - 1 = n /\ (n + 1) + 1 = n + 2
        BY <1>1 DEF N
    <2>2. round[0] = list
        BY <1>8, <2>1, Zenon
    <2>3. ASSUME NEW n \in 0..(N - 1) PROVE round[n + 1] = Round(round[n], n + 2, weight)
        <3>1. round[n + 1] = FlattenSeq([i \in DOMAIN round[(n + 1) - 1] |->
                                 Parts(round[(n + 1) - 1][i], (n + 1) + 1, weight)])
            BY <1>8, <2>1, Zenon
        <3>2. (n + 1) - 1 = n /\ (n + 1) + 1 = n + 2
            BY <2>1
        <3> QED BY <3>1, <3>2, Zenon DEF Round
    <2> QED BY <2>2, <2>3
<1> DEFINE T == {n \in 0..N : round[n] \in X /\ AllSettled(round[n], N - n, weight)}
<1>10. 0 \in T
    BY <1>1, <1>2, <1>4, <1>9 DEF N
<1>11. ASSUME NEW n \in 0..(N - 1), n \in T PROVE n + 1 \in T
    <2>1. N - (n + 1) \in Nat /\ (N - (n + 1)) + 1 = N - n /\ n + 1 \in 0..N
        BY <1>1 DEF N
    <2>2. round[n] \in Seq(Pack) /\ Divides(round[n], S) /\ AllSettled(round[n], (N - (n + 1)) + 1, weight)
        BY <1>11, <2>1
    <2> DEFINE q == Round(round[n], n + 2, weight)
    <2>3. /\ q \in Seq(Pack) /\ Divides(q, S)
          /\ \A m \in Nat : AllSettled(round[n], m + 1, weight) => AllSettled(q, m, weight)
        BY <2>2, RoundFacts
    <2> HIDE DEF q
    <2>4. AllSettled(q, N - (n + 1), weight)
        BY <2>1, <2>2, <2>3
    <2>5. round[n + 1] = q
        BY <1>9 DEF q
    <2> QED BY <2>1, <2>3, <2>4, <2>5
<1>12. N \in T
    <2> HIDE DEF T
    <2>1. N \in Nat
        BY <1>1 DEF N
    <2>2. \A n \in 0..N : n \in T
        BY <1>10, <1>11, <2>1, Induction
    <2> QED BY <2>1, <2>2
<1>13. res \in Seq(Pack) /\ Divides(res, S) /\ AllSettled(res, 0, weight)
    <2>1. N - N = 0
        BY <1>1 DEF N
    <2> QED BY <1>12, <2>1 DEF res
<1>14. ASSUME NEW t \in 1..Len(res) PROVE Fits(res[t], weight) \/ Len(res[t]) = 1
    <2>1. res[t] \in Pack /\ res[t] # <<>>
        BY <1>13, ElementOfSeq DEF Divides
    <2>2. Len(res[t]) \in Nat /\ Len(res[t]) # 0
        BY <2>1, EmptySeq, LenProperties DEF Pack
    <2>3. Fits(res[t], weight) \/ Len(res[t]) <= 0 \/ Len(res[t]) <= 1
        BY <1>13 DEF AllSettled, Settled
    <2> HIDE DEF res
    <2> DEFINE k == Len(res[t])
    <2>4. k \in Nat /\ k # 0
        BY <2>2
    <2> HIDE DEF k
    <2>5. k <= 0 \/ k <= 1 => k = 1
        BY <2>4
    <2> QED BY <2>3, <2>5 DEF k
<1> QED BY <1>3, <1>13, <1>14 DEF Bounds

LEMMA TokensType ==
    ASSUME NEW pack \in Pack, NEW weight \in {Estimated, Counted}
    PROVE  Tokens(pack, weight) \in Nat
<1>1. ToSet(pack) \subseteq Candidate /\ Rows(pack) \in Nat
    BY ToSetOfSeq, LenProperties DEF Pack, Rows
<1>2. Cardinality(Rules(pack)) \in Nat
    <2>1. Rules(pack) \subseteq Query
        BY <1>1, PackPlannerAssumption DEF Rules
    <2> QED BY <2>1, PackPlannerAssumption, FS_Subset, FS_CardinalityType
<1>3. weight[Evidence(pack)] \in Nat
    <2>1. Evidence(pack) \in SUBSET Claim
        BY <1>1, PackPlannerAssumption DEF Evidence
    <2>2. weight \in [SUBSET Claim -> Nat]
        BY PackPlannerAssumption
    <2> QED BY <2>1, <2>2
<1> QED BY <1>1, <1>2, <1>3 DEF Tokens

(* One unit more in the requests of a plan.                                *)
LEMMA PlacedFacts ==
    ASSUME NEW bins \in Seq(Pack), NEW unit \in Pack, NEW weight
    PROVE  /\ Placed(bins, unit, weight) \in Seq(Pack)
           /\ \A S : Divides(bins, S) /\ Distinct(unit) /\ unit # <<>> /\ S \cap ToSet(unit) = {} =>
                 Divides(Placed(bins, unit, weight), S \cup ToSet(unit))
           /\ (\A t \in 1..Len(bins) : Fits(bins[t], weight)) /\ Fits(unit, weight) =>
                 \A t \in 1..Len(Placed(bins, unit, weight)) : Fits(Placed(bins, unit, weight)[t], weight)
<1> DEFINE room == {i \in DOMAIN bins :
                       /\ Tokens(bins[i], weight) + Tokens(unit, weight) <= PromptBudget - Reserve
                       /\ Fits(Joined(bins[i], unit), weight)}
           M == Len(bins)
           placed == Placed(bins, unit, weight)
           m == Min(room)
<1>1. M \in Nat /\ DOMAIN bins = 1..M /\ \A i \in 1..M : bins[i] \in Pack
    BY LenProperties, ElementOfSeq
<1>2. room = {} => placed = Append(bins, unit)
    BY DEF Placed
<1>3. room # {} => placed = [bins EXCEPT ![m] = Joined(bins[m], unit)]
    BY DEF Placed
<1>4. room # {} => m \in 1..M /\ Fits(Joined(bins[m], unit), weight)
    <2> SUFFICES ASSUME room # {} PROVE m \in 1..M /\ Fits(Joined(bins[m], unit), weight)
        OBVIOUS
    <2>1. room \in SUBSET (1..M)
        BY <1>1
    <2>2. m \in room
        <3> HIDE DEF room
        <3> QED BY <1>1, <2>1, LeastOf
    <2> HIDE DEF m, M
    <2> QED BY <1>1, <2>2
<1> HIDE DEF room, placed, m, M
<1>5. CASE room = {}
    <2>1. placed = Append(bins, unit)
        BY <1>2, <1>5
    <2>2. /\ placed \in Seq(Pack) /\ Len(placed) = M + 1 /\ placed[M + 1] = unit
          /\ \A t \in 1..M : placed[t] = bins[t]
        BY <2>1, AppendProperties DEF M
    <2>3. ASSUME NEW S, Divides(bins, S), Distinct(unit), unit # <<>>, S \cap ToSet(unit) = {}
          PROVE  Divides(placed, S \cup ToSet(unit))
        <3> DEFINE one == <<unit>>
        <3>1. one \in Seq(Pack) /\ Divides(one, ToSet(unit))
            BY <2>3, DividesOne DEF Pack
        <3>2. placed = bins \o one
            BY <2>1, AppendIsConcat
        <3> HIDE DEF one
        <3>3. Divides(bins \o one, S \cup ToSet(unit))
            BY <2>3, <3>1, DividesConcat DEF Pack
        <3> QED BY <3>2, <3>3
    <2>4. ASSUME \A t \in 1..M : Fits(bins[t], weight), Fits(unit, weight), NEW t \in 1..Len(placed)
          PROVE  Fits(placed[t], weight)
        <3>1. t \in 1..M \/ t = M + 1
            BY <1>1, <2>2
        <3> QED BY <2>2, <2>4, <3>1
    <2> QED BY <2>2, <2>3, <2>4 DEF placed, M
<1>6. CASE room # {}
    <2> DEFINE old == bins[m]
               more == old \o unit
               new == Joined(old, unit)
    <2>1. m \in 1..M /\ Fits(new, weight) /\ placed = [bins EXCEPT ![m] = new]
        BY <1>3, <1>4, <1>6
    <2>2. old \in Pack /\ more \in Pack /\ ToSet(more) = ToSet(old) \cup ToSet(unit)
        BY <1>1, <2>1, ConcatProperties, ToSetOfConcat DEF Pack
    <2>3. new = PackOf(more)
        BY DEF Joined
    <2> HIDE DEF more, new
    <2>4. /\ new \in Pack
          /\ Distinct(more) => Distinct(new) /\ ToSet(new) = ToSet(more)
        BY <2>2, <2>3, PackOfFacts
    <2>5. /\ placed \in Seq(Pack) /\ Len(placed) = M /\ placed[m] = new
          /\ \A t \in 1..M : t # m => placed[t] = bins[t]
        BY <1>1, <2>1, <2>4 DEF M
    <2>6. ASSUME NEW S, Divides(bins, S), Distinct(unit), unit # <<>>, S \cap ToSet(unit) = {}
          PROVE  Divides(placed, S \cup ToSet(unit))
        <3>1. Distinct(old) /\ ToSet(old) \subseteq S
            BY <2>1, <2>6 DEF Divides, M
        <3>2. ToSet(old) \cap ToSet(unit) = {}
            BY <2>6, <3>1
        <3>3. Distinct(more)
            BY <2>2, <2>6, <3>1, <3>2, DistinctConcat DEF more, Pack
        <3>4. new \in Seq(Candidate) /\ Distinct(new) /\ ToSet(new) = ToSet(old) \cup ToSet(unit)
            BY <2>2, <2>4, <3>3 DEF Pack
        <3>5. bins \in Seq(Seq(Candidate)) /\ m \in 1..Len(bins)
            BY <2>1 DEF Pack, M
        <3>6. Divides([bins EXCEPT ![m] = new], S \cup ToSet(unit))
            BY <2>6, <3>4, <3>5, DividesGrown
        <3> QED BY <2>1, <3>6
    <2>7. ASSUME \A t \in 1..M : Fits(bins[t], weight), NEW t \in 1..Len(placed)
          PROVE  Fits(placed[t], weight)
        BY <2>1, <2>5, <2>7
    <2> QED BY <2>5, <2>6, <2>7 DEF placed, M
<1> QED BY <1>5, <1>6

(* RepositoryPlanner._packed puts every unit into one request, and makes   *)
(* none too large that was not.                                            *)
AllFit(list, weight) == \A t \in 1..Len(list) : Fits(list[t], weight)

LEMMA PackedFacts ==
    ASSUME NEW S, NEW units \in Seq(Pack), Divides(units, S), NEW weight \in {Estimated, Counted}
    PROVE  /\ Packed(units, weight) \in Seq(Pack)
           /\ Divides(Packed(units, weight), S)
           /\ AllFit(units, weight) => AllFit(Packed(units, weight), weight)
<1> DEFINE N == Len(units)
           keys == [i \in DOMAIN units |-> -Tokens(units[i], weight)]
           measured == SortedBy(units, keys)
           X == Seq(Pack)
           step == [n \in 1..N |-> [bins \in X |-> Placed(bins, measured[n], weight)]]
           bins == CHOOSE bins : bins = [n \in 0..N |->
                       IF n = 0 THEN <<>> ELSE Placed(bins[n - 1], measured[n], weight)]
           res == bins[N]
<1>1. N \in Nat /\ DOMAIN units = 1..N /\ \A i \in 1..N : units[i] \in Pack
    BY LenProperties, ElementOfSeq
<1>2. keys \in Seq(Int) /\ Len(keys) = N
    <2>1. \A i \in 1..N : -Tokens(units[i], weight) \in Int
        BY <1>1, TokensType
    <2> HIDE DEF N
    <2> QED BY <1>1, <2>1
<1> HIDE DEF keys
<1>3. /\ measured \in Seq(Pack) /\ Len(measured) = N
      /\ \A p \in 1..N : measured[p] = units[Ranked(keys)[p]]
    BY <1>2, SortedByFacts
<1>4. Divides(measured, S)
    BY <1>2, DividesSorted DEF Pack
<1>5. Packed(units, weight) = res
    BY Zenon DEF Packed, keys
<1> HIDE DEF measured, res, N
<1>6. \A n \in 1..N : measured[n] \in Pack
    BY <1>3, ElementOfSeq
<1>7. <<>> \in X /\ step \in [1..N -> [X -> X]]
    <2>1. ASSUME NEW n \in 1..N, NEW b \in X PROVE Placed(b, measured[n], weight) \in X
        BY <1>6, PlacedFacts
    <2>2. <<>> \in X
        BY EmptySeq
    <2> HIDE DEF X
    <2> QED BY <2>1, <2>2
<1>8. PICK g \in [0..N -> X] : Iterated(N, <<>>, step, g)
    <2> HIDE DEF X, step
    <2> QED BY <1>1, <1>7, Iterates
<1>9. /\ g[0] = <<>>
      /\ \A n \in 1..N : g[n] = Placed(g[n - 1], measured[n], weight)
    <2>1. \A n \in 1..N : n - 1 \in 0..N /\ g[n - 1] \in X
        <3>1. \A n \in 1..N : n - 1 \in 0..N
            BY <1>1
        <3> HIDE DEF X
        <3> QED BY <3>1
    <2>2. g[0] = <<>> /\ \A n \in 1..N : g[n] = step[n][g[n - 1]]
        BY <1>8 DEF Iterated
    <2>3. ASSUME NEW n \in 1..N, NEW b \in X PROVE step[n][b] = Placed(b, measured[n], weight)
        <3> HIDE DEF X
        <3> QED OBVIOUS
    <2> HIDE DEF X, step
    <2> QED BY <2>1, <2>2, <2>3
<1>10. g = [n \in 0..N |-> IF n = 0 THEN <<>> ELSE Placed(g[n - 1], measured[n], weight)]
    <2> DEFINE h == [n \in 0..N |-> IF n = 0 THEN <<>> ELSE Placed(g[n - 1], measured[n], weight)]
    <2>1. \A n \in 0..N : n = 0 \/ n \in 1..N
        BY <1>1
    <2>2. \A n \in 1..N : n # 0 /\ n \in 0..N
        BY <1>1
    <2>3. ASSUME NEW n \in 1..N PROVE h[n] = g[n]
        <3>1. h[n] = Placed(g[n - 1], measured[n], weight)
            BY <2>2
        <3> HIDE DEF h
        <3> QED BY <1>9, <3>1
    <2>4. h[0] = g[0]
        <3>1. 0 \in 0..N
            BY <1>1
        <3> QED BY <1>9, <3>1
    <2>5. h = [n \in 0..N |-> h[n]] /\ g = [n \in 0..N |-> g[n]]
        OBVIOUS
    <2> HIDE DEF h
    <2>6. h = g
        BY <2>1, <2>3, <2>4, <2>5
    <2> QED BY <2>6 DEF h
<1>11. bins = [n \in 0..N |-> IF n = 0 THEN <<>> ELSE Placed(bins[n - 1], measured[n], weight)]
    <2> HIDE DEF X, step
    <2> QED BY <1>10, Zenon DEF bins
<1> HIDE DEF bins
<1>12. /\ bins[0] = <<>>
       /\ \A n \in 0..(N - 1) : bins[n + 1] = Placed(bins[n], measured[n + 1], weight)
    <2>1. 0 \in 0..N /\ \A n \in 0..(N - 1) : n + 1 \in 0..N /\ n + 1 # 0 /\ (n + 1) - 1 = n
        BY <1>1
    <2>2. bins[0] = <<>>
        BY <1>11, <2>1, Zenon
    <2>3. ASSUME NEW n \in 0..(N - 1) PROVE bins[n + 1] = Placed(bins[n], measured[n + 1], weight)
        <3>1. bins[n + 1] = Placed(bins[(n + 1) - 1], measured[n + 1], weight)
            BY <1>11, <2>1, Zenon
        <3>2. (n + 1) - 1 = n
            BY <2>1
        <3> QED BY <3>1, <3>2, Zenon
    <2> QED BY <2>2, <2>3
<1> DEFINE first(n) == UNION {ToSet(measured[k]) : k \in 1..n}
           fit == \A k \in 1..N : Fits(measured[k], weight)
           T == {n \in 0..N : /\ bins[n] \in Seq(Pack) /\ Divides(bins[n], first(n))
                              /\ fit => AllFit(bins[n], weight)}
<1>13. 0 \in T
    <2>1. first(0) = {}
        <3>1. 1..0 = {}
            OBVIOUS
        <3> QED BY <3>1
    <2>2. <<>> \in Seq(Pack) /\ Len(<<>>) = 0
        BY EmptySeq
    <2>3. AllFit(<<>>, weight)
        BY <2>2 DEF AllFit
    <2> HIDE DEF first, fit
    <2>4. Divides(bins[0], first(0))
        BY <1>12, <2>1, DividesNone
    <2>5. bins[0] \in Seq(Pack) /\ AllFit(bins[0], weight)
        BY <1>12, <2>2, <2>3
    <2> QED BY <1>1, <2>4, <2>5
<1>14. ASSUME NEW n \in 0..(N - 1), n \in T PROVE n + 1 \in T
    <2> DEFINE u == measured[n + 1]
    <2>1. n + 1 \in 1..N /\ n + 1 \in 0..N /\ 1..(n + 1) = (1..n) \cup {n + 1}
          /\ \A k \in 1..n : k \in 1..N /\ k # n + 1
        <3> HIDE DEF T, step, X
        <3>1. n \in Nat /\ n + 1 \in 1..N /\ n + 1 \in 0..N
            BY <1>1
        <3>2. 1..(n + 1) = (1..n) \cup {n + 1}
            BY <3>1
        <3>3. \A k \in 1..n : k \in 1..N /\ k # n + 1
            BY <1>1, <3>1
        <3> QED BY <3>1, <3>2, <3>3
    <2>2. u \in Pack /\ Distinct(u) /\ u # <<>>
        BY <1>3, <1>4, <1>6, <2>1 DEF Divides
    <2>3. first(n) \cap ToSet(u) = {}
        BY <1>3, <1>4, <2>1 DEF Divides
    <2>4. first(n + 1) = first(n) \cup ToSet(u)
        BY <2>1
    <2> DEFINE F == first(n)
               q == Placed(bins[n], u, weight)
    <2>5. fit => Fits(u, weight)
        BY <2>1
    <2>6. bins[n] \in Seq(Pack) /\ Divides(bins[n], F) /\ (fit => AllFit(bins[n], weight))
        BY <1>14
    <2>7. bins[n + 1] = q
        BY <1>12
    <2> HIDE DEF u, F, fit, q
    <2>8. q \in Seq(Pack)
        BY <2>2, <2>6, PlacedFacts DEF q
    <2>9. Divides(q, F \cup ToSet(u))
        <3>1. F \cap ToSet(u) = {}
            BY <2>3 DEF F
        <3> QED BY <2>2, <2>6, <3>1, PlacedFacts DEF q
    <2>10. fit => AllFit(q, weight)
        BY <2>2, <2>5, <2>6, PlacedFacts DEF q, AllFit
    <2>11. Divides(q, first(n + 1))
        BY <2>4, <2>9 DEF F
    <2> HIDE DEF first
    <2> QED BY <2>1, <2>7, <2>8, <2>10, <2>11
<1>15. N \in T
    <2> HIDE DEF T
    <2>1. \A n \in 0..N : n \in T
        BY <1>1, <1>13, <1>14, Induction
    <2> QED BY <1>1, <2>1
<1>16. first(N) = S
    BY <1>3, <1>4 DEF Divides
<1>17. AllFit(units, weight) => fit
    <2> SUFFICES ASSUME AllFit(units, weight), NEW k \in 1..N PROVE Fits(measured[k], weight)
        OBVIOUS
    <2>1. Ranked(keys)[k] \in 1..N
        BY <1>2, RankedFacts
    <2> QED BY <1>3, <2>1 DEF AllFit, N
<1> HIDE DEF first, fit
<1> QED BY <1>5, <1>15, <1>16, <1>17 DEF res

(* The stages of a plan.                                                   *)
LEMMA StagesDivide ==
    ASSUME NEW candidates \in Pack, Distinct(candidates)
    PROVE  /\ Units(candidates) \in Seq(Pack)
           /\ Divides(Units(candidates), ToSet(candidates))
           /\ Bounds(Units(candidates), Estimated)
           /\ Verified(candidates) \in Seq(Pack)
           /\ Divides(Verified(candidates), ToSet(candidates))
           /\ Bounds(Verified(candidates), Counted)
<1>1. /\ Components(candidates) \in Seq(Pack)
      /\ Divides(Components(candidates), ToSet(candidates))
    BY DividedFacts DEF Components
<1>2. /\ Units(candidates) \in Seq(Pack)
      /\ Divides(Units(candidates), ToSet(candidates))
      /\ Bounds(Units(candidates), Estimated)
    BY <1>1, BoundedFacts DEF Units
<1>3. /\ Provisional(candidates) \in Seq(Pack)
      /\ Divides(Provisional(candidates), ToSet(candidates))
    BY <1>2, PackedFacts DEF Provisional
<1>4. /\ Verified(candidates) \in Seq(Pack)
      /\ Divides(Verified(candidates), ToSet(candidates))
      /\ Bounds(Verified(candidates), Counted)
    BY <1>3, BoundedFacts DEF Verified
<1> QED BY <1>2, <1>4

(* RepositoryPlanner.plan: every candidate is in one request of the plan,  *)
(* once, whatever is divided, joined and divided again on the way.         *)
THEOREM PlanDividesCandidates ==
    ASSUME NEW candidates \in Pack, Distinct(candidates)
    PROVE  Planned(candidates) \in Seq(Pack) /\ Divides(Planned(candidates), ToSet(candidates))
BY StagesDivide, PackedFacts DEF Planned

(* No request of a plan that was not refused is larger than the limits.    *)
THEOREM PlanWithinLimits ==
    ASSUME NEW candidates \in Pack, Distinct(candidates), ~TooLarge(candidates)
    PROVE  AllFit(Planned(candidates), Counted)
<1> DEFINE units == Verified(candidates)
<1>1. units \in Seq(Pack) /\ Divides(units, ToSet(candidates))
    BY StagesDivide
<1>2. ToSet(units) = {units[t] : t \in 1..Len(units)}
    BY <1>1, ToSetOfSeq
<1>3. \A unit \in ToSet(units) : Fits(unit, Counted)
    BY DEF TooLarge
<1> HIDE DEF units
<1>4. AllFit(units, Counted)
    BY <1>2, <1>3 DEF AllFit
<1> QED BY <1>1, <1>4, PackedFacts DEF Planned, units

(* One that is within the limits or alone, and is not within them.         *)
LEMMA TooLargeAlone ==
    ASSUME NEW S, NEW units \in Seq(Pack), Divides(units, S), NEW weight, Bounds(units, weight),
           NEW unit \in ToSet(units), ~Fits(unit, weight)
    PROVE  \E c \in S : ~Fits(<<c>>, weight)
<1>1. PICK t \in 1..Len(units) : unit = units[t]
    BY ToSetOfSeq
<1>2. unit \in Seq(Candidate) /\ Len(unit) = 1
    BY <1>1, ElementOfSeq DEF Bounds, Pack
<1>3. unit = <<unit[1]>>
    BY <1>2
<1>4. unit[1] \in ToSet(unit)
    <2>1. 1 \in 1..Len(unit)
        BY <1>2
    <2>2. ToSet(unit) = {unit[i] : i \in 1..Len(unit)}
        BY <1>2, ToSetOfSeq
    <2> QED BY <2>1, <2>2
<1>5. unit[1] \in S
    BY <1>1, <1>4 DEF Divides
<1>6. ~Fits(<<unit[1]>>, weight)
    BY <1>3
<1> QED BY <1>5, <1>6

(* A plan is only refused for a candidate that is too large for a request  *)
(* of its own.                                                             *)
THEOREM RefusedForOneCandidate ==
    ASSUME NEW candidates \in Pack, Distinct(candidates), TooLarge(candidates)
    PROVE  \E c \in ToSet(candidates) : \E weight \in {Estimated, Counted} : ~Fits(<<c>>, weight)
<1>1. CASE \E unit \in ToSet(Units(candidates)) : ~Fits(unit, Estimated)
    <2>1. \E c \in ToSet(candidates) : ~Fits(<<c>>, Estimated)
        BY <1>1, StagesDivide, TooLargeAlone
    <2> QED BY <2>1
<1>2. CASE \E unit \in ToSet(Verified(candidates)) : ~Fits(unit, Counted)
    <2>1. \E c \in ToSet(candidates) : ~Fits(<<c>>, Counted)
        BY <1>2, StagesDivide, TooLargeAlone
    <2> QED BY <2>1
<1> QED BY <1>1, <1>2 DEF TooLarge

--------------------------------------------------------------------------------
(* The candidates that are prepared, and what packs give a rule.           *)

Whole(n) == [p \in 1..n |-> p - 1]
Everything(counts) == UNION {{<<q, p>> : p \in 0..(counts[q] - 1)} : q \in Query}

(* Candidates of a rule come in the order of their positions.              *)
InOrder(s) == \A i, j \in 1..Len(s) : i < j /\ s[i][1] = s[j][1] => s[i][2] < s[j][2]

LEMMA InOrderDistinct ==
    ASSUME NEW s \in Pack, InOrder(s)
    PROVE  Distinct(s)
<1>1. Len(s) \in Nat /\ \A i \in 1..Len(s) : s[i] \in Candidate /\ s[i][2] \in Nat
    BY LenProperties, ElementOfSeq, PackPlannerAssumption DEF Pack
<1>2. ASSUME NEW i \in 1..Len(s), NEW j \in 1..Len(s), i < j PROVE s[i] # s[j]
    <2>1. s[i][1] = s[j][1] => s[i][2] < s[j][2]
        BY <1>2 DEF InOrder
    <2>2. s[i][2] \in Nat /\ s[j][2] \in Nat
        BY <1>1
    <2>3. s[i][2] < s[j][2] => s[i][2] # s[j][2]
        BY <2>2
    <2> QED BY <2>1, <2>3
<1>3. \A i, j \in 1..Len(s) : i = j \/ i < j \/ j < i
    BY <1>1
<1> QED BY <1>2, <1>3 DEF Distinct

LEMMA InOrderConcat ==
    ASSUME NEW a \in Pack, NEW b \in Pack, InOrder(a), InOrder(b),
           Rules(a) \cap Rules(b) = {}
    PROVE  InOrder(a \o b)
<1> DEFINE c == a \o b
           m == Len(a)
           n == Len(b)
<1>1. /\ Len(c) = m + n /\ m \in Nat /\ n \in Nat
      /\ \A t \in 1..m : c[t] = a[t]
      /\ \A t \in 1..n : c[m + t] = b[t]
    BY ConcatAt DEF Pack
<1>2. ToSet(a) = {a[t] : t \in 1..m} /\ ToSet(b) = {b[t] : t \in 1..n}
    BY ToSetOfSeq DEF Pack
<1>3. /\ \A t \in 1..m : a[t][1] \in Rules(a)
      /\ \A t \in 1..n : b[t][1] \in Rules(b)
    BY <1>2 DEF Rules
<1>4. /\ \A i, j \in 1..m : i < j /\ a[i][1] = a[j][1] => a[i][2] < a[j][2]
      /\ \A i, j \in 1..n : i < j /\ b[i][1] = b[j][1] => b[i][2] < b[j][2]
    BY DEF InOrder
<1> HIDE DEF c, m, n
<1>5. ASSUME NEW i \in 1..Len(c), NEW j \in 1..Len(c), i < j, c[i][1] = c[j][1]
      PROVE  c[i][2] < c[j][2]
    <2>1. CASE j <= m
        <3>1. i \in 1..m /\ j \in 1..m
            BY <1>1, <1>5, <2>1
        <3> QED BY <1>1, <1>4, <1>5, <3>1
    <2>2. CASE i > m
        <3>1. i - m \in 1..n /\ j - m \in 1..n /\ i - m < j - m /\ m + (i - m) = i /\ m + (j - m) = j
            BY <1>1, <1>5, <2>2
        <3>2. c[i] = b[i - m] /\ c[j] = b[j - m]
            BY <1>1, <3>1
        <3> QED BY <1>4, <1>5, <3>1, <3>2
    <2>3. CASE i <= m /\ j > m
        <3>1. i \in 1..m /\ j - m \in 1..n /\ m + (j - m) = j
            BY <1>1, <1>5, <2>3
        <3>2. c[i] = a[i] /\ c[j] = b[j - m]
            BY <1>1, <3>1
        <3>3. c[i][1] \in Rules(a) /\ c[j][1] \in Rules(b)
            BY <1>3, <3>1, <3>2
        <3> QED BY <1>5, <3>3
    <2> QED BY <1>1, <1>5, <2>1, <2>2, <2>3
<1> QED BY <1>5 DEF InOrder, c

(* Lists of one rule each, of different rules.                             *)
OneRuleEach(l) == \A t \in 1..Len(l) : InOrder(l[t]) /\ Rules(l[t]) \subseteq {t}

LEMMA FlattenInOrder ==
    ASSUME NEW l \in Seq(Pack), OneRuleEach(l)
    PROVE  FlattenSeq(l) \in Pack /\ InOrder(FlattenSeq(l))
<1> DEFINE T == {k \in Seq(Pack) : OneRuleEach(k) => InOrder(FlattenSeq(k))}
<1>1. <<>> \in T
    <2>1. InOrder(<<>>)
        BY DEF InOrder
    <2> QED BY <2>1, FlattenEmpty, EmptySeq
<1>2. ASSUME NEW k \in Seq(Pack), NEW e \in Pack, k \in T PROVE Append(k, e) \in T
    <2> DEFINE m == Append(k, e)
               n == Len(k)
    <2>1. m \in Seq(Pack) /\ Len(m) = n + 1 /\ n \in Nat /\ m[n + 1] = e /\ \A t \in 1..n : m[t] = k[t]
        BY AppendProperties, LenProperties
    <2> HIDE DEF m, n
    <2> SUFFICES ASSUME OneRuleEach(m) PROVE InOrder(FlattenSeq(m))
        BY <2>1 DEF m
    <2>2. n + 1 \in 1..(n + 1) /\ \A t \in 1..n : t \in 1..(n + 1) /\ t # n + 1
        BY <2>1
    <2>3. OneRuleEach(k) /\ InOrder(e) /\ Rules(e) \subseteq {n + 1}
        BY <2>1, <2>2 DEF OneRuleEach, n
    <2>4. FlattenSeq(m) = FlattenSeq(k) \o e
        BY FlattenAppend DEF m, Pack
    <2>5. FlattenSeq(k) \in Pack /\ ToSet(FlattenSeq(k)) = UNION {ToSet(p) : p \in ToSet(k)}
        BY FlattenFacts DEF Pack
    <2>6. ToSet(k) = {k[t] : t \in 1..n}
        <3> HIDE DEF T
        <3> QED BY ToSetOfSeq DEF n
    <2>7. Rules(FlattenSeq(k)) \cap Rules(e) = {}
        <3> SUFFICES ASSUME NEW c \in ToSet(FlattenSeq(k)), c[1] \in Rules(e) PROVE FALSE
            BY DEF Rules
        <3>1. PICK t \in 1..n : c \in ToSet(k[t])
            BY <2>5, <2>6
        <3>2. c[1] \in Rules(k[t]) /\ Rules(k[t]) \subseteq {t}
            BY <2>3, <3>1 DEF Rules, OneRuleEach, n
        <3> QED BY <2>2, <2>3, <3>1, <3>2
    <2>8. InOrder(FlattenSeq(k))
        BY <1>2, <2>3
    <2> HIDE DEF T
    <2> QED BY <2>3, <2>4, <2>5, <2>7, <2>8, InOrderConcat
<1>3. l \in T
    <2> HIDE DEF T
    <2>1. \A s \in Seq(Pack), e \in Pack : s \in T => Append(s, e) \in T
        BY <1>2
    <2>2. \A s \in Seq(Pack) : s \in T
        BY <1>1, <2>1, ListInduction
    <2> QED BY <2>2
<1>4. FlattenSeq(l) \in Pack
    BY FlattenFacts DEF Pack
<1> QED BY <1>3, <1>4

(* The candidates of all rules, in order.                                  *)
LEMMA CandidatesOfFacts ==
    ASSUME NEW counts \in Contents, NEW q \in Query
    PROVE  /\ CandidatesOf(counts, q) \in Pack /\ Len(CandidatesOf(counts, q)) = counts[q]
           /\ ToSet(CandidatesOf(counts, q)) = {<<q, p>> : p \in 0..(counts[q] - 1)}
           /\ InOrder(CandidatesOf(counts, q)) /\ Rules(CandidatesOf(counts, q)) \subseteq {q}
<1> DEFINE n == counts[q]
           s == CandidatesOf(counts, q)
<1>1. n \in Nat /\ \A p \in 0..(n - 1) : <<q, p>> \in Candidate
    BY ModelTurnsAssumption
<1>2. s = [p \in 1..n |-> <<q, p - 1>>]
    BY DEF CandidatesOf
<1> HIDE DEF n, s
<1>3. \A p \in 1..n : p - 1 \in 0..(n - 1) /\ s[p] = <<q, p - 1>>
    BY <1>1, <1>2
<1>4. \A p \in 1..n : s[p] \in Candidate /\ s[p][1] = q /\ s[p][2] = p - 1
    BY <1>1, <1>3
<1>5. s \in Pack /\ Len(s) = n
    BY <1>1, <1>2, <1>4 DEF Pack
<1>6. ToSet(s) = {s[p] : p \in 1..n}
    BY <1>5, ToSetOfSeq DEF Pack
<1>7. ToSet(s) = {<<q, p>> : p \in 0..(n - 1)}
    <2>1. ASSUME NEW p \in 0..(n - 1) PROVE <<q, p>> \in ToSet(s)
        <3>1. p + 1 \in 1..n /\ (p + 1) - 1 = p
            BY <1>1
        <3>2. s[p + 1] = <<q, p>>
            BY <1>3, <3>1
        <3> QED BY <1>6, <3>1, <3>2
    <2>2. ASSUME NEW p \in 1..n PROVE s[p] \in {<<q, r>> : r \in 0..(n - 1)}
        BY <1>3
    <2> QED BY <1>6, <2>1, <2>2
<1>8. InOrder(s)
    BY <1>1, <1>4, <1>5 DEF InOrder
<1>9. Rules(s) \subseteq {q}
    BY <1>4, <1>6 DEF Rules
<1> QED BY <1>5, <1>7, <1>8, <1>9 DEF n, s

LEMMA PreparedFacts ==
    ASSUME NEW counts \in Contents
    PROVE  /\ Prepared(counts) \in Pack /\ InOrder(Prepared(counts)) /\ Distinct(Prepared(counts))
           /\ ToSet(Prepared(counts)) = Everything(counts)
<1> DEFINE n == Cardinality(Query)
           l == [q \in Query |-> CandidatesOf(counts, q)]
<1>1. n \in Nat /\ Query = 1..n
    BY PackPlannerAssumption, FS_CardinalityType
<1> HIDE DEF n
<1>2. l \in Seq(Pack) /\ Len(l) = n /\ \A q \in 1..n : l[q] = CandidatesOf(counts, q)
    <2>1. \A q \in 1..n : CandidatesOf(counts, q) \in Pack
        BY <1>1, CandidatesOfFacts
    <2>2. l = [q \in 1..n |-> CandidatesOf(counts, q)]
        BY <1>1
    <2> QED BY <1>1, <2>1, <2>2
<1> HIDE DEF l
<1>3. OneRuleEach(l)
    BY <1>1, <1>2, CandidatesOfFacts DEF OneRuleEach
<1>4. FlattenSeq(l) \in Pack /\ InOrder(FlattenSeq(l))
    BY <1>2, <1>3, FlattenInOrder
<1>5. ToSet(FlattenSeq(l)) = UNION {ToSet(p) : p \in ToSet(l)} /\ ToSet(l) = {l[q] : q \in 1..n}
    BY <1>2, FlattenFacts, ToSetOfSeq DEF Pack
<1>6. \A q \in 1..n : ToSet(l[q]) = {<<q, p>> : p \in 0..(counts[q] - 1)}
    BY <1>1, <1>2, CandidatesOfFacts
<1>7. ToSet(FlattenSeq(l)) = Everything(counts)
    BY <1>1, <1>5, <1>6 DEF Everything
<1> QED BY <1>4, <1>7, InOrderDistinct DEF Prepared, l

(* What a rule is given by packs that hold all candidates once.            *)
LEMMA GivenFacts ==
    ASSUME NEW counts \in Contents, NEW q \in Query, NEW asks, NEW s \in Pack, s = FlattenSeq(asks),
           Distinct(s), ToSet(s) = Everything(counts)
    PROVE  /\ Given(asks, q) \in Seq(Nat) /\ Distinct(Given(asks, q))
           /\ ToSet(Given(asks, q)) = 0..(counts[q] - 1)
           /\ InOrder(s) => \A i, j \in 1..Len(Given(asks, q)) : i < j => Given(asks, q)[i] < Given(asks, q)[j]
<1> DEFINE mine == {c \in Candidate : c[1] = q}
           given == Among(s, mine)
           u == Given(asks, q)
           n == Len(given)
<1>1. /\ given \in Seq(Candidate \cap mine) /\ ToSet(given) = ToSet(s) \cap mine /\ Distinct(given)
      /\ \E at : Stood(s, Len(s), given, at)
    <2> HIDE DEF mine
    <2> QED BY AmongFacts, AmongDistinct DEF Pack
<1>2. PICK at : Stood(s, Len(s), given, at)
    BY <1>1
<1>3. u = [i \in DOMAIN given |-> given[i][2]]
    BY DEF Given
<1> HIDE DEF given, u
<1>4. n \in Nat /\ DOMAIN given = 1..n /\ \A i \in 1..n : given[i] \in Candidate \cap mine
    BY <1>1, LenProperties, ElementOfSeq
<1>5. ASSUME NEW i \in 1..n PROVE given[i][1] = q /\ given[i][2] \in Nat /\ given[i] = <<given[i][1], given[i][2]>>
    BY <1>4, PackPlannerAssumption
<1> HIDE DEF n
<1>6. u \in Seq(Nat) /\ Len(u) = n /\ \A i \in 1..n : u[i] = given[i][2]
    <2>1. u = [i \in 1..n |-> given[i][2]]
        BY <1>3, <1>4
    <2> QED BY <1>4, <1>5, <2>1 DEF n
<1>7. ToSet(u) = {u[i] : i \in 1..n}
    BY <1>6, ToSetOfSeq
<1>8. ToSet(given) = {given[i] : i \in 1..n}
    BY <1>1, ToSetOfSeq DEF n
<1>9. Distinct(u)
    <2> SUFFICES ASSUME NEW i \in 1..n, NEW j \in 1..n, u[i] = u[j] PROVE i = j
        BY <1>6 DEF Distinct
    <2>1. given[i] = given[j]
        BY <1>5, <1>6
    <2> QED BY <1>1, <2>1 DEF Distinct, n
<1>10. ASSUME NEW p \in 0..(counts[q] - 1) PROVE p \in ToSet(u)
    <2>1. <<q, p>> \in Everything(counts) /\ <<q, p>> \in mine
        BY ModelTurnsAssumption DEF Everything
    <2>2. <<q, p>> \in ToSet(given)
        BY <1>1, <2>1
    <2>3. PICK i \in 1..n : given[i] = <<q, p>>
        BY <1>8, <2>2
    <2>4. u[i] = p
        BY <1>6, <2>3
    <2> QED BY <1>7, <2>4
<1>11. ASSUME NEW i \in 1..n PROVE u[i] \in 0..(counts[q] - 1)
    <2>1. given[i] \in Everything(counts)
        BY <1>1, <1>8
    <2>2. PICK r \in Query : \E p \in 0..(counts[r] - 1) : given[i] = <<r, p>>
        BY <2>1 DEF Everything
    <2>3. PICK p \in 0..(counts[r] - 1) : given[i] = <<r, p>>
        BY <2>2
    <2>4. r = q /\ u[i] = p
        BY <1>5, <1>6, <2>3
    <2> QED BY <2>3, <2>4
<1>12. ToSet(u) = 0..(counts[q] - 1)
    BY <1>7, <1>10, <1>11
<1>13. ASSUME InOrder(s), NEW i \in 1..n, NEW j \in 1..n, i < j PROVE u[i] < u[j]
    <2>1. at[i] \in 1..Len(s) /\ at[j] \in 1..Len(s) /\ at[i] < at[j]
          /\ given[i] = s[at[i]] /\ given[j] = s[at[j]]
        BY <1>2, <1>13 DEF Stood, n
    <2>2. s[at[i]][1] = s[at[j]][1]
        BY <1>5, <2>1
    <2>3. s[at[i]][2] < s[at[j]][2]
        BY <1>13, <2>1, <2>2 DEF InOrder
    <2> QED BY <1>6, <2>1, <2>3
<1> QED BY <1>6, <1>9, <1>12, <1>13 DEF u

LEMMA SortedWhole ==
    ASSUME NEW n \in Nat, NEW u \in Seq(Nat), Distinct(u), ToSet(u) = 0..(n - 1)
    PROVE  Sorted(u) = Whole(n)
<1> DEFINE N == Len(u)
           R == Ranked(u)
           t == Sorted(u)
<1>1. u \in Seq(Int)
    BY SeqMonotonic
<1>2. /\ t \in Seq(Nat) /\ Len(t) = N /\ \A p \in 1..N : t[p] = u[R[p]]
      /\ ToSet(t) = ToSet(u) /\ Distinct(t)
    BY <1>1, SortedByFacts DEF Sorted
<1>3. \A p, q \in 1..N : p < q => u[R[p]] <= u[R[q]]
    BY <1>1, RankedFacts
<1>4. N \in Nat /\ \A p \in 1..N : t[p] \in Nat
    BY <1>2, LenProperties, ElementOfSeq
<1> HIDE DEF N, R, t
<1>5. ASSUME NEW p \in 1..Len(t), NEW q \in 1..Len(t), p < q PROVE t[p] < t[q]
    <2>1. t[p] <= t[q]
        BY <1>2, <1>3, <1>5
    <2>2. p # q
        BY <1>2, <1>4, <1>5
    <2>3. t[p] # t[q]
        BY <1>2, <2>2 DEF Distinct
    <2> QED BY <1>2, <1>4, <2>1, <2>3
<1>6. t = [p \in 1..n |-> p - 1]
    BY <1>2, <1>5, IncreasingWhole
<1> QED BY <1>6 DEF Whole, t

--------------------------------------------------------------------------------
(* Cutting a list into batches and joining them again.                     *)

(* Where batch b of a list of a length ends.                               *)
EndOf(size, b) == IF b * BatchSize < size THEN b * BatchSize ELSE size
Count(size) == (size + BatchSize - 1) \div BatchSize
Piece(s, b) == SubSeq(s, (b - 1) * BatchSize + 1, EndOf(Len(s), b))
Cuts(s, n) == [b \in 1..n |-> Piece(s, b)]

LEMMA OneMore ==
    ASSUME NEW X, NEW n \in Nat, NEW p \in [1..(n + 1) -> X], NEW f, f = [b \in 1..n |-> p[b]]
    PROVE  f \in Seq(X) /\ p = Append(f, p[n + 1])
<1>1. f \in Seq(X) /\ Len(f) = n
    OBVIOUS
<1>2. p \in Seq(X) /\ Len(p) = n + 1 /\ p[n + 1] \in X
    OBVIOUS
<1> DEFINE t == Append(f, p[n + 1])
<1>3. /\ t \in Seq(X) /\ Len(t) = n + 1 /\ t[n + 1] = p[n + 1]
      /\ \A b \in 1..n : t[b] = f[b]
    BY <1>1, <1>2, AppendProperties
<1> HIDE DEF t
<1>4. ASSUME NEW b \in 1..(n + 1) PROVE p[b] = t[b]
    <2>1. CASE b = n + 1
        BY <1>3, <2>1
    <2>2. CASE b # n + 1
        BY <1>3, <2>2
    <2> QED BY <2>1, <2>2
<1>5. p = t
    BY <1>2, <1>3, <1>4, SeqEqual
<1> QED BY <1>1, <1>5 DEF t

LEMMA LessTimes ==
    ASSUME NEW a \in Nat, NEW b \in Nat, NEW c \in Nat, a <= b
    PROVE  a * c <= b * c
<1>1. PICK k \in Nat : b = a + k
    <2>1. b - a \in Nat
        OBVIOUS
    <2> QED BY <2>1
<1>2. b * c = a * c + k * c /\ k * c \in Nat /\ a * c \in Nat
    BY <1>1
<1> QED BY <1>2

(* Every batch begins inside the list, and the last one ends it.           *)
LEMMA BatchesCover ==
    ASSUME NEW size \in Nat
    PROVE  /\ Count(size) \in Nat
           /\ \A n \in Nat : n < Count(size) => n * BatchSize < size
           /\ size <= Count(size) * BatchSize
<1> DEFINE B == BatchSize
           a == size + B - 1
           k == a \div B
           r == a % B
<1>1. B \in Nat \ {0} /\ a \in Nat
    BY ModelTurnsAssumption
<1>2. k \in Nat /\ r \in 0..(B - 1) /\ a = B * k + r
    BY <1>1, Division
<1>3. Count(size) = k /\ a = size + B - 1
    BY DEF Count
<1> HIDE DEF k, r, a
<1>4. k * B = B * k /\ k * B \in Nat
    BY <1>1, <1>2
<1>5. ASSUME NEW n \in Nat, n < k PROVE n * B < size
    <2>1. n + 1 <= k /\ n + 1 \in Nat
        BY <1>2, <1>5
    <2>2. (n + 1) * B <= k * B
        BY <1>1, <1>2, <2>1, LessTimes
    <2>3. (n + 1) * B = n * B + B /\ n * B \in Nat
        BY <1>1
    <2> QED BY <1>1, <1>2, <1>3, <1>4, <2>2, <2>3
<1>6. size <= k * B
    BY <1>1, <1>2, <1>3, <1>4
<1> QED BY <1>2, <1>3, <1>5, <1>6

LEMMA JoinedPieces ==
    ASSUME NEW X, NEW s \in Seq(X), NEW m \in 0..Len(s), NEW n \in m..Len(s)
    PROVE  SubSeq(s, 1, m) \o SubSeq(s, m + 1, n) = SubSeq(s, 1, n)
<1> DEFINE u == SubSeq(s, 1, m)
           v == SubSeq(s, m + 1, n)
           w == SubSeq(s, 1, n)
<1>1. Len(s) \in Nat
    BY LenProperties
<1>2. u \in Seq(X) /\ v \in Seq(X) /\ w \in Seq(X)
    BY <1>1, SubSeqProperties
<1>3. Len(u) = m /\ \A i \in 1..m : u[i] = s[i]
    BY <1>1, SubSeqProperties
<1>4. Len(v) = n - m /\ \A i \in 1..(n - m) : v[i] = s[m + i]
    BY <1>1, SubSeqProperties
<1>5. Len(w) = n /\ \A i \in 1..n : w[i] = s[i]
    BY <1>1, SubSeqProperties
<1> HIDE DEF u, v, w
<1>6. /\ u \o v \in Seq(X) /\ Len(u \o v) = Len(u) + Len(v)
      /\ \A i \in 1..(Len(u) + Len(v)) : (u \o v)[i] = IF i <= Len(u) THEN u[i] ELSE v[i - Len(u)]
    BY <1>2, ConcatProperties
<1>7. Len(u \o v) = Len(w)
    BY <1>1, <1>3, <1>4, <1>5, <1>6
<1>8. ASSUME NEW i \in 1..Len(w) PROVE (u \o v)[i] = w[i]
    <2>1. (u \o v)[i] = IF i <= m THEN u[i] ELSE v[i - m]
        BY <1>1, <1>3, <1>4, <1>5, <1>6
    <2>2. CASE i <= m
        BY <1>1, <1>3, <1>5, <2>1, <2>2
    <2>3. CASE m < i
        <3>1. i - m \in 1..(n - m) /\ m + (i - m) = i
            BY <1>1, <1>5, <2>3
        <3> QED BY <1>1, <1>4, <1>5, <2>1, <2>3, <3>1
    <2>4. i \in Nat /\ m \in Nat
        BY <1>1, <1>5
    <2>5. i <= m \/ m < i
        BY <2>4
    <2> QED BY <2>2, <2>3, <2>5, Zenon
<1>9. u \o v = w
    BY <1>2, <1>6, <1>7, <1>8, SeqEqual
<1> QED BY <1>9 DEF u, v, w

LEMMA CutsGrow ==
    ASSUME NEW X, NEW s, NEW n \in Nat, Cuts(s, n) \in Seq(X), Piece(s, n + 1) \in X
    PROVE  Cuts(s, n + 1) = Append(Cuts(s, n), Piece(s, n + 1))
<1> DEFINE f == Cuts(s, n)
           g == Cuts(s, n + 1)
<1>1. Len(f) = n /\ DOMAIN g = 1..(n + 1) /\ g = [b \in 1..(n + 1) |-> g[b]]
    BY DEF Cuts
<1>2. \A b \in 1..n : f[b] \in X
    BY <1>1, ElementOfSeq
<1>3. \A b \in 1..n : g[b] = f[b]
    BY DEF Cuts
<1>4. g[n + 1] = Piece(s, n + 1)
    BY DEF Cuts
<1>5. f = [b \in 1..n |-> g[b]]
    BY DEF Cuts
<1> HIDE DEF f, g
<1>6. ASSUME NEW b \in 1..(n + 1) PROVE g[b] \in X
    <2>1. CASE b = n + 1
        BY <1>4, <2>1
    <2>2. CASE b # n + 1
        BY <1>2, <1>3, <2>2
    <2> QED BY <2>1, <2>2
<1>7. g \in [1..(n + 1) -> X]
    BY <1>1, <1>6
<1>8. g = Append(f, g[n + 1])
    BY <1>5, <1>7, OneMore
<1> QED BY <1>4, <1>8 DEF f, g

LEMMA CutsJoin ==
    ASSUME NEW X, NEW s \in Seq(X)
    PROVE  /\ Cuts(s, Count(Len(s))) \in Seq(Seq(X))
           /\ FlattenSeq(Cuts(s, Count(Len(s)))) = s
<1> DEFINE size == Len(s)
           k == Count(size)
           T == {n \in 0..k : /\ Cuts(s, n) \in Seq(Seq(X))
                              /\ FlattenSeq(Cuts(s, n)) = SubSeq(s, 1, EndOf(size, n))}
<1>1. size \in Nat /\ k \in Nat /\ BatchSize \in Nat \ {0}
    BY LenProperties, BatchesCover, ModelTurnsAssumption
<1>2. /\ \A n \in Nat : n < k => n * BatchSize < size
      /\ size <= k * BatchSize
    BY <1>1, BatchesCover
<1> HIDE DEF k
<1>3. 0 \in T
    <2>1. Cuts(s, 0) = <<>>
        BY DEF Cuts
    <2>2. EndOf(size, 0) = 0
        BY <1>1 DEF EndOf
    <2>3. SubSeq(s, 1, 0) = <<>> /\ <<>> \in Seq(Seq(X))
        BY SubSeqEmpty, EmptySeq
    <2>4. Cuts(s, 0) \in Seq(Seq(X)) /\ FlattenSeq(Cuts(s, 0)) = SubSeq(s, 1, EndOf(size, 0))
        BY <2>1, <2>2, <2>3, FlattenEmpty
    <2> HIDE DEF size
    <2> QED BY <1>1, <2>4
<1>4. ASSUME NEW n \in 0..(k - 1), n \in T PROVE n + 1 \in T
    <2> DEFINE m == EndOf(size, n)
               e == EndOf(size, n + 1)
               piece == SubSeq(s, n * BatchSize + 1, e)
    <2>1. n \in Nat /\ n + 1 \in 0..k /\ n < k
        BY <1>1
    <2>2. n * BatchSize < size /\ n * BatchSize \in Nat
        BY <1>1, <1>2, <2>1
    <2>3. m = n * BatchSize
        BY <2>2 DEF EndOf
    <2>4. (n + 1) * BatchSize = n * BatchSize + BatchSize
        BY <1>1, <2>1
    <2>5. m \in 0..size /\ e \in m..size
        BY <1>1, <2>2, <2>3, <2>4 DEF EndOf
    <2> HIDE DEF e, size
    <2>6. piece \in Seq(X)
        <3> HIDE DEF m
        <3>1. SubSeq(s, m + 1, e) \in Seq(X)
            BY <1>1, <2>5, SubSeqProperties DEF size
        <3> QED BY <2>3, <3>1
    <2>7. Cuts(s, n + 1) = Append(Cuts(s, n), piece)
        <3>1. (n + 1) - 1 = n
            BY <2>1
        <3>2. Piece(s, n + 1) = piece
            BY <3>1 DEF Piece, e, size
        <3> HIDE DEF piece, T
        <3>3. Cuts(s, n) \in Seq(Seq(X))
            BY <1>4 DEF T
        <3>4. Cuts(s, n + 1) = Append(Cuts(s, n), Piece(s, n + 1))
            BY <2>1, <2>6, <3>2, <3>3, CutsGrow
        <3> QED BY <3>2, <3>4
    <2>8. FlattenSeq(Append(Cuts(s, n), piece)) = FlattenSeq(Cuts(s, n)) \o piece
        BY <1>4, <2>6, FlattenAppend
    <2>9. Append(Cuts(s, n), piece) \in Seq(Seq(X))
        BY <1>4, <2>6, AppendProperties
    <2>10. SubSeq(s, 1, m) \o SubSeq(s, m + 1, e) = SubSeq(s, 1, e)
        <3> HIDE DEF m
        <3> QED BY <2>5, JoinedPieces DEF size
    <2>11. FlattenSeq(Cuts(s, n + 1)) = SubSeq(s, 1, e)
        BY <1>4, <2>3, <2>7, <2>8, <2>10
    <2> QED BY <2>1, <2>7, <2>9, <2>11 DEF e
<1> HIDE DEF T
<1>5. k \in T
    <2>1. \A n \in 0..k : n \in T
        BY <1>1, <1>3, <1>4, Induction
    <2> QED BY <1>1, <2>1
<1>6. EndOf(size, k) = size
    BY <1>1, <1>2 DEF EndOf
<1>7. SubSeq(s, 1, size) = s
    BY SubSeqFull
<1> QED BY <1>5, <1>6, <1>7 DEF T, k

LEMMA BatchesJoin ==
    ASSUME NEW list \in Pack
    PROVE  Batches(list) \in Seq(Pack) /\ FlattenSeq(Batches(list)) = list
<1>1. Batches(list) = Cuts(list, Count(Len(list)))
    BY DEF Batches, Cuts, Piece, EndOf, Count
<1> QED BY <1>1, CutsJoin DEF Pack

(* The batches of all rules are their candidates, in order.                *)
LEMMA BatchesKeepCandidates ==
    ASSUME NEW counts \in Contents, NEW list,
           list = FlattenSeq([q \in Query |-> Batches(CandidatesOf(counts, q))])
    PROVE  list \in Seq(Pack) /\ FlattenSeq(list) = Prepared(counts)
<1> DEFINE n == Cardinality(Query)
           pss == [q \in Query |-> Batches(CandidatesOf(counts, q))]
           t == [q \in Query |-> CandidatesOf(counts, q)]
<1>1. n \in Nat /\ Query = 1..n
    BY PackPlannerAssumption, FS_CardinalityType
<1> HIDE DEF n
<1>2. ASSUME NEW q \in 1..n
      PROVE  /\ CandidatesOf(counts, q) \in Pack /\ Batches(CandidatesOf(counts, q)) \in Seq(Pack)
             /\ FlattenSeq(Batches(CandidatesOf(counts, q))) = CandidatesOf(counts, q)
    BY <1>1, CandidatesOfFacts, BatchesJoin
<1>3. /\ pss = [q \in 1..n |-> Batches(CandidatesOf(counts, q))]
      /\ t = [q \in 1..n |-> CandidatesOf(counts, q)]
    BY <1>1
<1> HIDE DEF pss, t
<1>4. /\ pss \in Seq(Seq(Pack)) /\ Len(pss) = n
      /\ \A q \in 1..n : pss[q] = Batches(CandidatesOf(counts, q))
    BY <1>1, <1>2, <1>3
<1>5. t \in Seq(Pack) /\ DOMAIN t = 1..n /\ \A q \in 1..n : t[q] = CandidatesOf(counts, q)
    BY <1>1, <1>2, <1>3
<1>6. \A q \in 1..Len(pss) : t[q] = FlattenSeq(pss[q])
    BY <1>2, <1>4, <1>5
<1>7. FlattenSeq(FlattenSeq(pss)) = FlattenSeq(t)
    <2>1. pss \in Seq(Seq(Seq(Candidate))) /\ t \in Seq(Seq(Candidate)) /\ DOMAIN t = 1..Len(pss)
        BY <1>4, <1>5 DEF Pack
    <2> QED BY <1>6, <2>1, FlattenTwice
<1>8. FlattenSeq(pss) \in Seq(Pack)
    BY <1>4, FlattenFacts
<1> QED BY <1>7, <1>8 DEF Prepared, pss, t

--------------------------------------------------------------------------------
(* What was prepared for every rule, and when its answers are assembled.   *)

KeptInv ==
    /\ packs \in Seq(Pack)
    /\ DOMAIN turns = DOMAIN packs
    /\ rows \in Contents
    /\ ToSet(FlattenSeq(packs)) = Everything(rows)
    /\ \A q \in Query : Restored(q) = Whole(rows[q])
    /\ PlanFits

AssembledInv ==
    /\ phase # "lost"
    /\ phase = "answered" =>
          /\ Over = DOMAIN turns
          /\ IF grouped THEN Unusable = {} ELSE \A q \in Query : ~Unanswered(q)

LEMMA WholeHasAll ==
    ASSUME NEW n \in Nat
    PROVE  Len(Whole(n)) = n
BY DEF Whole

LEMMA KeptInit == Init => KeptInv
<1> SUFFICES ASSUME Init PROVE KeptInv
    OBVIOUS
<1> DEFINE all == Prepared(rows)
<1>1. rows \in Contents /\ DOMAIN turns = DOMAIN packs /\ \A q \in Query : rows[q] \in Nat
    BY ModelTurnsAssumption DEF Init
<1>2. grouped = (router /\ ~TooLarge(all)) /\ router \in BOOLEAN
    BY DEF Init
<1>3. all \in Pack /\ InOrder(all) /\ Distinct(all) /\ ToSet(all) = Everything(rows)
    BY <1>1, PreparedFacts
<1>4. CASE grouped
    <2>1. packs = Planned(all) /\ ~TooLarge(all)
        BY <1>2, <1>4 DEF Init
    <2> HIDE DEF all
    <2>2. packs \in Seq(Pack) /\ Divides(packs, Everything(rows))
        BY <1>3, <2>1, PlanDividesCandidates
    <2> DEFINE s == FlattenSeq(packs)
    <2>3. s \in Pack /\ Distinct(s) /\ ToSet(s) = Everything(rows)
        BY <2>2, FlattenDivides DEF Pack
    <2> HIDE DEF s
    <2>4. ASSUME NEW q \in Query PROVE Restored(q) = Whole(rows[q])
        <3> DEFINE u == Given(packs, q)
        <3>1. u \in Seq(Nat) /\ Distinct(u) /\ ToSet(u) = 0..(rows[q] - 1)
            BY <1>1, <2>3, GivenFacts DEF s
        <3> HIDE DEF u
        <3>2. Sorted(u) = Whole(rows[q])
            BY <1>1, <3>1, SortedWhole
        <3> QED BY <1>4, <3>2 DEF Restored, Positions, u
    <2>5. AllFit(packs, Counted)
        BY <1>3, <2>1, PlanWithinLimits
    <2>6. PlanFits
        <3>1. DOMAIN packs = 1..Len(packs)
            BY <2>2
        <3> QED BY <1>4, <2>5, <3>1 DEF PlanFits, AllFit
    <2> QED BY <1>1, <2>2, <2>3, <2>4, <2>6 DEF KeptInv, s
<1>5. CASE ~grouped
    <2>1. packs = FlattenSeq([q \in Query |-> Batches(CandidatesOf(rows, q))])
        BY <1>5 DEF Init
    <2>2. packs \in Seq(Pack) /\ FlattenSeq(packs) = all
        BY <1>1, <2>1, BatchesKeepCandidates
    <2> HIDE DEF all
    <2>3. ASSUME NEW q \in Query PROVE Restored(q) = Whole(rows[q])
        <3> DEFINE u == Given(packs, q)
        <3>1. /\ u \in Seq(Nat) /\ ToSet(u) = 0..(rows[q] - 1)
              /\ \A i, j \in 1..Len(u) : i < j => u[i] < u[j]
            BY <1>1, <1>3, <2>2, GivenFacts
        <3> HIDE DEF u
        <3>2. u = [p \in 1..rows[q] |-> p - 1]
            BY <1>1, <3>1, IncreasingWhole
        <3> QED BY <1>5, <3>2 DEF Restored, Positions, Whole, u
    <2>4. router => \E c \in ToSet(all) : \E weight \in {Estimated, Counted} : ~Fits(<<c>>, weight)
        BY <1>2, <1>3, <1>5, RefusedForOneCandidate
    <2>5. PlanFits
        BY <1>5, <2>4 DEF PlanFits, all
    <2> QED BY <1>1, <1>3, <2>2, <2>3, <2>5 DEF KeptInv
<1>6. grouped \in BOOLEAN
    BY <1>2
<1> QED BY <1>4, <1>5

--------------------------------------------------------------------------------
(* What is in flight, and what has been sent before a pack is back.        *)

Status == {"later", "waiting", "asked", "again", "answered", "unusable", "failed"}

TurnsInv ==
    /\ grouped \in BOOLEAN
    /\ requests \in Nat
    /\ turns \in [DOMAIN packs -> Status]

(* No more turns are in flight than there are workers.                     *)
TurnsBounded == IsFiniteSet(Holding) /\ Cardinality(Holding) <= Workers

(* The phase of the first pack has a first pack.                           *)
FirstInv == phase = "first" => 1 \in DOMAIN turns

NoAnswer == \A t \in DOMAIN turns : turns[t] \notin {"answered", "unusable"}

(* Until a pack has come back only the first was asked, and its state says *)
(* how often.                                                              *)
AloneInv ==
    grouped /\ NoAnswer =>
        /\ \A t \in DOMAIN turns : t # 1 => turns[t] \in {"later", "failed"}
        /\ requests <= 2
        /\ 1 \in DOMAIN turns /\ turns[1] = "waiting" => requests = 0
        /\ 1 \in DOMAIN turns /\ turns[1] = "asked" => requests <= 1

Inv == TurnsInv /\ TurnsBounded /\ FirstInv /\ AloneInv

--------------------------------------------------------------------------------
LEMMA InitInv == Init => Inv
<1> SUFFICES ASSUME Init PROVE Inv
    OBVIOUS
<1> USE DEF Init
<1>1. TurnsInv
    BY DEF TurnsInv, Status
<1>2. TurnsBounded
    <2>1. Holding = {}
        BY DEF Holding, Inflight
    <2> QED BY <2>1, FS_EmptySet, ModelTurnsAssumption DEF TurnsBounded
<1>3. packs \in Seq(Pack)
    BY KeptInit DEF KeptInv
<1>4. FirstInv
    <2> SUFFICES ASSUME phase = "first" PROVE 1 \in DOMAIN packs
        BY <1>1 DEF FirstInv, TurnsInv
    <2>1. grouped /\ packs # <<>>
        BY DEF FirstPhase
    <2> QED BY <1>3, <2>1, EmptySeq, LenProperties
<1>5. AloneInv
    <2>1. CASE phase = "first"
        <3>1. \A t \in DOMAIN packs : t # 1 => t > 1
            BY <1>3, <2>1, LenProperties DEF FirstPhase
        <3> QED BY <2>1, <3>1 DEF AloneInv
    <2>2. CASE phase # "first" /\ grouped
        <3>1. packs = <<>>
            BY <2>2 DEF FirstPhase
        <3>2. DOMAIN turns = {}
            BY <3>1
        <3> QED BY <3>2 DEF AloneInv
    <2> QED BY <2>1, <2>2 DEF AloneInv
<1> QED BY <1>1, <1>2, <1>4, <1>5 DEF Inv

(* One coroutine moves and stays in, or leaves, the semaphore.             *)
LEMMA StaysBounded ==
    ASSUME TurnsBounded, Holding' \subseteq Holding
    PROVE  TurnsBounded'
<1>1. IsFiniteSet(Holding') /\ Cardinality(Holding') <= Cardinality(Holding)
    BY FS_Subset DEF TurnsBounded
<1>2. Cardinality(Holding) \in Nat /\ Cardinality(Holding') \in Nat
    BY <1>1, FS_CardinalityType DEF TurnsBounded
<1> QED BY <1>1, <1>2, ModelTurnsAssumption DEF TurnsBounded

LEMMA AskInv ==
    ASSUME Inv, NEW t \in DOMAIN turns, Ask(t)
    PROVE  Inv'
<1> USE DEF Ask, Goes, asked
<1>1. TurnsInv'
    BY DEF Inv, TurnsInv, Status
<1>2. TurnsBounded'
    <2>1. Holding' = Holding \cup {t} /\ t \notin Holding
        BY DEF Inv, TurnsInv, Holding, Inflight
    <2>2. IsFiniteSet(Holding') /\ Cardinality(Holding') = Cardinality(Holding) + 1
        BY <2>1, FS_AddElement DEF Inv, TurnsBounded
    <2>3. Cardinality(Holding) \in Nat
        BY FS_CardinalityType DEF Inv, TurnsBounded
    <2> QED BY <2>2, <2>3, ModelTurnsAssumption DEF TurnsBounded
<1>3. FirstInv'
    BY DEF Inv, TurnsInv, FirstInv
<1>4. AloneInv'
    <2> SUFFICES ASSUME grouped, NoAnswer' PROVE AloneInv'
        BY DEF AloneInv
    <2>1. NoAnswer
        BY DEF Inv, TurnsInv, NoAnswer
    <2>2. t = 1
        BY <2>1 DEF Inv, AloneInv
    <2> QED BY <2>1, <2>2 DEF Inv, TurnsInv, AloneInv
<1> QED BY <1>1, <1>2, <1>3, <1>4 DEF Inv

LEMMA RetryInv ==
    ASSUME Inv, NEW t \in DOMAIN turns, Retry(t)
    PROVE  Inv'
<1> USE DEF Retry, Goes, asked
<1>1. TurnsInv'
    BY DEF Inv, TurnsInv, Status
<1>2. TurnsBounded'
    BY StaysBounded DEF Inv, TurnsInv, Holding, Inflight
<1>3. FirstInv'
    BY DEF Inv, TurnsInv, FirstInv
<1>4. AloneInv'
    <2> SUFFICES ASSUME grouped, NoAnswer' PROVE AloneInv'
        BY DEF AloneInv
    <2>1. NoAnswer
        BY DEF Inv, TurnsInv, NoAnswer
    <2>2. t = 1
        BY <2>1 DEF Inv, AloneInv
    <2> QED BY <2>1, <2>2 DEF Inv, TurnsInv, AloneInv
<1> QED BY <1>1, <1>2, <1>3, <1>4 DEF Inv

(* An answer, a failure and a cancellation send nothing and end turns.     *)
LEMMA EndingInv ==
    ASSUME Inv, UNCHANGED <<asked, requests, phase>>,
           turns' \in [DOMAIN packs -> Status],
           \A t \in DOMAIN turns :
               \/ turns'[t] = turns[t]
               \/ turns'[t] \in {"answered", "unusable", "failed"} /\ turns[t] \in Status \ {"answered", "unusable"}
    PROVE  Inv'
<1>1. TurnsInv'
    BY DEF Inv, TurnsInv, asked
<1>2. TurnsBounded'
    BY StaysBounded DEF Inv, TurnsInv, Holding, Inflight
<1>3. FirstInv'
    BY DEF Inv, TurnsInv, FirstInv
<1>4. AloneInv'
    <2> SUFFICES ASSUME grouped, NoAnswer' PROVE AloneInv'
        BY DEF AloneInv, asked
    <2>1. NoAnswer
        BY DEF Inv, TurnsInv, NoAnswer
    <2> QED BY <2>1 DEF Inv, TurnsInv, AloneInv, NoAnswer
<1> QED BY <1>1, <1>2, <1>3, <1>4 DEF Inv

LEMMA AskTheRestInv == ASSUME Inv, AskTheRest PROVE Inv'
<1> USE DEF AskTheRest, asked
<1>1. TurnsInv'
    BY DEF Inv, TurnsInv, Status
<1>2. TurnsBounded'
    BY StaysBounded DEF Inv, TurnsInv, Holding, Inflight
<1>3. FirstInv'
    BY DEF FirstInv
<1>4. AloneInv'
    <2>1. 1 \in DOMAIN turns' /\ turns'[1] = "answered"
        BY DEF Inv, TurnsInv, FirstInv
    <2> QED BY <2>1 DEF AloneInv, NoAnswer
<1> QED BY <1>1, <1>2, <1>3, <1>4 DEF Inv

LEMMA NextInv == Inv /\ [Next]_vars => Inv'
<1> SUFFICES ASSUME Inv, [Next]_vars PROVE Inv'
    OBVIOUS
<1>1. CASE \E t \in DOMAIN turns : Turn(t)
    <2> PICK t \in DOMAIN turns : Turn(t)
        BY <1>1
    <2>1. CASE Ask(t) \/ Retry(t)
        BY <2>1, AskInv, RetryInv
    <2>2. CASE Answered(t) \/ Failed(t)
        <3>1. UNCHANGED <<asked, requests, phase>>
            BY <2>2 DEF Answered, Failed, Goes
        <3>2. turns' \in [DOMAIN packs -> Status]
            BY <2>2 DEF Answered, Failed, Goes, Inv, TurnsInv, Status
        <3>3. \A u \in DOMAIN turns :
                  \/ turns'[u] = turns[u]
                  \/ turns'[u] \in {"answered", "unusable", "failed"} /\ turns[u] \in Status \ {"answered", "unusable"}
            BY <2>2 DEF Answered, Failed, Goes, Inv, TurnsInv, Status, Inflight
        <3> QED BY <3>1, <3>2, <3>3, EndingInv
    <2> QED BY <2>1, <2>2 DEF Turn
<1>2. CASE Raise
    BY <1>2 DEF Raise, asked, Inv, TurnsInv, TurnsBounded, Holding, FirstInv, AloneInv, NoAnswer
<1>3. CASE Cancel
    <2>1. UNCHANGED <<asked, requests, phase>>
        BY <1>3 DEF Cancel
    <2>2. turns' \in [DOMAIN packs -> Status]
        BY <1>3 DEF Cancel, Over, Inv, TurnsInv, Status
    <2>3. \A u \in DOMAIN turns :
              \/ turns'[u] = turns[u]
              \/ turns'[u] \in {"answered", "unusable", "failed"} /\ turns[u] \in Status \ {"answered", "unusable"}
        BY <1>3 DEF Cancel, Over, Inv, TurnsInv
    <2> QED BY <2>1, <2>2, <2>3, EndingInv
<1>4. CASE AskTheRest
    BY <1>4, AskTheRestInv
<1>5. CASE Assemble
    <2>1. phase' # "first" /\ UNCHANGED <<asked, turns, requests>>
        BY <1>5 DEF Assemble
    <2> QED BY <2>1 DEF asked, Inv, TurnsInv, TurnsBounded, Holding, FirstInv, AloneInv, NoAnswer
<1>6. CASE UNCHANGED vars
    BY <1>6 DEF vars, asked, Inv, TurnsInv, TurnsBounded, Holding, FirstInv, AloneInv, NoAnswer
<1> QED BY <1>1, <1>2, <1>3, <1>4, <1>5, <1>6 DEF Next

--------------------------------------------------------------------------------
(* The inductive invariant: what is in flight, and what has been sent      *)
(* before the first pack is back.                                          *)
THEOREM TurnsInvariant == Spec => []Inv
<1> QED BY InitInv, NextInv, PTL DEF Spec

(* BatchedBackend.limiter: at no time are more turns in flight than there  *)
(* are workers, whatever fails or is left behind.                          *)
THEOREM WorkersBoundTurns == Spec => []TurnsBounded
<1>1. Inv => TurnsBounded
    BY DEF Inv
<1> QED BY <1>1, TurnsInvariant, PTL

(* OpenRouterBackend._planned: a service that answers nothing is sent one  *)
(* pack, at most twice.                                                    *)
THEOREM OneRequestToTheUnavailable == Spec => []UnavailableIsAskedOnce
<1>1. Inv => UnavailableIsAskedOnce
    BY DEF Inv, AloneInv, NoAnswer, UnavailableIsAskedOnce
<1> QED BY <1>1, TurnsInvariant, PTL

--------------------------------------------------------------------------------
LEMMA KeptNext == TurnsInv /\ KeptInv /\ [Next]_vars => KeptInv'
<1> SUFFICES ASSUME TurnsInv, KeptInv, [Next]_vars PROVE KeptInv'
    OBVIOUS
<1>1. UNCHANGED asked /\ DOMAIN turns' = DOMAIN turns
    BY DEF TurnsInv, Next, Turn, Ask, Retry, Answered, Failed, Goes, Raise, Cancel, AskTheRest,
           Assemble, vars
<1> QED BY <1>1 DEF asked, KeptInv, Restored, Positions, PlanFits

(* Answers are only put together when no turn is open, and no more are     *)
(* asked for then.                                                         *)
LEMMA AssembledNext == KeptInv /\ AssembledInv /\ [Next]_vars => AssembledInv'
<1> SUFFICES ASSUME KeptInv, AssembledInv, [Next]_vars PROVE AssembledInv'
    OBVIOUS
<1>1. CASE \E t \in DOMAIN turns : Turn(t)
    <2>1. PICK t \in DOMAIN turns : Turn(t)
        BY <1>1
    <2>2. t \notin Over
        BY <2>1 DEF Turn, Ask, Retry, Answered, Failed, Inflight, Over
    <2>3. UNCHANGED phase
        BY <2>1 DEF Turn, Ask, Retry, Answered, Failed, Goes
    <2> QED BY <2>1, <2>2, <2>3 DEF AssembledInv
<1>2. CASE Raise \/ Cancel \/ AskTheRest
    BY <1>2 DEF Raise, Cancel, AskTheRest, AssembledInv
<1>3. CASE Assemble
    <2>1. \A q \in Query : Len(Restored(q)) = rows[q] /\ Restored(q) = [p \in 1..rows[q] |-> p - 1]
        <3>1. \A q \in Query : rows[q] \in Nat
            BY ModelTurnsAssumption DEF KeptInv
        <3> QED BY <3>1, WholeHasAll DEF KeptInv, Whole
    <2>2. \A q \in Query : ~Lost(q)
        BY <2>1 DEF Lost
    <2>3. phase' = "answered" /\ UNCHANGED <<asked, turns>>
        BY <1>3, <2>2 DEF Assemble
    <2> QED BY <1>3, <2>3 DEF Assemble, AssembledInv, Over, Unusable, Unanswered, TurnsOf, asked
<1>4. CASE UNCHANGED vars
    BY <1>4 DEF vars, asked, AssembledInv, Over, Unusable, Unanswered, TurnsOf
<1> QED BY <1>1, <1>2, <1>3, <1>4 DEF Next

LEMMA AnswersAreKept == Spec => [](Inv /\ KeptInv /\ AssembledInv)
<1>1. Init => AssembledInv
    BY DEF Init, FirstPhase, AssembledInv
<1>2. Inv => TurnsInv
    BY DEF Inv
<1> QED BY <1>1, <1>2, KeptInit, KeptNext, AssembledNext, TurnsInvariant, PTL DEF Spec

(* However a backend batches a rule's candidates, and however the planner  *)
(* splits them over packs, each has its one answer in its place, and the   *)
(* check for lost candidates never fires.                                  *)
THEOREM CandidatesAreAnswered == Spec => []EveryCandidateAnswered
<1>1. KeptInv /\ AssembledInv => EveryCandidateAnswered
    BY DEF KeptInv, AssembledInv, EveryCandidateAnswered, Whole
<1> QED BY <1>1, AnswersAreKept, PTL

(* The plans and the fallback of a backend that groups: no request is      *)
(* larger than the limits, and there is a plan unless a candidate alone is *)
(* too large.                                                              *)
THEOREM PlansAreWithinLimits == Spec => []PlanFits
<1>1. KeptInv => PlanFits
    BY DEF KeptInv
<1> QED BY <1>1, AnswersAreKept, PTL

(* A rule that has candidates has a turn.                                  *)
LEMMA GivenBySomeTurn ==
    ASSUME KeptInv, NEW q \in Query, rows[q] > 0
    PROVE  TurnsOf(q) # {}
<1> DEFINE c == <<q, 0>>
<1>1. c \in Everything(rows)
    <2>1. rows[q] \in Nat
        BY ModelTurnsAssumption DEF KeptInv
    <2>2. 0 \in 0..(rows[q] - 1)
        BY <2>1
    <2> QED BY <2>2 DEF Everything
<1>2. packs \in Seq(Pack) /\ DOMAIN packs = 1..Len(packs)
    BY DEF KeptInv
<1>3. /\ ToSet(FlattenSeq(packs)) = UNION {ToSet(p) : p \in ToSet(packs)}
      /\ ToSet(packs) = {packs[t] : t \in 1..Len(packs)}
    BY <1>2, FlattenFacts, ToSetOfSeq DEF Pack
<1>4. c \in ToSet(FlattenSeq(packs)) /\ c[1] = q
    BY <1>1 DEF KeptInv
<1> HIDE DEF c
<1>5. PICK t \in 1..Len(packs) : c \in ToSet(packs[t])
    BY <1>3, <1>4
<1>6. q \in Rules(packs[t])
    BY <1>4, <1>5 DEF Rules
<1> QED BY <1>2, <1>5, <1>6 DEF TurnsOf, KeptInv

(* Answers are only returned when every rule with candidates had the model *)
(* answer one of its turns, whatever happened to the turns of the others.  *)
THEOREM NoReportIsManufactured == Spec => []NothingManufactured
<1>1. KeptInv /\ AssembledInv => NothingManufactured
    <2> SUFFICES ASSUME KeptInv, AssembledInv, phase = "answered", NEW q \in Query, rows[q] > 0
                 PROVE  \E t \in TurnsOf(q) : turns[t] \in {"answered", "unusable"}
        BY DEF NothingManufactured
    <2>1. TurnsOf(q) # {} /\ TurnsOf(q) \subseteq Over
        BY GivenBySomeTurn DEF AssembledInv, TurnsOf
    <2>2. CASE grouped
        BY <2>1, <2>2 DEF AssembledInv, Over, Unusable
    <2>3. CASE ~grouped
        <3>1. ~Unanswered(q)
            BY <2>3 DEF AssembledInv
        <3> QED BY <2>1, <3>1 DEF Unanswered, Over
    <2> QED BY <2>2, <2>3
<1> QED BY <1>1, AnswersAreKept, PTL
================================================================================
