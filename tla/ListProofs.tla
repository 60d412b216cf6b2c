------------------------------- MODULE ListProofs -------------------------------
(***************************************************************************)
(* What filtering and flattening a list return.  Both are defined by       *)
(* recursion; a recursive function is what its equation says once some     *)
(* function satisfies it, and that one does is an induction over the       *)
(* length, carried out on the set of lengths for which it holds.           *)
(***************************************************************************)
EXTENDS Lists, Integers, SequencesExt, SequenceTheorems, FiniteSetTheorems,
    WellFoundedInduction, TLAPS

(* Induction up to a bound, over a set of numbers.                         *)
LEMMA Induction ==
    ASSUME NEW m \in Nat, NEW T, 0 \in T, \A n \in 0..(m - 1) : n \in T => n + 1 \in T
    PROVE  \A n \in 0..m : n \in T
  <1> DEFINE rest == {n \in 0..m : n \notin T}
             R == {ss \in Nat \X Nat : ss[1] < ss[2]}
  <1>1. SUFFICES ASSUME rest # {} PROVE FALSE
    OBVIOUS
  <1>2. IsWellFoundedOn(R, Nat)
    BY NatLessThanWellFounded DEF OpToRel
  <1>3. PICK n \in rest : \A k \in rest : <<k, n>> \notin R
    <2>1. rest \subseteq Nat
      OBVIOUS
    <2> HIDE DEF R, rest
    <2> QED BY <1>1, <1>2, <2>1, WFMin
  <1>4. n \in 1..m /\ n - 1 \in 0..(m - 1)
    OBVIOUS
  <1>5. n - 1 \in T
    <2>1. <<n - 1, n>> \in R
      BY <1>4
    <2>2. n - 1 \notin rest
      BY <1>3, <2>1
    <2> QED BY <1>4, <2>2
  <1>6. (n - 1) + 1 \in T
    BY <1>4, <1>5
  <1> QED BY <1>4, <1>6

(* Induction over lists, over a set of them.                               *)
LEMMA ListInduction ==
    ASSUME NEW X, NEW T, <<>> \in T,
           \A s \in Seq(X), e \in X : s \in T => Append(s, e) \in T
    PROVE  \A s \in Seq(X) : s \in T
  <1> DEFINE L == {n \in Nat : \A s \in Seq(X) : Len(s) = n => s \in T}
  <1>1. 0 \in L
    <2>1. \A s \in Seq(X) : Len(s) = 0 => s = <<>>
      BY EmptySeq
    <2> QED BY <2>1
  <1>2. ASSUME NEW n \in Nat, n \in L PROVE n + 1 \in L
    <2> SUFFICES ASSUME NEW s \in Seq(X), Len(s) = n + 1 PROVE s \in T
      OBVIOUS
    <2>1. s # <<>>
      BY EmptySeq
    <2>2. PICK r \in Seq(X), e \in X : s = Append(r, e)
      BY <2>1, SequenceEmptyOrAppend
    <2>3. Len(r) = n
      BY <2>2, AppendProperties, LenProperties
    <2> QED BY <1>2, <2>2, <2>3
  <1>3. ASSUME NEW s \in Seq(X) PROVE s \in T
    <2>1. Len(s) \in Nat
      BY LenProperties
    <2> HIDE DEF L
    <2>2. \A n \in 0..(Len(s) - 1) : n \in L => n + 1 \in L
      BY <1>2, <2>1
    <2>3. \A n \in 0..Len(s) : n \in L
      BY <1>1, <2>1, <2>2, Induction
    <2>4. Len(s) \in L
      BY <2>1, <2>3
    <2> QED BY <2>4 DEF L
  <1> QED BY <1>3

(* The set of the elements of a list.                                      *)
LEMMA ToSetOfSeq ==
    ASSUME NEW X, NEW s \in Seq(X)
    PROVE  /\ ToSet(s) = {s[i] : i \in 1..Len(s)}
           /\ ToSet(s) \subseteq X
           /\ s \in Seq(ToSet(s))
  <1>1. DOMAIN s = 1..Len(s) /\ Len(s) \in Nat /\ s = [i \in 1..Len(s) |-> s[i]]
    BY LenProperties
  <1>2. ToSet(s) = {s[i] : i \in 1..Len(s)}
    BY <1>1 DEF ToSet
  <1>3. ToSet(s) \subseteq X
    BY <1>2, ElementOfSeq
  <1>4. s \in [1..Len(s) -> ToSet(s)]
    BY <1>1, <1>2
  <1>5. s \in Seq(ToSet(s))
    BY <1>1, <1>4, SeqDef
  <1> QED BY <1>2, <1>3, <1>5

LEMMA ToSetOfAppend ==
    ASSUME NEW X, NEW s \in Seq(X), NEW e \in X
    PROVE  ToSet(Append(s, e)) = ToSet(s) \cup {e}
  <1>1. Append(s, e) \in Seq(X) /\ Len(Append(s, e)) = Len(s) + 1 /\ Len(s) \in Nat
    BY AppendProperties, LenProperties
  <1>2. \A i \in 1..Len(s) : Append(s, e)[i] = s[i]
    BY AppendProperties
  <1>3. Append(s, e)[Len(s) + 1] = e
    BY AppendProperties
  <1>4. /\ ToSet(s) = {s[i] : i \in 1..Len(s)}
        /\ ToSet(Append(s, e)) = {Append(s, e)[i] : i \in 1..(Len(s) + 1)}
    BY <1>1, ToSetOfSeq
  <1>5. 1..(Len(s) + 1) = 1..Len(s) \cup {Len(s) + 1}
    BY <1>1
  <1> QED BY <1>2, <1>3, <1>4, <1>5

LEMMA ToSetOfOne ==
    ASSUME NEW X, NEW e \in X
    PROVE  <<e>> \in Seq(X) /\ ToSet(<<e>>) = {e}
  <1>1. <<e>> \in Seq(X) /\ DOMAIN <<e>> = 1..1 /\ <<e>>[1] = e
    OBVIOUS
  <1>2. ToSet(<<e>>) = {<<e>>[i] : i \in DOMAIN <<e>>}
    BY Zenon DEF ToSet
  <1>3. ToSet(<<e>>) = {<<e>>[i] : i \in 1..1}
    BY <1>1, <1>2
  <1>4. 1..1 = {1}
    OBVIOUS
  <1> QED BY <1>1, <1>3, <1>4

LEMMA ToSetOfConcat ==
    ASSUME NEW X, NEW s \in Seq(X), NEW t \in Seq(X)
    PROVE  ToSet(s \o t) = ToSet(s) \cup ToSet(t)
  <1>1. /\ s \o t \in Seq(X) /\ Len(s \o t) = Len(s) + Len(t)
        /\ Len(s) \in Nat /\ Len(t) \in Nat
    BY ConcatProperties, LenProperties
  <1>2. \A i \in 1..(Len(s) + Len(t)) :
            (s \o t)[i] = IF i <= Len(s) THEN s[i] ELSE t[i - Len(s)]
    BY ConcatProperties
  <1>3. /\ ToSet(s) = {s[i] : i \in 1..Len(s)}
        /\ ToSet(t) = {t[i] : i \in 1..Len(t)}
        /\ ToSet(s \o t) = {(s \o t)[i] : i \in 1..(Len(s) + Len(t))}
    BY <1>1, ToSetOfSeq
  <1>4. ToSet(s \o t) \subseteq ToSet(s) \cup ToSet(t)
    BY <1>1, <1>2, <1>3
  <1>5. ToSet(s) \subseteq ToSet(s \o t)
    BY <1>1, <1>2, <1>3
  <1>6. ASSUME NEW i \in 1..Len(t) PROVE t[i] \in ToSet(s \o t)
    <2>1. Len(s) + i \in 1..(Len(s) + Len(t)) /\ (s \o t)[Len(s) + i] = t[i]
      BY <1>1, <1>2
    <2> QED BY <1>3, <2>1
  <1> QED BY <1>3, <1>4, <1>5, <1>6

(* The elements behind the first n.                                        *)
LEMMA ToSetOfRest ==
    ASSUME NEW X, NEW s \in Seq(X), NEW n \in 0..Len(s)
    PROVE  ToSet(SubSeq(s, n + 1, Len(s))) = {s[k] : k \in (n + 1)..Len(s)}
  <1> DEFINE rest == SubSeq(s, n + 1, Len(s))
  <1>1. n \in Nat /\ Len(s) \in Nat /\ n <= Len(s)
    BY LenProperties
  <1>2. /\ rest \in Seq(X) /\ Len(rest) = Len(s) - n
        /\ \A k \in 1..(Len(s) - n) : rest[k] = s[n + k]
    <2>1. \A k \in (n + 1)..Len(s) : s[k] \in X
      BY <1>1, ElementOfSeq
    <2> QED BY <1>1, <2>1
  <1> HIDE DEF rest
  <1>3. ToSet(rest) = {rest[k] : k \in 1..(Len(s) - n)}
    BY <1>2, ToSetOfSeq
  <1>4. ASSUME NEW k \in (n + 1)..Len(s) PROVE s[k] \in ToSet(rest)
    <2>1. k - n \in 1..(Len(s) - n) /\ n + (k - n) = k
      BY <1>1
    <2> QED BY <1>2, <1>3, <2>1
  <1>5. ASSUME NEW k \in 1..(Len(s) - n)
        PROVE  n + k \in (n + 1)..Len(s) /\ rest[k] = s[n + k]
    BY <1>1, <1>2
  <1> QED BY <1>3, <1>4, <1>5 DEF rest

(***************************************************************************)
(* Filtering.                                                              *)
(***************************************************************************)

(* g holds what the filter has kept of the first n elements, after each.   *)
Filters(s, S, n, g) ==
    /\ g = [k \in 0..n |-> g[k]]
    /\ g[0] = <<>>
    /\ \A k \in 1..n : g[k] = IF s[k] \in S THEN Append(g[k - 1], s[k]) ELSE g[k - 1]

LEMMA FilterExists ==
    ASSUME NEW S, NEW s, Len(s) \in Nat
    PROVE  \E g : Filters(s, S, Len(s), g)
  <1> DEFINE T == {n \in Nat : \E g : Filters(s, S, n, g)}
  <1>1. 0 \in T
    <2> DEFINE g == [k \in 0..0 |-> <<>>]
    <2>1. Filters(s, S, 0, g)
      BY DEF Filters
    <2> HIDE DEF g
    <2> QED BY <2>1
  <1>2. ASSUME NEW n \in Nat, n \in T PROVE n + 1 \in T
    <2>1. PICK g : Filters(s, S, n, g)
      BY <1>2
    <2> DEFINE last == IF s[n + 1] \in S THEN Append(g[n], s[n + 1]) ELSE g[n]
               h == [k \in 0..(n + 1) |-> IF k <= n THEN g[k] ELSE last]
    <2>2. h = [k \in 0..(n + 1) |-> h[k]] /\ h[0] = <<>>
      BY <2>1 DEF Filters
    <2>3. ASSUME NEW k \in 1..(n + 1)
          PROVE  h[k] = IF s[k] \in S THEN Append(h[k - 1], s[k]) ELSE h[k - 1]
      <3>1. CASE k <= n
        <4>1. k \in 1..n /\ h[k] = g[k] /\ h[k - 1] = g[k - 1]
          BY <3>1
        <4> HIDE DEF h
        <4> QED BY <2>1, <4>1 DEF Filters
      <3>2. CASE k = n + 1
        <4>1. h[k] = last /\ h[k - 1] = g[n]
          BY <3>2
        <4> HIDE DEF h
        <4> QED BY <3>2, <4>1
      <3> QED BY <3>1, <3>2
    <2> HIDE DEF h
    <2>4. Filters(s, S, n + 1, h)
      BY <2>2, <2>3 DEF Filters
    <2> QED BY <2>4
  <1> HIDE DEF T
  <1>5. Len(s) \in Nat /\ \A n \in 0..(Len(s) - 1) : n \in T => n + 1 \in T
    BY <1>2
  <1>3. \A n \in 0..Len(s) : n \in T
    BY <1>1, <1>5, Induction
  <1>4. Len(s) \in T
    BY <1>3
  <1> QED BY <1>4 DEF T

(* The filter is the last of its own intermediate values.                  *)
LEMMA AmongByParts ==
    ASSUME NEW S, NEW s, Len(s) \in Nat
    PROVE  \E g : Filters(s, S, Len(s), g) /\ Among(s, S) = g[Len(s)]
  <1> DEFINE g == CHOOSE g : g = [n \in 0..Len(s) |->
                      IF n = 0 THEN <<>>
                      ELSE IF s[n] \in S THEN Append(g[n - 1], s[n]) ELSE g[n - 1]]
  <1>1. g = [n \in 0..Len(s) |->
                      IF n = 0 THEN <<>>
                      ELSE IF s[n] \in S THEN Append(g[n - 1], s[n]) ELSE g[n - 1]]
    <2> HIDE DEF g
    <2>1. PICK h : Filters(s, S, Len(s), h)
      BY FilterExists
    <2>2. h = [n \in 0..Len(s) |->
                      IF n = 0 THEN <<>>
                      ELSE IF s[n] \in S THEN Append(h[n - 1], s[n]) ELSE h[n - 1]]
      <3> DEFINE f == [n \in 0..Len(s) |->
                      IF n = 0 THEN <<>>
                      ELSE IF s[n] \in S THEN Append(h[n - 1], s[n]) ELSE h[n - 1]]
      <3>1. h[0] = <<>> /\ \A n \in 1..Len(s) : h[n] = f[n]
        <4>1. /\ h[0] = <<>>
              /\ \A k \in 1..Len(s) :
                     h[k] = IF s[k] \in S THEN Append(h[k - 1], s[k]) ELSE h[k - 1]
          BY <2>1, Zenon DEF Filters
        <4> QED BY <4>1
      <3>2. \A n \in 0..Len(s) : n = 0 \/ n \in 1..Len(s)
        OBVIOUS
      <3>3. \A n \in 0..Len(s) : h[n] = f[n]
        BY <3>1, <3>2
      <3>4. h = [n \in 0..Len(s) |-> h[n]] /\ f = [n \in 0..Len(s) |-> f[n]]
        BY <2>1 DEF Filters
      <3> HIDE DEF f
      <3>5. h = f
        BY <3>3, <3>4
      <3> QED BY <3>5 DEF f
    <2> QED BY <2>2, Zenon DEF g
  <1>2. Among(s, S) = g[Len(s)]
    BY Zenon DEF Among
  <1> HIDE DEF g
  <1>3. \A n \in 0..Len(s) :
            g[n] = IF n = 0 THEN <<>>
                   ELSE IF s[n] \in S THEN Append(g[n - 1], s[n]) ELSE g[n - 1]
    BY <1>1, Zenon
  <1>4. g = [n \in 0..Len(s) |-> g[n]]
    BY <1>1, Zenon
  <1>5. Filters(s, S, Len(s), g)
    BY <1>3, <1>4 DEF Filters
  <1> QED BY <1>2, <1>5

(* Where the first kept elements stood among the first n of s: in the same *)
(* order, and none of them twice.                                          *)
Stood(s, n, kept, at) ==
    /\ at \in [1..Len(kept) -> 1..n]
    /\ \A i, j \in 1..Len(kept) : i < j => at[i] < at[j]
    /\ \A i \in 1..Len(kept) : kept[i] = s[at[i]]

LEMMA StoodLonger ==
    ASSUME NEW X, NEW s \in Seq(X), NEW n \in 0..(Len(s) - 1), NEW kept \in Seq(X),
           NEW at, Stood(s, n, kept, at)
    PROVE  /\ Stood(s, n + 1, kept, at)
           /\ \E more : Stood(s, n + 1, Append(kept, s[n + 1]), more)
  <1>1. Len(s) \in Nat /\ Len(kept) \in Nat
    BY LenProperties
  <1>2. n \in Nat /\ n + 1 \in 1..Len(s) /\ s[n + 1] \in X
    BY <1>1, ElementOfSeq
  <1>3. Stood(s, n + 1, kept, at)
    BY <1>1, <1>2 DEF Stood
  <1> DEFINE more == [i \in 1..(Len(kept) + 1) |-> IF i <= Len(kept) THEN at[i] ELSE n + 1]
             longer == Append(kept, s[n + 1])
  <1>4. /\ Len(longer) = Len(kept) + 1
        /\ \A i \in 1..Len(kept) : longer[i] = kept[i]
        /\ longer[Len(kept) + 1] = s[n + 1]
    BY <1>2, AppendProperties
  <1>5. more \in [1..Len(longer) -> 1..(n + 1)]
    BY <1>1, <1>2, <1>4 DEF Stood
  <1>6. ASSUME NEW i \in 1..Len(longer), NEW j \in 1..Len(longer), i < j
        PROVE  more[i] < more[j]
    <2>1. i \in 1..Len(kept) /\ more[i] = at[i] /\ at[i] \in 1..n
      BY <1>1, <1>4, <1>6 DEF Stood
    <2>2. CASE j = Len(kept) + 1
      BY <1>1, <1>2, <1>4, <2>1, <2>2
    <2>3. CASE j \in 1..Len(kept)
      BY <1>1, <1>6, <2>1, <2>3 DEF Stood
    <2> QED BY <1>1, <1>4, <2>2, <2>3
  <1>7. ASSUME NEW i \in 1..Len(longer) PROVE longer[i] = s[more[i]]
    BY <1>1, <1>4 DEF Stood
  <1> HIDE DEF more, longer
  <1>8. Stood(s, n + 1, longer, more)
    BY <1>5, <1>6, <1>7 DEF Stood
  <1> QED BY <1>3, <1>8 DEF longer

(* A filtered list has the elements of the list that are in the set, each  *)
(* from its own place and in the order of the list.                        *)
LEMMA AmongFacts ==
    ASSUME NEW X, NEW S, NEW s \in Seq(X)
    PROVE  /\ Among(s, S) \in Seq(X \cap S)
           /\ ToSet(Among(s, S)) = ToSet(s) \cap S
           /\ \E at : Stood(s, Len(s), Among(s, S), at)
  <1>1. Len(s) \in Nat
    BY LenProperties
  <1>2. PICK g : Filters(s, S, Len(s), g) /\ Among(s, S) = g[Len(s)]
    BY <1>1, AmongByParts
  <1>3. /\ g[0] = <<>>
        /\ \A k \in 1..Len(s) :
               g[k] = IF s[k] \in S THEN Append(g[k - 1], s[k]) ELSE g[k - 1]
    BY <1>2, Zenon DEF Filters
  <1> DEFINE Good(n) == /\ g[n] \in Seq(X \cap S)
                        /\ ToSet(g[n]) = {s[k] : k \in 1..n} \cap S
                        /\ \E at : Stood(s, n, g[n], at)
             T == {n \in 0..Len(s) : Good(n)}
  <1>4. 0 \in T
    <2>1. g[0] \in Seq(X \cap S) /\ Len(g[0]) = 0
      BY <1>3, EmptySeq
    <2>2. ToSet(g[0]) = {}
      BY <2>1, ToSetOfSeq
    <2>3. {s[k] : k \in 1..0} = {}
      OBVIOUS
    <2>4. Stood(s, 0, g[0], [i \in 1..0 |-> 0])
      BY <2>1 DEF Stood
    <2> QED BY <1>1, <2>1, <2>2, <2>3, <2>4
  <1>5. ASSUME NEW n \in 0..(Len(s) - 1), n \in T PROVE n + 1 \in T
    <2>1. Good(n)
      BY <1>5
    <2>2. /\ n \in Nat /\ n + 1 \in 1..Len(s) /\ n + 1 \in 0..Len(s) /\ s[n + 1] \in X
          /\ (n + 1) - 1 = n
      BY <1>1, ElementOfSeq
    <2>3. g[n + 1] = IF s[n + 1] \in S THEN Append(g[n], s[n + 1]) ELSE g[n]
      <3>1. g[n + 1] = IF s[n + 1] \in S THEN Append(g[(n + 1) - 1], s[n + 1])
                       ELSE g[(n + 1) - 1]
        BY <1>3, <2>2, Zenon
      <3> QED BY <2>2, <3>1
    <2>4. g[n] \in Seq(X)
      BY <2>1, SeqMonotonic
    <2>5. PICK at : Stood(s, n, g[n], at)
      BY <2>1
    <2>6. /\ Stood(s, n + 1, g[n], at)
          /\ \E more : Stood(s, n + 1, Append(g[n], s[n + 1]), more)
      BY <2>4, <2>5, StoodLonger
    <2>7. {s[k] : k \in 1..(n + 1)} = {s[k] : k \in 1..n} \cup {s[n + 1]}
      BY <2>2
    <2>8. CASE s[n + 1] \in S
      <3>1. /\ Append(g[n], s[n + 1]) \in Seq(X \cap S)
            /\ ToSet(Append(g[n], s[n + 1])) = ToSet(g[n]) \cup {s[n + 1]}
        BY <2>1, <2>2, <2>8, AppendProperties, ToSetOfAppend
      <3> QED BY <2>1, <2>2, <2>3, <2>6, <2>7, <2>8, <3>1
    <2>9. CASE s[n + 1] \notin S
      <3>1. g[n + 1] = g[n]
        BY <2>3, <2>9
      <3> QED BY <2>1, <2>2, <2>6, <2>7, <2>9, <3>1
    <2> QED BY <2>8, <2>9
  <1>6. Good(Len(s))
    <2> HIDE DEF T, Good
    <2>1. \A n \in 0..Len(s) : n \in T
      BY <1>1, <1>4, <1>5, Induction
    <2> QED BY <1>1, <2>1 DEF T
  <1>7. ToSet(s) = {s[k] : k \in 1..Len(s)}
    BY ToSetOfSeq
  <1> QED BY <1>2, <1>6, <1>7

(* The first elements of a list, when the set has them all, are all kept.  *)
LEMMA AmongFront ==
    ASSUME NEW X, NEW S, NEW s \in Seq(X), NEW n \in 0..Len(s), \A i \in 1..n : s[i] \in S
    PROVE  Len(Among(s, S)) >= n
  <1>1. Len(s) \in Nat /\ n \in Nat
    BY LenProperties
  <1>2. PICK g : Filters(s, S, Len(s), g) /\ Among(s, S) = g[Len(s)]
    BY <1>1, AmongByParts
  <1>3. /\ g[0] = <<>>
        /\ \A k \in 1..Len(s) :
               g[k] = IF s[k] \in S THEN Append(g[k - 1], s[k]) ELSE g[k - 1]
    BY <1>2, Zenon DEF Filters
  <1> DEFINE T == {k \in 0..Len(s) : /\ g[k] \in Seq(X)
                                     /\ k <= n => Len(g[k]) >= k
                                     /\ n <= k => Len(g[k]) >= n}
  <1>4. 0 \in T
    <2>1. g[0] \in Seq(X) /\ Len(g[0]) = 0
      BY <1>3, EmptySeq
    <2> QED BY <1>1, <2>1
  <1>5. ASSUME NEW k \in 0..(Len(s) - 1), k \in T PROVE k + 1 \in T
    <2>1. k \in Nat /\ k + 1 \in 1..Len(s) /\ s[k + 1] \in X /\ (k + 1) - 1 = k
      BY <1>1, ElementOfSeq
    <2>2. g[k + 1] = IF s[k + 1] \in S THEN Append(g[k], s[k + 1]) ELSE g[k]
      <3>1. g[k + 1] = IF s[k + 1] \in S THEN Append(g[(k + 1) - 1], s[k + 1])
                       ELSE g[(k + 1) - 1]
        BY <1>3, <2>1, Zenon
      <3> QED BY <2>1, <3>1
    <2>3. /\ g[k] \in Seq(X) /\ Len(g[k]) \in Nat
          /\ Append(g[k], s[k + 1]) \in Seq(X)
          /\ Len(Append(g[k], s[k + 1])) = Len(g[k]) + 1
      BY <1>5, <2>1, AppendProperties, LenProperties
    <2>4. CASE s[k + 1] \in S
      <3>1. /\ g[k + 1] \in Seq(X) /\ Len(g[k + 1]) = Len(g[k]) + 1
            /\ k + 1 \in 0..Len(s) /\ (k + 1 <= n => k <= n) /\ (n <= k + 1 => n <= k \/ k + 1 <= n)
        BY <1>1, <2>1, <2>2, <2>3, <2>4
      <3>2. (k <= n => Len(g[k]) >= k) /\ (n <= k => Len(g[k]) >= n)
        BY <1>5
      <3>3. (k + 1 <= n => Len(g[k + 1]) >= k + 1) /\ (n <= k + 1 => Len(g[k + 1]) >= n)
        BY <1>1, <2>1, <2>3, <3>1, <3>2
      <3> QED BY <3>1, <3>3
    <2>5. CASE s[k + 1] \notin S
      <3>1. ~(k + 1 <= n)
        BY <1>1, <2>1, <2>5
      <3> QED BY <1>1, <1>5, <2>1, <2>2, <2>3, <2>5, <3>1
    <2> QED BY <2>4, <2>5
  <1>6. Len(s) \in T
    <2> HIDE DEF T
    <2>1. \A k \in 0..Len(s) : k \in T
      BY <1>1, <1>4, <1>5, Induction
    <2> QED BY <1>1, <2>1
  <1> QED BY <1>1, <1>2, <1>6

(***************************************************************************)
(* Inserting.                                                              *)
(***************************************************************************)

(* The least of a set of places in a list.                                 *)
LEMMA LeastOf ==
    ASSUME NEW n \in Nat, NEW I \in SUBSET (1..n), I # {}
    PROVE  Min(I) \in I /\ \A i \in I : Min(I) <= i
  <1> DEFINE R == {ss \in Nat \X Nat : ss[1] < ss[2]}
  <1>1. IsWellFoundedOn(R, Nat)
    BY NatLessThanWellFounded DEF OpToRel
  <1>2. PICK m \in I : \A k \in I : <<k, m>> \notin R
    <2>1. I \subseteq Nat
      OBVIOUS
    <2> HIDE DEF R
    <2> QED BY <1>1, <2>1, WFMin
  <1>3. \A k \in I : m <= k
    <2> SUFFICES ASSUME NEW k \in I, ~(m <= k) PROVE FALSE
      OBVIOUS
    <2>1. k \in Nat /\ m \in Nat /\ k < m
      OBVIOUS
    <2>2. <<k, m>> \in Nat \X Nat /\ <<k, m>>[1] = k /\ <<k, m>>[2] = m
      BY <2>1
    <2>3. <<k, m>> \in R
      BY <2>1, <2>2
    <2> QED BY <1>2, <2>3
  <1>4. \E x \in I : \A y \in I : x =< y
    BY <1>3
  <1> QED BY <1>4, Zenon DEF Min

(* Inserting puts one element in, in front of what stood at its place.     *)
LEMMA InsertAtFacts ==
    ASSUME NEW X, NEW s \in Seq(X), NEW e \in X, NEW i \in 1..(Len(s) + 1)
    PROVE  /\ InsertAt(s, i, e) \in Seq(X)
           /\ Len(InsertAt(s, i, e)) = Len(s) + 1
           /\ \A j \in 1..(Len(s) + 1) : InsertAt(s, i, e)[j] =
                  IF j < i THEN s[j] ELSE IF j = i THEN e ELSE s[j - 1]
           /\ ToSet(InsertAt(s, i, e)) = ToSet(s) \cup {e}
  <1> DEFINE front == SubSeq(s, 1, i - 1)
             back == SubSeq(s, i, Len(s))
             t == InsertAt(s, i, e)
  <1>1. Len(s) \in Nat /\ i \in Nat /\ i >= 1 /\ i <= Len(s) + 1
    BY LenProperties
  <1>2. /\ front \in Seq(X) /\ Len(front) = i - 1
        /\ \A j \in 1..(i - 1) : front[j] = s[j]
    BY <1>1
  <1>3. /\ back \in Seq(X) /\ Len(back) = Len(s) - i + 1
        /\ \A j \in 1..(Len(s) - i + 1) : back[j] = s[i + j - 1]
    BY <1>1
  <1>4. <<e>> \in Seq(X) /\ Len(<<e>>) = 1 /\ <<e>>[1] = e
    OBVIOUS
  <1> HIDE DEF front, back
  <1>5. /\ front \o <<e>> \in Seq(X) /\ Len(front \o <<e>>) = i
        /\ \A j \in 1..i : (front \o <<e>>)[j] = IF j <= i - 1 THEN front[j] ELSE e
    <2>1. /\ front \o <<e>> \in Seq(X) /\ Len(front \o <<e>>) = Len(front) + 1
          /\ \A j \in 1..(Len(front) + 1) : (front \o <<e>>)[j] =
                 IF j <= Len(front) THEN front[j] ELSE <<e>>[j - Len(front)]
      BY <1>2, <1>4, ConcatProperties
    <2> QED BY <1>1, <1>2, <1>4, <2>1
  <1>6. t = (front \o <<e>>) \o back
    BY DEF InsertAt, front, back
  <1>7. /\ t \in Seq(X) /\ Len(t) = i + (Len(s) - i + 1)
        /\ \A j \in 1..(i + (Len(s) - i + 1)) :
               t[j] = IF j <= i THEN (front \o <<e>>)[j] ELSE back[j - i]
    <2> DEFINE u == front \o <<e>>
    <2>1. u \in Seq(X) /\ Len(u) = i /\ t = u \o back
      BY <1>5, <1>6
    <2> HIDE DEF t, u
    <2>2. /\ u \o back \in Seq(X) /\ Len(u \o back) = Len(u) + Len(back)
          /\ \A j \in 1..(Len(u) + Len(back)) :
                 (u \o back)[j] = IF j <= Len(u) THEN u[j] ELSE back[j - Len(u)]
      BY <1>3, <2>1, ConcatProperties
    <2>3. /\ t \in Seq(X) /\ Len(t) = i + (Len(s) - i + 1)
          /\ \A j \in 1..(i + (Len(s) - i + 1)) :
                 t[j] = IF j <= i THEN u[j] ELSE back[j - i]
      BY <1>3, <2>1, <2>2
    <2> QED BY <2>3 DEF u
  <1> HIDE DEF t
  <1>8. Len(t) = Len(s) + 1
    BY <1>1, <1>7
  <1>9. ASSUME NEW j \in 1..(Len(s) + 1)
        PROVE  t[j] = IF j < i THEN s[j] ELSE IF j = i THEN e ELSE s[j - 1]
    <2>1. CASE j <= i
      <3>1. j \in 1..i /\ j \in 1..(i + (Len(s) - i + 1))
        BY <1>1, <2>1
      <3>2. t[j] = IF j <= i - 1 THEN front[j] ELSE e
        BY <1>5, <1>7, <2>1, <3>1
      <3>3. j <= i - 1 => j \in 1..(i - 1)
        BY <1>1, <3>1
      <3> QED BY <1>1, <1>2, <3>1, <3>2, <3>3
    <2>2. CASE j > i
      <3>1. j - i \in 1..(Len(s) - i + 1) /\ i + (j - i) - 1 = j - 1
        BY <1>1, <2>2
      <3> QED BY <1>1, <1>3, <1>7, <2>2, <3>1
    <2> QED BY <1>1, <2>1, <2>2
  <1>10. /\ ToSet(s) = {s[j] : j \in 1..Len(s)}
         /\ ToSet(t) = {t[j] : j \in 1..(Len(s) + 1)}
    BY <1>7, <1>8, ToSetOfSeq
  <1>11. ToSet(t) \subseteq ToSet(s) \cup {e}
    <2> SUFFICES ASSUME NEW j \in 1..(Len(s) + 1) PROVE t[j] \in ToSet(s) \cup {e}
      BY <1>10
    <2>1. j < i => j \in 1..Len(s)
      BY <1>1
    <2>2. j > i => j - 1 \in 1..Len(s)
      BY <1>1
    <2> QED BY <1>1, <1>9, <1>10, <2>1, <2>2
  <1>12. e \in ToSet(t)
    <2>1. i \in 1..(Len(s) + 1) /\ t[i] = e
      BY <1>1, <1>9
    <2> QED BY <1>10, <2>1
  <1>13. ASSUME NEW j \in 1..Len(s) PROVE s[j] \in ToSet(t)
    <2>1. CASE j < i
      <3>1. t[j] = s[j] /\ j \in 1..(Len(s) + 1)
        BY <1>1, <1>9, <2>1
      <3> QED BY <1>10, <3>1
    <2>2. CASE j >= i
      <3>1. j + 1 \in 1..(Len(s) + 1) /\ j + 1 > i /\ (j + 1) - 1 = j
        BY <1>1, <2>2
      <3>2. t[j + 1] = s[j]
        BY <1>1, <1>9, <3>1
      <3> QED BY <1>10, <3>1, <3>2
    <2> QED BY <1>1, <2>1, <2>2
  <1>14. ToSet(t) = ToSet(s) \cup {e}
    <2>1. ToSet(s) \subseteq ToSet(t)
      BY <1>10, <1>13
    <2> QED BY <1>11, <1>12, <2>1
  <1>15. t \in Seq(X)
    BY <1>7
  <1> QED BY <1>8, <1>9, <1>14, <1>15 DEF t

(***************************************************************************)
(* Flattening.                                                             *)
(***************************************************************************)

(* g holds the first lists of s joined, after each of the first n.         *)
Flattens(s, n, g) ==
    /\ g = [k \in 1..n |-> g[k]]
    /\ \A k \in 1..n : g[k] = IF k = 1 THEN s[k] ELSE g[k - 1] \o s[k]

LEMMA FlattenExists ==
    ASSUME NEW s, Len(s) \in Nat
    PROVE  \E g : Flattens(s, Len(s), g)
  <1> DEFINE T == {n \in Nat : \E g : Flattens(s, n, g)}
  <1>1. 0 \in T
    <2> DEFINE g == [k \in 1..0 |-> <<>>]
    <2>1. Flattens(s, 0, g)
      BY DEF Flattens
    <2> HIDE DEF g
    <2> QED BY <2>1
  <1>2. ASSUME NEW n \in Nat, n \in T PROVE n + 1 \in T
    <2>1. PICK g : Flattens(s, n, g)
      BY <1>2
    <2> DEFINE last == IF n = 0 THEN s[1] ELSE g[n] \o s[n + 1]
               h == [k \in 1..(n + 1) |-> IF k <= n THEN g[k] ELSE last]
    <2>2. h = [k \in 1..(n + 1) |-> h[k]]
      OBVIOUS
    <2>3. ASSUME NEW k \in 1..(n + 1)
          PROVE  h[k] = IF k = 1 THEN s[k] ELSE h[k - 1] \o s[k]
      <3>1. CASE k <= n
        <4>1. k \in 1..n /\ h[k] = g[k] /\ (k # 1 => h[k - 1] = g[k - 1])
          BY <3>1
        <4>2. g[k] = IF k = 1 THEN s[k] ELSE g[k - 1] \o s[k]
          BY <2>1, <4>1, Zenon DEF Flattens
        <4> HIDE DEF h
        <4> QED BY <4>1, <4>2
      <3>2. CASE k = n + 1
        <4>1. h[k] = last /\ (k # 1 => h[k - 1] = g[n])
          BY <3>2
        <4> HIDE DEF h
        <4> QED BY <3>2, <4>1
      <3> QED BY <3>1, <3>2
    <2> HIDE DEF h
    <2>4. Flattens(s, n + 1, h)
      BY <2>2, <2>3, Zenon DEF Flattens
    <2> QED BY <2>4
  <1> HIDE DEF T
  <1>5. Len(s) \in Nat /\ \A n \in 0..(Len(s) - 1) : n \in T => n + 1 \in T
    BY <1>2
  <1>3. \A n \in 0..Len(s) : n \in T
    BY <1>1, <1>5, Induction
  <1>4. Len(s) \in T
    BY <1>3
  <1> QED BY <1>4 DEF T

LEMMA FlattenByParts ==
    ASSUME NEW s, Len(s) \in Nat \ {0}
    PROVE  \E g : Flattens(s, Len(s), g) /\ FlattenSeq(s) = g[Len(s)]
  <1> DEFINE g == CHOOSE g : g = [k \in 1..Len(s) |->
                      IF k = 1 THEN s[k] ELSE g[k - 1] \o s[k]]
  <1>1. g = [k \in 1..Len(s) |-> IF k = 1 THEN s[k] ELSE g[k - 1] \o s[k]]
    <2> HIDE DEF g
    <2>1. PICK h : Flattens(s, Len(s), h)
      BY FlattenExists
    <2>2. h = [k \in 1..Len(s) |-> IF k = 1 THEN s[k] ELSE h[k - 1] \o s[k]]
      <3> DEFINE f == [k \in 1..Len(s) |-> IF k = 1 THEN s[k] ELSE h[k - 1] \o s[k]]
      <3>1. \A k \in 1..Len(s) : h[k] = f[k]
        <4>1. \A k \in 1..Len(s) : h[k] = IF k = 1 THEN s[k] ELSE h[k - 1] \o s[k]
          BY <2>1, Zenon DEF Flattens
        <4> QED BY <4>1
      <3>2. h = [k \in 1..Len(s) |-> h[k]] /\ f = [k \in 1..Len(s) |-> f[k]]
        BY <2>1 DEF Flattens
      <3> HIDE DEF f
      <3>3. h = f
        BY <3>1, <3>2
      <3> QED BY <3>3 DEF f
    <2> QED BY <2>2, Zenon DEF g
  <1>2. FlattenSeq(s) = g[Len(s)]
    <2>1. Len(s) # 0
      OBVIOUS
    <2> QED BY <2>1, Zenon DEF FlattenSeq
  <1> HIDE DEF g
  <1>3. \A k \in 1..Len(s) : g[k] = IF k = 1 THEN s[k] ELSE g[k - 1] \o s[k]
    BY <1>1, Zenon
  <1>4. g = [k \in 1..Len(s) |-> g[k]]
    BY <1>1, Zenon
  <1>5. Flattens(s, Len(s), g)
    BY <1>3, <1>4, Zenon DEF Flattens
  <1> QED BY <1>2, <1>5

LEMMA FlattenEmpty == FlattenSeq(<<>>) = <<>>
  <1>1. Len(<<>>) = 0
    OBVIOUS
  <1> QED BY <1>1, Zenon DEF FlattenSeq

(* One list more at the end is joined at the end.                          *)
LEMMA FlattenAppend ==
    ASSUME NEW X, NEW s \in Seq(Seq(X)), NEW e \in Seq(X)
    PROVE  FlattenSeq(Append(s, e)) = FlattenSeq(s) \o e
  <1> DEFINE t == Append(s, e)
             m == Len(s)
  <1>1. /\ m \in Nat /\ t \in Seq(Seq(X)) /\ Len(t) = m + 1
        /\ \A k \in 1..m : t[k] = s[k]
        /\ t[m + 1] = e
    BY AppendProperties, LenProperties
  <1> HIDE DEF t
  <1>2. PICK h : Flattens(t, m + 1, h) /\ FlattenSeq(t) = h[m + 1]
    BY <1>1, FlattenByParts
  <1>3. \A k \in 1..(m + 1) : h[k] = IF k = 1 THEN t[k] ELSE h[k - 1] \o t[k]
    BY <1>2, Zenon DEF Flattens
  <1>4. CASE s = <<>>
    <2>1. m = 0 /\ h[1] = e
      BY <1>1, <1>3, <1>4
    <2>2. <<>> \o e = e
      BY ConcatEmptySeq
    <2> QED BY <1>2, <1>4, <2>1, <2>2, FlattenEmpty DEF t
  <1>5. CASE s # <<>>
    <2>1. m \in Nat \ {0}
      BY <1>1, <1>5, EmptySeq
    <2>2. PICK g : Flattens(s, m, g) /\ FlattenSeq(s) = g[m]
      BY <2>1, FlattenByParts
    <2>3. \A k \in 1..m : g[k] = IF k = 1 THEN s[k] ELSE g[k - 1] \o s[k]
      BY <2>2, Zenon DEF Flattens
    <2> DEFINE T == {n \in 0..m : n = 0 \/ g[n] = h[n]}
    <2>4. 0 \in T
      BY <1>1
    <2>5. ASSUME NEW n \in 0..(m - 1), n \in T PROVE n + 1 \in T
      <3>1. n + 1 \in 1..m /\ n + 1 \in 1..(m + 1) /\ n + 1 \in 0..m /\ (n + 1) - 1 = n
        BY <1>1
      <3>2. /\ g[n + 1] = IF n + 1 = 1 THEN s[n + 1] ELSE g[n] \o s[n + 1]
            /\ h[n + 1] = IF n + 1 = 1 THEN t[n + 1] ELSE h[n] \o t[n + 1]
        <4>1. /\ g[n + 1] = IF n + 1 = 1 THEN s[n + 1] ELSE g[(n + 1) - 1] \o s[n + 1]
              /\ h[n + 1] = IF n + 1 = 1 THEN t[n + 1] ELSE h[(n + 1) - 1] \o t[n + 1]
          BY <1>3, <2>3, <3>1, Zenon
        <4> QED BY <3>1, <4>1
      <3>3. t[n + 1] = s[n + 1]
        BY <1>1, <3>1
      <3>4. CASE n = 0
        BY <3>1, <3>2, <3>3, <3>4
      <3>5. CASE n # 0
        <4>1. g[n] = h[n]
          BY <2>5, <3>5
        <4> QED BY <3>1, <3>2, <3>3, <4>1
      <3> QED BY <3>4, <3>5
    <2>6. g[m] = h[m]
      <3> HIDE DEF T
      <3>1. \A n \in 0..m : n \in T
        BY <1>1, <2>4, <2>5, Induction
      <3>2. m \in T
        BY <1>1, <3>1
      <3> QED BY <2>1, <3>2 DEF T
    <2>7. h[m + 1] = h[m] \o e
      <3>1. m + 1 \in 1..(m + 1) /\ m + 1 # 1 /\ (m + 1) - 1 = m
        BY <2>1
      <3>2. h[m + 1] = IF m + 1 = 1 THEN t[m + 1] ELSE h[(m + 1) - 1] \o t[m + 1]
        BY <1>3, <3>1, Zenon
      <3> QED BY <1>1, <3>1, <3>2
    <2> QED BY <1>2, <2>2, <2>6, <2>7 DEF t
  <1> QED BY <1>4, <1>5

(* Flattening lists of X yields a list of X with all their elements.       *)
LEMMA FlattenFacts ==
    ASSUME NEW X, NEW s \in Seq(Seq(X))
    PROVE  /\ FlattenSeq(s) \in Seq(X)
           /\ ToSet(FlattenSeq(s)) = UNION {ToSet(l) : l \in ToSet(s)}
  <1> DEFINE Good(l) == /\ FlattenSeq(l) \in Seq(X)
                        /\ ToSet(FlattenSeq(l)) = UNION {ToSet(k) : k \in ToSet(l)}
             T == {l \in Seq(Seq(X)) : Good(l)}
  <1>1. <<>> \in T
    <2>1. <<>> \in Seq(Seq(X)) /\ <<>> \in Seq(X) /\ Len(<<>>) = 0
      BY EmptySeq
    <2>2. ToSet(<<>>) = {}
      BY DEF ToSet
    <2> QED BY <2>1, <2>2, FlattenEmpty
  <1>2. ASSUME NEW l \in Seq(Seq(X)), NEW e \in Seq(X), l \in T
        PROVE  Append(l, e) \in T
    <2>1. /\ Append(l, e) \in Seq(Seq(X)) /\ ToSet(Append(l, e)) = ToSet(l) \cup {e}
      BY AppendProperties, ToSetOfAppend
    <2>2. FlattenSeq(Append(l, e)) = FlattenSeq(l) \o e
      BY FlattenAppend
    <2>3. /\ FlattenSeq(l) \o e \in Seq(X)
          /\ ToSet(FlattenSeq(l) \o e) = ToSet(FlattenSeq(l)) \cup ToSet(e)
      BY <1>2, ConcatProperties, ToSetOfConcat
    <2> QED BY <1>2, <2>1, <2>2, <2>3
  <1>3. s \in T
    <2> HIDE DEF T
    <2> QED BY <1>1, <1>2, ListInduction
  <1> QED BY <1>3

(* Joining three lists in either order.                                     *)
Groups(a, b, c) == (a \o b) \o c = a \o (b \o c)

LEMMA ConcatGroups ==
    ASSUME NEW X, NEW a \in Seq(X), NEW b \in Seq(X), NEW c \in Seq(X)
    PROVE  Groups(a, b, c)
  BY ConcatAssociative DEF Groups

(* Flattening distributes over concatenation.                              *)
LEMMA FlattenConcat ==
    ASSUME NEW X, NEW s \in Seq(Seq(X)), NEW t \in Seq(Seq(X))
    PROVE  FlattenSeq(s \o t) = FlattenSeq(s) \o FlattenSeq(t)
  <1> DEFINE T == {l \in Seq(Seq(X)) :
                      FlattenSeq(s \o l) = FlattenSeq(s) \o FlattenSeq(l)}
  <1>1. <<>> \in T
    <2>1. <<>> \in Seq(Seq(X)) /\ s \o <<>> = s /\ FlattenSeq(s) \o <<>> = FlattenSeq(s)
      BY EmptySeq, ConcatEmptySeq, FlattenFacts
    <2> QED BY <2>1, FlattenEmpty
  <1>2. ASSUME NEW l \in Seq(Seq(X)), NEW e \in Seq(X), l \in T
        PROVE  Append(l, e) \in T
    <2>1. Append(l, e) = l \o <<e>> /\ <<e>> \in Seq(Seq(X)) /\ Append(l, e) \in Seq(Seq(X))
      BY AppendIsConcat, AppendProperties
    <2>2. s \o l \in Seq(Seq(X))
      BY ConcatProperties
    <2>3. s \o Append(l, e) = Append(s \o l, e)
      <3>1. s \o (l \o <<e>>) = (s \o l) \o <<e>>
        BY <2>1, ConcatAssociative
      <3>2. Append(s \o l, e) = (s \o l) \o <<e>>
        BY <2>2, AppendIsConcat
      <3> QED BY <2>1, <3>1, <3>2
    <2>4. FlattenSeq(Append(s \o l, e)) = FlattenSeq(s \o l) \o e
      BY <2>2, FlattenAppend
    <2>5. FlattenSeq(Append(l, e)) = FlattenSeq(l) \o e
      BY FlattenAppend
    <2>6. (FlattenSeq(s) \o FlattenSeq(l)) \o e = FlattenSeq(s) \o (FlattenSeq(l) \o e)
      <3>1. FlattenSeq(s) \in Seq(X) /\ FlattenSeq(l) \in Seq(X) /\ e \in Seq(X)
        BY FlattenFacts
      <3>2. Groups(FlattenSeq(s), FlattenSeq(l), e)
        BY <3>1, ConcatGroups
      <3> QED BY <3>2 DEF Groups
    <2> QED BY <1>2, <2>1, <2>3, <2>4, <2>5, <2>6
  <1>3. t \in T
    <2> HIDE DEF T
    <2> QED BY <1>1, <1>2, ListInduction
  <1> QED BY <1>3

LEMMA HeadAndTail ==
    ASSUME NEW X, NEW s \in Seq(X), s # <<>>
    PROVE  s = <<Head(s)>> \o Tail(s)
  <1>1. Head(s) \in X /\ Tail(s) \in Seq(X)
    BY HeadTailProperties
  <1>2. <<Head(s)>> \in Seq(X) /\ Len(<<Head(s)>>) = 1 /\ <<Head(s)>>[1] = s[1]
    BY <1>1
  <1>3. /\ Len(Tail(s)) = Len(s) - 1 /\ Len(s) \in Nat
        /\ \A i \in 1..Len(Tail(s)) : Tail(s)[i] = s[i + 1]
    BY HeadTailProperties, LenProperties
  <1> DEFINE t == <<Head(s)>> \o Tail(s)
  <1>4. /\ t \in Seq(X) /\ Len(t) = Len(s)
        /\ \A i \in 1..Len(s) : t[i] = IF i <= 1 THEN <<Head(s)>>[i] ELSE Tail(s)[i - 1]
    BY <1>1, <1>2, <1>3, ConcatProperties
  <1> HIDE DEF t
  <1>5. \A i \in 1..Len(s) : t[i] = s[i]
    BY <1>2, <1>3, <1>4
  <1> QED BY <1>4, <1>5, SeqEqual DEF t

LEMMA FlattenOne ==
    ASSUME NEW X, NEW e \in Seq(X)
    PROVE  FlattenSeq(<<e>>) = e
  <1>1. Append(<<>>, e) = <<e>> /\ <<>> \in Seq(Seq(X))
    BY EmptySeq
  <1>2. <<>> \o e = e
    BY ConcatEmptySeq
  <1> QED BY <1>1, <1>2, FlattenAppend, FlattenEmpty

(* Lists of which one is not empty.                                        *)
LEMMA FlattenPick ==
    ASSUME NEW X, NEW s \in Seq(Seq(X)), NEW I, \A i, j \in I : i = j,
           \A i \in 1..Len(s) : i \notin I => s[i] = <<>>
    PROVE  /\ \A i \in 1..Len(s) : i \in I => FlattenSeq(s) = s[i]
           /\ (\A i \in 1..Len(s) : i \notin I) => FlattenSeq(s) = <<>>
  <1> DEFINE Good(l) ==
                (\A i \in 1..Len(l) : i \notin I => l[i] = <<>>) =>
                  /\ \A i \in 1..Len(l) : i \in I => FlattenSeq(l) = l[i]
                  /\ (\A i \in 1..Len(l) : i \notin I) => FlattenSeq(l) = <<>>
             T == {l \in Seq(Seq(X)) : Good(l)}
  <1>1. <<>> \in T
    <2>1. <<>> \in Seq(Seq(X)) /\ Len(<<>>) = 0
      BY EmptySeq
    <2> QED BY <2>1, FlattenEmpty
  <1>2. ASSUME NEW l \in Seq(Seq(X)), NEW e \in Seq(X), l \in T
        PROVE  Append(l, e) \in T
    <2> DEFINE m == Append(l, e)
               n == Len(l)
    <2>1. /\ m \in Seq(Seq(X)) /\ Len(m) = n + 1 /\ n \in Nat
          /\ \A i \in 1..n : m[i] = l[i]
          /\ m[n + 1] = e
      BY AppendProperties, LenProperties
    <2>2. FlattenSeq(m) = FlattenSeq(l) \o e /\ FlattenSeq(l) \in Seq(X)
      BY FlattenAppend, FlattenFacts
    <2>3. FlattenSeq(l) \o <<>> = FlattenSeq(l) /\ <<>> \o e = e
      BY <2>2, ConcatEmptySeq
    <2>4. Good(l)
      BY <1>2
    <2> HIDE DEF m, n
    <2>5. ASSUME \A i \in 1..Len(m) : i \notin I => m[i] = <<>>
          PROVE  /\ \A i \in 1..Len(m) : i \in I => FlattenSeq(m) = m[i]
                 /\ (\A i \in 1..Len(m) : i \notin I) => FlattenSeq(m) = <<>>
      <3>1. \A i \in 1..n : i \in 1..Len(m)
        BY <2>1
      <3>2. /\ \A i \in 1..n : i \in I => FlattenSeq(l) = l[i]
            /\ (\A i \in 1..n : i \notin I) => FlattenSeq(l) = <<>>
        BY <2>1, <2>4, <2>5, <3>1 DEF n
      <3>3. n + 1 \in 1..Len(m)
        BY <2>1
      <3>4. CASE n + 1 \in I
        <4>1. \A i \in 1..n : i \notin I
          BY <2>1, <3>4
        <4>2. FlattenSeq(m) = e
          BY <2>2, <2>3, <3>2, <4>1
        <4> QED BY <2>1, <3>3, <3>4, <4>2
      <3>5. CASE n + 1 \notin I
        <4>1. e = <<>>
          BY <2>1, <2>5, <3>3, <3>5
        <4>2. FlattenSeq(m) = FlattenSeq(l)
          BY <2>2, <2>3, <4>1
        <4>3. \A i \in 1..Len(m) : i \in 1..n \/ i = n + 1
          BY <2>1
        <4> QED BY <2>1, <3>1, <3>2, <3>5, <4>2, <4>3
      <3> QED BY <3>4, <3>5
    <2> QED BY <2>1, <2>5 DEF m
  <1>3. s \in T
    <2> HIDE DEF T
    <2> QED BY <1>1, <1>2, ListInduction
  <1> QED BY <1>3

(***************************************************************************)
(* What each element of a list stands for, joined.                         *)
(***************************************************************************)
EachOf(l, p) == [i \in 1..Len(l) |-> p[l[i]]]
Projected(l, p) == FlattenSeq(EachOf(l, p))

ListsFor(C, X) == [C -> Seq(X)]

LEMMA ProjectedType ==
    ASSUME NEW C, NEW X, NEW p \in ListsFor(C, X), NEW l \in Seq(C)
    PROVE  /\ EachOf(l, p) \in Seq(Seq(X)) /\ Len(EachOf(l, p)) = Len(l)
           /\ Projected(l, p) \in Seq(X)
  <1>1. Len(l) \in Nat /\ \A i \in 1..Len(l) : l[i] \in C
    BY LenProperties, ElementOfSeq
  <1>2. EachOf(l, p) \in Seq(Seq(X)) /\ Len(EachOf(l, p)) = Len(l)
    BY <1>1 DEF EachOf, ListsFor
  <1> QED BY <1>2, FlattenFacts DEF Projected

LEMMA ProjectedEmpty == \A p : Projected(<<>>, p) = <<>>
  <1> SUFFICES ASSUME NEW p PROVE Projected(<<>>, p) = <<>>
    OBVIOUS
  <1>1. EachOf(<<>>, p) = <<>>
    BY DEF EachOf
  <1> QED BY <1>1, FlattenEmpty DEF Projected

LEMMA ProjectedOne ==
    ASSUME NEW C, NEW X, NEW p \in ListsFor(C, X), NEW c \in C
    PROVE  Projected(<<c>>, p) = p[c]
  <1>1. EachOf(<<c>>, p) = <<p[c]>>
    BY DEF EachOf
  <1>2. p[c] \in Seq(X)
    BY DEF ListsFor
  <1> QED BY <1>1, <1>2, FlattenOne DEF Projected

LEMMA ProjectedConcat ==
    ASSUME NEW C, NEW X, NEW p \in ListsFor(C, X), NEW l \in Seq(C), NEW m \in Seq(C)
    PROVE  Projected(l \o m, p) = Projected(l, p) \o Projected(m, p)
  <1> DEFINE k == l \o m
             a == EachOf(l, p)
             b == EachOf(m, p)
             c == EachOf(k, p)
  <1>1. /\ k \in Seq(C) /\ Len(k) = Len(l) + Len(m)
        /\ \A i \in 1..Len(k) : k[i] = IF i <= Len(l) THEN l[i] ELSE m[i - Len(l)]
        /\ Len(l) \in Nat /\ Len(m) \in Nat
    BY ConcatProperties, LenProperties
  <1>2. /\ a \in Seq(Seq(X)) /\ Len(a) = Len(l)
        /\ b \in Seq(Seq(X)) /\ Len(b) = Len(m)
    BY ProjectedType
  <1>3. c \in Seq(Seq(X)) /\ Len(c) = Len(k)
    <2> HIDE DEF k
    <2> QED BY <1>1, ProjectedType
  <1>4. /\ a \o b \in Seq(Seq(X)) /\ Len(a \o b) = Len(k)
        /\ \A i \in 1..Len(k) : (a \o b)[i] = IF i <= Len(l) THEN a[i] ELSE b[i - Len(l)]
    <2> DEFINE Y == Seq(X)
    <2>1. a \in Seq(Y) /\ b \in Seq(Y)
      BY <1>2
    <2> HIDE DEF a, b, Y
    <2>2. /\ a \o b \in Seq(Y) /\ Len(a \o b) = Len(a) + Len(b)
          /\ \A i \in 1..(Len(a) + Len(b)) :
                (a \o b)[i] = IF i <= Len(a) THEN a[i] ELSE b[i - Len(a)]
      BY <2>1, ConcatProperties
    <2> HIDE DEF k
    <2>3. Len(a) = Len(l) /\ Len(b) = Len(m) /\ Len(k) = Len(l) + Len(m)
      BY <1>1, <1>2
    <2>4. a \o b \in Seq(Seq(X))
      BY <2>2 DEF Y
    <2> QED BY <2>2, <2>3, <2>4
  <1>5. ASSUME NEW i \in 1..Len(k) PROVE c[i] = (a \o b)[i]
    <2>1. CASE i <= Len(l)
      <3>1. i \in 1..Len(l)
        BY <1>1, <2>1
      <3> HIDE DEF k
      <3> QED BY <1>1, <1>4, <2>1, <3>1 DEF EachOf
    <2>2. CASE ~(i <= Len(l))
      <3>1. i - Len(l) \in 1..Len(m)
        BY <1>1, <2>2
      <3> HIDE DEF k
      <3> QED BY <1>1, <1>4, <2>2, <3>1 DEF EachOf
    <2> QED BY <2>1, <2>2
  <1>6. c = a \o b
    <2> HIDE DEF a, b, c, k
    <2> QED BY <1>3, <1>4, <1>5, SeqEqual
  <1>7. FlattenSeq(a \o b) = FlattenSeq(a) \o FlattenSeq(b)
    <2> HIDE DEF a, b
    <2> QED BY <1>2, FlattenConcat
  <1> QED BY <1>6, <1>7 DEF Projected

LEMMA ProjectedHead ==
    ASSUME NEW C, NEW X, NEW p \in ListsFor(C, X), NEW l \in Seq(C), l # <<>>
    PROVE  Projected(l, p) = p[Head(l)] \o Projected(Tail(l), p)
  <1>1. Head(l) \in C /\ Tail(l) \in Seq(C) /\ <<Head(l)>> \in Seq(C)
    BY HeadTailProperties, ToSetOfOne
  <1>2. l = <<Head(l)>> \o Tail(l)
    BY HeadAndTail
  <1>3. Projected(<<Head(l)>> \o Tail(l), p) = Projected(<<Head(l)>>, p) \o Projected(Tail(l), p)
    BY <1>1, ProjectedConcat
  <1>4. Projected(<<Head(l)>>, p) = p[Head(l)]
    BY <1>1, ProjectedOne
  <1> QED BY <1>2, <1>3, <1>4

LEMMA ProjectedSame ==
    ASSUME NEW C, NEW p, NEW q, NEW l \in Seq(C), \A c \in ToSet(l) : p[c] = q[c]
    PROVE  Projected(l, p) = Projected(l, q)
  <1>1. \A i \in 1..Len(l) : p[l[i]] = q[l[i]]
    BY ToSetOfSeq
  <1>2. EachOf(l, p) = EachOf(l, q)
    BY <1>1 DEF EachOf
  <1> QED BY <1>2 DEF Projected

LEMMA ProjectedNone ==
    ASSUME NEW C, NEW X, NEW p \in ListsFor(C, X), NEW l \in Seq(C)
    PROVE  Projected(l, p) = <<>> <=> \A c \in ToSet(l) : p[c] = <<>>
  <1> DEFINE T == {m \in Seq(C) : Projected(m, p) = <<>> <=> \A c \in ToSet(m) : p[c] = <<>>}
  <1>1. <<>> \in T
    <2>1. <<>> \in Seq(C)
      BY EmptySeq
    <2>2. ToSet(<<>>) = {}
      BY DEF ToSet
    <2> QED BY <2>1, <2>2, ProjectedEmpty
  <1>2. ASSUME NEW m \in Seq(C), NEW e \in C, m \in T
        PROVE  Append(m, e) \in T
    <2>1. /\ Append(m, e) \in Seq(C) /\ Append(m, e) = m \o <<e>>
          /\ ToSet(Append(m, e)) = ToSet(m) \cup {e}
      BY AppendProperties, AppendIsConcat, ToSetOfAppend
    <2>2. <<e>> \in Seq(C)
      BY ToSetOfOne
    <2>3. Projected(m \o <<e>>, p) = Projected(m, p) \o Projected(<<e>>, p)
      BY <2>2, ProjectedConcat
    <2>4. Projected(<<e>>, p) = p[e] /\ p[e] \in Seq(X)
      BY ProjectedOne DEF ListsFor
    <2>5. Projected(m, p) \in Seq(X)
      BY ProjectedType
    <2>6. Projected(m, p) \o p[e] = <<>> <=> Projected(m, p) = <<>> /\ p[e] = <<>>
      BY <2>4, <2>5, ConcatEqualIffEmpty
    <2> QED BY <1>2, <2>1, <2>3, <2>4, <2>6
  <1>3. l \in T
    <2> HIDE DEF T
    <2> QED BY <1>1, <1>2, ListInduction
  <1> QED BY <1>3

ProjectedEach(s, p, t) == Len(t) = Len(s) /\ \A i \in 1..Len(s) : t[i] = Projected(s[i], p)

LEMMA ProjectedFlatten ==
    ASSUME NEW C, NEW X, NEW p \in ListsFor(C, X), NEW s \in Seq(Seq(C)),
           NEW t \in Seq(Seq(X)), ProjectedEach(s, p, t)
    PROVE  Projected(FlattenSeq(s), p) = FlattenSeq(t)
  <1> DEFINE D == Seq(C)
             q == [l \in D |-> Projected(l, p)]
             u == EachOf(s, q)
  <1>1. q \in ListsFor(Seq(C), X)
    BY ProjectedType DEF ListsFor
  <1>2. u \in Seq(Seq(X)) /\ Len(u) = Len(s)
    <2> HIDE DEF q
    <2> QED BY <1>1, ProjectedType
  <1>3. \A i \in 1..Len(s) : u[i] = t[i]
    <2>1. \A i \in 1..Len(s) : s[i] \in D
      BY ElementOfSeq
    <2> QED BY <2>1 DEF ProjectedEach, EachOf
  <1> DEFINE T == {v \in Seq(Seq(C)) : Projected(FlattenSeq(v), p) = Projected(v, q)}
  <1>4. <<>> \in T
    <2>1. <<>> \in Seq(Seq(C))
      BY EmptySeq
    <2> QED BY <2>1, FlattenEmpty, ProjectedEmpty
  <1>5. ASSUME NEW v \in Seq(Seq(C)), NEW e \in Seq(C), v \in T
        PROVE  Append(v, e) \in T
    <2>1. /\ Append(v, e) \in Seq(Seq(C)) /\ Append(v, e) = v \o <<e>>
          /\ FlattenSeq(Append(v, e)) = FlattenSeq(v) \o e
      BY AppendProperties, AppendIsConcat, FlattenAppend
    <2>2. Projected(FlattenSeq(v) \o e, p) = Projected(FlattenSeq(v), p) \o Projected(e, p)
      <3>1. FlattenSeq(v) \in Seq(C)
        BY FlattenFacts
      <3> HIDE DEF q
      <3> QED BY <3>1, ProjectedConcat
    <2>3. <<e>> \in Seq(Seq(C))
      BY ToSetOfOne
    <2>4. Projected(v \o <<e>>, q) = Projected(v, q) \o Projected(<<e>>, q)
      <3> HIDE DEF q
      <3> QED BY <1>1, <2>3, ProjectedConcat
    <2>5. Projected(<<e>>, q) = Projected(e, p)
      <3>1. q[e] = Projected(e, p)
        OBVIOUS
      <3> HIDE DEF q
      <3> QED BY <1>1, <3>1, ProjectedOne
    <2> HIDE DEF q
    <2> QED BY <1>5, <2>1, <2>2, <2>4, <2>5
  <1>6. s \in T
    <2> HIDE DEF T
    <2> QED BY <1>4, <1>5, ListInduction
  <1>7. Projected(s, q) = FlattenSeq(u)
    BY DEF Projected
  <1>8. u = t
    <2> HIDE DEF u
    <2> QED BY <1>2, <1>3, SeqEqual DEF ProjectedEach
  <1> QED BY <1>6, <1>7, <1>8

LEMMA PrefixOfConcat ==
    ASSUME NEW X, NEW s \in Seq(X), NEW t \in Seq(X)
    PROVE  IsPrefix(s, s \o t)
  <1>1. Len(s \o t) = Len(s) + Len(t) /\ Len(s) \in Nat /\ Len(t) \in Nat
    BY ConcatProperties, LenProperties
  <1>2. SubSeq(s \o t, 1, Len(s)) = SubSeq(s, 1, Len(s))
    <2>1. CASE Len(s) = 0
      BY <2>1, SubSeqEmpty
    <2>2. CASE Len(s) # 0
      <3>1. 1 \in 1..Len(s) /\ Len(s) \in 1..Len(s)
        BY <1>1, <2>2
      <3> QED BY <3>1, SubSeqOfConcat1
    <2> QED BY <2>1, <2>2
  <1> QED BY <1>1, <1>2 DEF IsPrefix

(* Quotient and remainder.                                                 *)
LEMMA Division ==
    ASSUME NEW W \in Nat \ {0}, NEW a \in Nat
    PROVE  /\ a \div W \in Nat /\ a % W \in 0..(W - 1)
           /\ a = W * (a \div W) + (a % W)
  BY SMT

LEMMA OneQuotient ==
    ASSUME NEW W \in Nat \ {0}, NEW q \in Nat, NEW p \in Nat, NEW r \in 0..(W - 1),
           NEW s \in 0..(W - 1), W * q + r = W * p + s
    PROVE  q = p /\ r = s
  <1>1. CASE q < p
    <2>1. PICK k \in Nat : p = q + 1 + k
      <3>1. p - q - 1 \in Nat
        BY <1>1
      <3> QED BY <3>1
    <2>2. W * p = W * q + W + W * k
      BY <2>1
    <2>3. W * k \in Nat
      OBVIOUS
    <2> QED BY <2>2, <2>3
  <1>2. CASE p < q
    <2>1. PICK k \in Nat : q = p + 1 + k
      <3>1. q - p - 1 \in Nat
        BY <1>2
      <3> QED BY <3>1
    <2>2. W * q = W * p + W + W * k
      BY <2>1
    <2>3. W * k \in Nat
      OBVIOUS
    <2> QED BY <2>2, <2>3
  <1> QED BY <1>1, <1>2

LEMMA TurnsAround ==
    ASSUME NEW W \in Nat \ {0}, NEW a \in Nat
    PROVE  (a + W) % W = a % W
  <1>1. /\ a \div W \in Nat /\ a % W \in 0..(W - 1) /\ a = W * (a \div W) + (a % W)
    BY Division
  <1>2. /\ (a + W) \div W \in Nat /\ (a + W) % W \in 0..(W - 1)
        /\ a + W = W * ((a + W) \div W) + ((a + W) % W)
    <2>1. a + W \in Nat
      OBVIOUS
    <2> QED BY <2>1, Division
  <1> DEFINE q == a \div W
             r == a % W
             p == (a + W) \div W
             s == (a + W) % W
             t == q + 1
  <1> HIDE DEF q, r, p, s, t
  <1>3. /\ t \in Nat /\ p \in Nat /\ r \in 0..(W - 1) /\ s \in 0..(W - 1)
    BY <1>1, <1>2 DEF q, r, p, s, t
  <1>4. W * t + r = W * p + s
    <2>1. a = W * q + r /\ a + W = W * p + s
      BY <1>1, <1>2 DEF q, r, p, s
    <2>2. q \in Nat
      BY <1>1 DEF q
    <2>3. W * t = W * q + W
      BY <2>2 DEF t
    <2> QED BY <2>1, <2>2, <2>3, <1>3
  <1>5. r = s
    BY <1>3, <1>4, OneQuotient
  <1> QED BY <1>5 DEF r, s

(* Among W numbers in a row no two have the same remainder.                *)
LEMMA SameTurn ==
    ASSUME NEW W \in Nat \ {0}, NEW a \in Nat, NEW b \in Nat, a <= b, b < a + W, a % W = b % W
    PROVE  a = b
  <1> DEFINE r == a % W
             q == a \div W
             p == b \div W
             k == b - a
  <1>1. /\ q \in Nat /\ r \in 0..(W - 1) /\ a = W * q + r
        /\ p \in Nat /\ b = W * p + r
    BY Division
  <1>2. k \in 0..(W - 1) /\ b = a + k
    OBVIOUS
  <1> HIDE DEF r, q, p, k
  <1>3. W * q + k = W * p + 0
    BY <1>1, <1>2
  <1>4. 0 \in 0..(W - 1)
    OBVIOUS
  <1>5. k = 0
    BY <1>1, <1>2, <1>3, <1>4, OneQuotient
  <1> QED BY <1>2, <1>5

(***************************************************************************)
(* Lists that hold nothing twice.                                          *)
(***************************************************************************)

Distinct(s) == \A i, j \in 1..Len(s) : s[i] = s[j] => i = j

LEMMA DistinctLen ==
    ASSUME NEW X, NEW s \in Seq(X), Distinct(s)
    PROVE  IsFiniteSet(ToSet(s)) /\ Cardinality(ToSet(s)) = Len(s)
  <1>1. Len(s) \in Nat /\ ToSet(s) = {s[i] : i \in 1..Len(s)} /\ s \in Seq(ToSet(s))
    BY LenProperties, ToSetOfSeq
  <1>2. s \in [1..Len(s) -> ToSet(s)]
    BY <1>1
  <1>3. s \in Bijection(1..Len(s), ToSet(s))
    BY <1>1, <1>2 DEF Distinct, Bijection, Injection, Surjection, IsInjective
  <1>4. IsFiniteSet(1..Len(s)) /\ Cardinality(1..Len(s)) = Len(s)
    <2> DEFINE N == Len(s)
    <2>1. N \in Nat
      BY <1>1
    <2> HIDE DEF N
    <2>2. IsFiniteSet(1..N) /\ Cardinality(1..N) = N
      BY <2>1, FS_Interval
    <2> QED BY <2>2 DEF N
  <1>5. ExistsBijection(1..Len(s), ToSet(s))
    BY <1>3 DEF ExistsBijection
  <1> QED BY <1>4, <1>5, FS_Bijection

LEMMA AmongDistinct ==
    ASSUME NEW X, NEW S, NEW s \in Seq(X), Distinct(s)
    PROVE  Distinct(Among(s, S))
  <1>1. PICK at : Stood(s, Len(s), Among(s, S), at)
    BY AmongFacts
  <1>2. Len(s) \in Nat /\ Among(s, S) \in Seq(X \cap S) /\ Len(Among(s, S)) \in Nat
    BY AmongFacts, LenProperties
  <1>3. ASSUME NEW i \in 1..Len(Among(s, S)), NEW j \in 1..Len(Among(s, S)), i < j
        PROVE  Among(s, S)[i] # Among(s, S)[j]
    <2>1. at[i] \in 1..Len(s) /\ at[j] \in 1..Len(s) /\ at[i] < at[j]
      BY <1>1, <1>3 DEF Stood
    <2>2. Among(s, S)[i] = s[at[i]] /\ Among(s, S)[j] = s[at[j]]
      BY <1>1 DEF Stood
    <2>3. at[i] # at[j]
      BY <1>2, <2>1
    <2> QED BY <2>1, <2>2, <2>3 DEF Distinct
  <1>4. \A i, j \in 1..Len(Among(s, S)) : i = j \/ i < j \/ j < i
    BY <1>2
  <1> QED BY <1>3, <1>4 DEF Distinct

(***************************************************************************)
(* Sorting.                                                                *)
(***************************************************************************)

(* The place of one key among others.                                      *)
Rank(keys, i) == Cardinality(Before(keys, i))

LEMMA RankFacts ==
    ASSUME NEW keys \in Seq(Int)
    PROVE  /\ \A i \in 1..Len(keys) : Rank(keys, i) \in 0..(Len(keys) - 1)
           /\ \A i, j \in 1..Len(keys) : Rank(keys, i) = Rank(keys, j) => i = j
           /\ \A i, j \in 1..Len(keys) : Rank(keys, i) < Rank(keys, j) => keys[i] <= keys[j]
           /\ \A n \in 0..(Len(keys) - 1) : \E i \in 1..Len(keys) : Rank(keys, i) = n
  <1> DEFINE N == Len(keys)
             rank == [i \in 1..N |-> Rank(keys, i)]
  <1>1. N \in Nat /\ DOMAIN keys = 1..N /\ \A i \in 1..N : keys[i] \in Int
    BY LenProperties, ElementOfSeq
  <1> HIDE DEF N
  <1>2. ASSUME NEW i \in 1..N
        PROVE  IsFiniteSet(Before(keys, i)) /\ Rank(keys, i) \in 0..(N - 1)
    <2>1. Before(keys, i) \subseteq (1..N) \ {i}
      BY <1>1 DEF Before
    <2>2. IsFiniteSet(1..N) /\ Cardinality(1..N) = N
      BY <1>1, FS_Interval
    <2>3. IsFiniteSet((1..N) \ {i}) /\ Cardinality((1..N) \ {i}) = N - 1
      BY <2>2, FS_RemoveElement
    <2>4. IsFiniteSet(Before(keys, i)) /\ Cardinality(Before(keys, i)) <= N - 1
      BY <2>1, <2>3, FS_Subset
    <2>5. Cardinality(Before(keys, i)) \in Nat
      BY <2>4, FS_CardinalityType
    <2> QED BY <1>1, <2>4, <2>5 DEF Rank
  <1>3. ASSUME NEW i \in 1..N, NEW j \in 1..N, i \in Before(keys, j)
        PROVE  Rank(keys, i) < Rank(keys, j)
    <2>1. Before(keys, i) \subseteq Before(keys, j)
      BY <1>1, <1>3 DEF Before
    <2>2. i \notin Before(keys, i)
      BY <1>1 DEF Before
    <2>3. IsFiniteSet(Before(keys, j)) /\ Rank(keys, i) \in 0..(N - 1) /\ Rank(keys, j) \in 0..(N - 1)
      BY <1>2
    <2>4. Before(keys, i) # Before(keys, j)
      BY <1>3, <2>2
    <2>5. /\ Cardinality(Before(keys, i)) <= Cardinality(Before(keys, j))
          /\ Cardinality(Before(keys, j)) = Cardinality(Before(keys, i)) => Before(keys, j) = Before(keys, i)
      BY <2>1, <2>3, FS_Subset
    <2> QED BY <2>3, <2>4, <2>5 DEF Rank
  <1>4. \A i, j \in 1..N : i = j \/ i \in Before(keys, j) \/ j \in Before(keys, i)
    BY <1>1 DEF Before
  <1>5. \A i, j \in 1..N : i # j => Rank(keys, i) < Rank(keys, j) \/ Rank(keys, j) < Rank(keys, i)
    BY <1>3, <1>4
  <1>6. \A i, j \in 1..N : Rank(keys, i) = Rank(keys, j) => i = j
    BY <1>2, <1>5
  <1>7. ASSUME NEW i \in 1..N, NEW j \in 1..N, Rank(keys, i) < Rank(keys, j)
        PROVE  keys[i] <= keys[j]
    <2>1. i # j /\ j \notin Before(keys, i)
      <3>1. Rank(keys, i) \in Nat /\ Rank(keys, j) \in Nat
        BY <1>2
      <3>2. ~(Rank(keys, j) < Rank(keys, i)) /\ Rank(keys, i) # Rank(keys, j)
        BY <1>7, <3>1
      <3> QED BY <1>3, <3>2
    <2> QED BY <1>1, <1>4, <2>1 DEF Before
  <1>8. ASSUME NEW n \in 0..(N - 1) PROVE \E i \in 1..N : Rank(keys, i) = n
    <2>1. rank \in [1..N -> 0..(N - 1)]
      BY <1>2
    <2>2. rank \in Injection(1..N, 0..(N - 1))
      BY <1>6, <2>1 DEF Injection, IsInjective
    <2>3. /\ IsFiniteSet(0..(N - 1)) /\ Cardinality(0..(N - 1)) = N
          /\ Cardinality(1..N) = N
      BY <1>1, FS_Interval
    <2>4. rank \in Surjection(1..N, 0..(N - 1))
      BY <2>2, <2>3, FS_Injection
    <2> QED BY <2>4 DEF Surjection
  <1> QED BY <1>2, <1>6, <1>7, <1>8 DEF N

(* The ranks of keys are a permutation of their places, in order.          *)
LEMMA RankedFacts ==
    ASSUME NEW keys \in Seq(Int)
    PROVE  /\ DOMAIN Ranked(keys) = 1..Len(keys)
           /\ \A p \in 1..Len(keys) : Ranked(keys)[p] \in 1..Len(keys)
           /\ \A p, q \in 1..Len(keys) : Ranked(keys)[p] = Ranked(keys)[q] => p = q
           /\ \A i \in 1..Len(keys) : \E p \in 1..Len(keys) : Ranked(keys)[p] = i
           /\ \A p, q \in 1..Len(keys) : p < q => keys[Ranked(keys)[p]] <= keys[Ranked(keys)[q]]
  <1> DEFINE N == Len(keys)
             R == Ranked(keys)
  <1>1. N \in Nat /\ DOMAIN keys = 1..N
    BY LenProperties
  <1>2. /\ \A i \in 1..N : Rank(keys, i) \in 0..(N - 1)
        /\ \A i, j \in 1..N : Rank(keys, i) = Rank(keys, j) => i = j
        /\ \A i, j \in 1..N : Rank(keys, i) < Rank(keys, j) => keys[i] <= keys[j]
        /\ \A n \in 0..(N - 1) : \E i \in 1..N : Rank(keys, i) = n
    BY RankFacts
  <1>3. DOMAIN R = 1..N /\ \A p \in 1..N : R[p] = CHOOSE i \in 1..N : Rank(keys, i) = p - 1
    BY <1>1 DEF Ranked, Rank
  <1> HIDE DEF R, N
  <1>4. \A p \in 1..N : R[p] \in 1..N /\ Rank(keys, R[p]) = p - 1
    <2> SUFFICES ASSUME NEW p \in 1..N PROVE R[p] \in 1..N /\ Rank(keys, R[p]) = p - 1
      OBVIOUS
    <2>1. p - 1 \in 0..(N - 1)
      BY <1>1
    <2>2. \E i \in 1..N : Rank(keys, i) = p - 1
      BY <1>2, <2>1
    <2> QED BY <1>3, <2>2
  <1>5. \A p, q \in 1..N : R[p] = R[q] => p = q
    <2> SUFFICES ASSUME NEW p \in 1..N, NEW q \in 1..N, R[p] = R[q] PROVE p = q
      OBVIOUS
    <2>1. p - 1 = q - 1
      BY <1>4
    <2> QED BY <1>1, <2>1
  <1>6. \A i \in 1..N : \E p \in 1..N : R[p] = i
    <2> SUFFICES ASSUME NEW i \in 1..N PROVE \E p \in 1..N : R[p] = i
      OBVIOUS
    <2> DEFINE p == Rank(keys, i) + 1
    <2>1. Rank(keys, i) \in 0..(N - 1)
      BY <1>2
    <2>2. p \in 1..N /\ p - 1 = Rank(keys, i)
      BY <1>1, <2>1
    <2> HIDE DEF p
    <2>3. R[p] \in 1..N /\ Rank(keys, R[p]) = Rank(keys, i)
      BY <1>4, <2>2
    <2> QED BY <1>2, <2>2, <2>3
  <1>7. \A p, q \in 1..N : p < q => keys[R[p]] <= keys[R[q]]
    <2> SUFFICES ASSUME NEW p \in 1..N, NEW q \in 1..N, p < q PROVE keys[R[p]] <= keys[R[q]]
      OBVIOUS
    <2>1. p - 1 < q - 1
      BY <1>1
    <2>2. Rank(keys, R[p]) < Rank(keys, R[q]) /\ R[p] \in 1..N /\ R[q] \in 1..N
      BY <1>4, <2>1
    <2> QED BY <1>2, <2>2
  <1> QED BY <1>3, <1>4, <1>5, <1>6, <1>7 DEF N, R

(* A sorted list has the elements of the list, as often.                   *)
LEMMA SortedByFacts ==
    ASSUME NEW X, NEW s \in Seq(X), NEW keys \in Seq(Int), Len(keys) = Len(s)
    PROVE  /\ SortedBy(s, keys) \in Seq(X)
           /\ Len(SortedBy(s, keys)) = Len(s)
           /\ \A p \in 1..Len(s) : SortedBy(s, keys)[p] = s[Ranked(keys)[p]]
           /\ ToSet(SortedBy(s, keys)) = ToSet(s)
           /\ Distinct(s) => Distinct(SortedBy(s, keys))
  <1> DEFINE N == Len(s)
             R == Ranked(keys)
             t == SortedBy(s, keys)
  <1>1. N \in Nat /\ DOMAIN s = 1..N /\ \A i \in 1..N : s[i] \in X
    BY LenProperties, ElementOfSeq
  <1>2. /\ \A p \in 1..N : R[p] \in 1..N
        /\ \A p, q \in 1..N : R[p] = R[q] => p = q
        /\ \A i \in 1..N : \E p \in 1..N : R[p] = i
    BY RankedFacts
  <1>3. t = [p \in 1..N |-> s[R[p]]]
    BY <1>1 DEF SortedBy
  <1> HIDE DEF N, R, t
  <1>4. \A p \in 1..N : t[p] = s[R[p]] /\ t[p] \in X
    BY <1>1, <1>2, <1>3
  <1>5. t \in Seq(X) /\ Len(t) = N
    BY <1>1, <1>3, <1>4
  <1>6. ToSet(t) = {t[p] : p \in 1..N} /\ ToSet(s) = {s[i] : i \in 1..N}
    BY <1>5, ToSetOfSeq DEF N
  <1>7. ToSet(t) = ToSet(s)
    <2>1. ASSUME NEW p \in 1..N PROVE t[p] \in ToSet(s)
      <3>1. R[p] \in 1..N /\ t[p] = s[R[p]]
        BY <1>2, <1>4
      <3> QED BY <1>6, <3>1
    <2>2. ASSUME NEW i \in 1..N PROVE s[i] \in ToSet(t)
      <3>1. PICK p \in 1..N : R[p] = i
        BY <1>2
      <3>2. t[p] = s[i]
        BY <1>4, <3>1
      <3> QED BY <1>6, <3>2
    <2> QED BY <1>6, <2>1, <2>2
  <1>8. ASSUME Distinct(s), NEW p \in 1..N, NEW q \in 1..N, t[p] = t[q] PROVE p = q
    <2>1. s[R[p]] = s[R[q]] /\ R[p] \in 1..N /\ R[q] \in 1..N
      BY <1>2, <1>4, <1>8
    <2>2. R[p] = R[q]
      BY <1>8, <2>1 DEF Distinct, N
    <2> QED BY <1>2, <2>2
  <1>9. Distinct(s) => Distinct(t)
    BY <1>5, <1>8 DEF Distinct
  <1> QED BY <1>4, <1>5, <1>7, <1>9 DEF N, R, t

LEMMA FirstsFacts ==
    ASSUME NEW X, NEW s \in Seq(X)
    PROVE  /\ Firsts(s) \in Seq(X)
           /\ ToSet(Firsts(s)) = ToSet(s)
           /\ Distinct(Firsts(s))
  <1> DEFINE N == Len(s)
             new == {i \in 1..N : \A j \in 1..(i - 1) : s[j] # s[i]}
             id == [i \in 1..N |-> i]
             first == Among(id, new)
             t == Firsts(s)
  <1>1. N \in Nat /\ DOMAIN s = 1..N /\ \A i \in 1..N : s[i] \in X
    BY LenProperties, ElementOfSeq
  <1> HIDE DEF N
  <1>2. id \in Seq(1..N) /\ Len(id) = N /\ \A i \in 1..N : id[i] = i
    BY <1>1
  <1>3. ToSet(id) = 1..N
    <2>1. ToSet(id) = {id[i] : i \in 1..N}
      BY <1>2, ToSetOfSeq
    <2> HIDE DEF id
    <2> QED BY <1>2, <2>1
  <1>4. Distinct(id)
    BY <1>2 DEF Distinct
  <1>5. t = [k \in DOMAIN first |-> s[first[k]]]
    BY <1>1 DEF Firsts
  <1> HIDE DEF id
  <1>6. first \in Seq((1..N) \cap new) /\ ToSet(first) = (1..N) \cap new /\ Distinct(first)
    <2>1. first \in Seq((1..N) \cap new) /\ ToSet(first) = ToSet(id) \cap new
      BY <1>2, AmongFacts
    <2>2. Distinct(first)
      BY <1>2, <1>4, AmongDistinct
    <2> QED BY <1>3, <2>1, <2>2
  <1> HIDE DEF first
  <1> DEFINE M == Len(first)
  <1>7. M \in Nat /\ DOMAIN first = 1..M /\ \A k \in 1..M : first[k] \in 1..N /\ first[k] \in new
    BY <1>6, LenProperties, ElementOfSeq
  <1>8. ToSet(first) = {first[k] : k \in 1..M}
    BY <1>6, ToSetOfSeq
  <1> HIDE DEF M
  <1>9. t \in Seq(X) /\ Len(t) = M /\ \A k \in 1..M : t[k] = s[first[k]]
    BY <1>1, <1>5, <1>7
  <1>10. ToSet(t) = {t[k] : k \in 1..M} /\ ToSet(s) = {s[i] : i \in 1..N}
    BY <1>9, ToSetOfSeq DEF N
  <1> HIDE DEF t, new
  <1>11. ASSUME NEW i \in 1..N PROVE s[i] \in ToSet(t)
    <2> DEFINE I == {j \in 1..N : s[j] = s[i]}
    <2>1. I \in SUBSET (1..N) /\ i \in I
      OBVIOUS
    <2> HIDE DEF I
    <2>2. Min(I) \in I /\ \A j \in I : Min(I) <= j
      BY <1>1, <2>1, LeastOf
    <2>3. PICK m \in I : \A j \in I : m <= j
      BY <2>2
    <2>4. m \in 1..N /\ s[m] = s[i]
      BY <2>3 DEF I
    <2>5. \A j \in 1..(m - 1) : s[j] # s[m]
      <3> SUFFICES ASSUME NEW j \in 1..(m - 1), s[j] = s[m] PROVE FALSE
        OBVIOUS
      <3>1. j \in 1..N
        BY <1>1, <2>4
      <3>2. j \in I
        BY <2>4, <3>1 DEF I
      <3> QED BY <1>1, <2>3, <2>4, <3>1, <3>2
    <2>6. m \in ToSet(first)
      BY <1>6, <2>4, <2>5 DEF new
    <2>7. PICK k \in 1..M : first[k] = m
      BY <1>8, <2>6
    <2>8. t[k] = s[i]
      BY <1>9, <2>4, <2>7
    <2> QED BY <1>10, <2>8
  <1>12. ASSUME NEW k \in 1..M PROVE t[k] \in ToSet(s)
    BY <1>7, <1>9, <1>10
  <1>13. ToSet(t) = ToSet(s)
    BY <1>10, <1>11, <1>12
  <1>14. ASSUME NEW k \in 1..M, NEW l \in 1..M, t[k] = t[l] PROVE k = l
    <2>1. /\ first[k] \in 1..N /\ first[l] \in 1..N /\ s[first[k]] = s[first[l]]
          /\ \A j \in 1..(first[k] - 1) : s[j] # s[first[k]]
          /\ \A j \in 1..(first[l] - 1) : s[j] # s[first[l]]
      BY <1>7, <1>9, <1>14 DEF new
    <2>2. ~(first[k] < first[l]) /\ ~(first[l] < first[k])
      BY <1>1, <2>1
    <2>3. first[k] = first[l]
      BY <1>1, <2>1, <2>2
    <2> QED BY <1>6, <2>3 DEF Distinct, M
  <1>15. Distinct(t)
    BY <1>9, <1>14 DEF Distinct
  <1> QED BY <1>9, <1>13, <1>15 DEF t

(* Increasing positions that are all there are the positions in order.     *)
LEMMA IncreasingWhole ==
    ASSUME NEW n \in Nat, NEW u \in Seq(Nat), ToSet(u) = 0..(n - 1),
           \A p, q \in 1..Len(u) : p < q => u[p] < u[q]
    PROVE  u = [p \in 1..n |-> p - 1]
  <1>1. Len(u) \in Nat /\ \A p \in 1..Len(u) : u[p] \in Nat
    BY LenProperties, ElementOfSeq
  <1>2. Distinct(u)
    BY <1>1 DEF Distinct
  <1>3. Len(u) = n
    <2>1. Cardinality(ToSet(u)) = Len(u)
      BY <1>2, DistinctLen
    <2>2. Cardinality(0..(n - 1)) = n
      BY FS_Interval
    <2> QED BY <2>1, <2>2
  <1>4. ToSet(u) = {u[p] : p \in 1..n}
    BY <1>3, ToSetOfSeq
  <1>5. \A p \in 1..n : u[p] \in 0..(n - 1)
    BY <1>4
  <1> DEFINE Up == {k \in 0..n : k = 0 \/ u[k] >= k - 1}
             Down == {k \in 0..n : k = n \/ u[n - k] <= n - k - 1}
  <1>6. \A k \in 0..n : k \in Up
    <2>1. 0 \in Up
      OBVIOUS
    <2>2. ASSUME NEW k \in 0..(n - 1), k \in Up PROVE k + 1 \in Up
      <3>1. CASE k = 0
        BY <1>5, <3>1
      <3>2. CASE k # 0
        <4>1. k \in 1..n /\ k + 1 \in 1..n
          BY <3>2
        <4>2. u[k] < u[k + 1] /\ u[k] \in Nat /\ u[k + 1] \in Nat
          BY <1>1, <1>3, <4>1
        <4> QED BY <2>2, <3>2, <4>1, <4>2
      <3> QED BY <3>1, <3>2
    <2> HIDE DEF Up
    <2> QED BY <2>1, <2>2, Induction
  <1>7. \A k \in 0..n : k \in Down
    <2>1. 0 \in Down
      <3>1. CASE n = 0
        BY <3>1
      <3>2. CASE n # 0
        <4>1. n \in 1..n /\ n - 0 = n
          BY <3>2
        <4>2. u[n] \in 0..(n - 1)
          BY <1>5, <4>1
        <4> QED BY <4>1, <4>2
      <3> QED BY <3>1, <3>2
    <2>2. ASSUME NEW k \in 0..(n - 1), k \in Down PROVE k + 1 \in Down
      <3>1. CASE k + 1 = n
        BY <3>1
      <3>2. CASE k + 1 # n
        <4>1. n - k \in 1..n /\ n - (k + 1) \in 1..n /\ n - (k + 1) < n - k
          BY <3>2
        <4>2. u[n - (k + 1)] < u[n - k] /\ u[n - k] \in Nat /\ u[n - (k + 1)] \in Nat
          BY <1>1, <1>3, <4>1
        <4>3. u[n - k] <= n - k - 1
          BY <2>2, <3>2
        <4>4. u[n - (k + 1)] <= n - (k + 1) - 1
          BY <4>2, <4>3
        <4> QED BY <4>4
      <3> QED BY <3>1, <3>2
    <2> HIDE DEF Down
    <2> QED BY <2>1, <2>2, Induction
  <1>8. ASSUME NEW p \in 1..n PROVE u[p] = p - 1
    <2>1. p \in Up /\ n - p \in Down
      <3>1. p \in 0..n /\ n - p \in 0..n
        OBVIOUS
      <3> HIDE DEF Up, Down
      <3> QED BY <1>6, <1>7, <3>1
    <2>2. u[p] >= p - 1
      BY <2>1
    <2>3. n - (n - p) = p /\ n - p # n
      OBVIOUS
    <2>4. u[p] <= p - 1
      BY <2>1, <2>3
    <2> QED BY <1>5, <2>2, <2>4
  <1> QED BY <1>3, <1>8

(***************************************************************************)
(* A list of lists that divides a set: nothing is in two of them.          *)
(***************************************************************************)

Divides(ps, S) ==
    /\ \A t \in 1..Len(ps) : Distinct(ps[t]) /\ ps[t] # <<>>
    /\ \A t, u \in 1..Len(ps) : \A e : e \in ToSet(ps[t]) /\ e \in ToSet(ps[u]) => t = u
    /\ \A e : e \in S <=> \E t \in 1..Len(ps) : e \in ToSet(ps[t])

LEMMA DistinctConcat ==
    ASSUME NEW X, NEW a \in Seq(X), NEW b \in Seq(X), Distinct(a), Distinct(b),
           ToSet(a) \cap ToSet(b) = {}
    PROVE  Distinct(a \o b)
  <1>1. /\ a \o b \in Seq(X) /\ Len(a \o b) = Len(a) + Len(b)
        /\ \A i \in 1..(Len(a) + Len(b)) : (a \o b)[i] = IF i <= Len(a) THEN a[i] ELSE b[i - Len(a)]
        /\ Len(a) \in Nat /\ Len(b) \in Nat
    BY ConcatProperties, LenProperties
  <1>2. ToSet(a) = {a[i] : i \in 1..Len(a)} /\ ToSet(b) = {b[i] : i \in 1..Len(b)}
    BY ToSetOfSeq
  <1> DEFINE c == a \o b
  <1>3. \A i \in 1..Len(a) : c[i] = a[i]
    BY <1>1
  <1>4. \A i \in (Len(a) + 1)..(Len(a) + Len(b)) : i - Len(a) \in 1..Len(b) /\ c[i] = b[i - Len(a)]
    BY <1>1
  <1>5. Len(c) = Len(a) + Len(b)
    BY <1>1
  <1> HIDE DEF c
  <1>6. ASSUME NEW i \in 1..Len(c), NEW j \in 1..Len(c), c[i] = c[j] PROVE i = j
    <2>1. CASE i <= Len(a) /\ j <= Len(a)
      <3>1. i \in 1..Len(a) /\ j \in 1..Len(a)
        BY <1>1, <1>5, <2>1
      <3> QED BY <1>3, <1>6, <3>1 DEF Distinct
    <2>2. CASE i > Len(a) /\ j > Len(a)
      <3>1. i \in (Len(a) + 1)..(Len(a) + Len(b)) /\ j \in (Len(a) + 1)..(Len(a) + Len(b))
        BY <1>1, <1>5, <2>2
      <3>2. i - Len(a) = j - Len(a)
        BY <1>4, <1>6, <3>1 DEF Distinct
      <3> QED BY <1>1, <3>1, <3>2
    <2>3. CASE i <= Len(a) /\ j > Len(a)
      <3>1. i \in 1..Len(a) /\ j \in (Len(a) + 1)..(Len(a) + Len(b))
        BY <1>1, <1>5, <2>3
      <3>2. c[i] \in ToSet(a) /\ c[j] \in ToSet(b)
        BY <1>2, <1>3, <1>4, <3>1
      <3> QED BY <1>6, <3>2
    <2>4. CASE i > Len(a) /\ j <= Len(a)
      <3>1. j \in 1..Len(a) /\ i \in (Len(a) + 1)..(Len(a) + Len(b))
        BY <1>1, <1>5, <2>4
      <3>2. c[j] \in ToSet(a) /\ c[i] \in ToSet(b)
        BY <1>2, <1>3, <1>4, <3>1
      <3> QED BY <1>6, <3>2
    <2>5. i \in Nat /\ j \in Nat
      BY <1>1, <1>5
    <2> QED BY <1>1, <2>1, <2>2, <2>3, <2>4, <2>5
  <1> QED BY <1>6 DEF Distinct, c

(* Where the lists of a concatenation come from.                           *)
LEMMA ConcatAt ==
    ASSUME NEW X, NEW a \in Seq(X), NEW b \in Seq(X)
    PROVE  /\ a \o b \in Seq(X) /\ Len(a \o b) = Len(a) + Len(b)
           /\ Len(a) \in Nat /\ Len(b) \in Nat
           /\ \A t \in 1..Len(a) : (a \o b)[t] = a[t]
           /\ \A t \in 1..Len(b) : (a \o b)[Len(a) + t] = b[t]
           /\ \A t \in 1..Len(a \o b) : t \in 1..Len(a) \/ t - Len(a) \in 1..Len(b)
  <1>1. /\ a \o b \in Seq(X) /\ Len(a \o b) = Len(a) + Len(b)
        /\ \A i \in 1..(Len(a) + Len(b)) : (a \o b)[i] = IF i <= Len(a) THEN a[i] ELSE b[i - Len(a)]
        /\ Len(a) \in Nat /\ Len(b) \in Nat
    BY ConcatProperties, LenProperties
  <1> DEFINE c == a \o b
             m == Len(a)
             n == Len(b)
  <1>2. /\ Len(c) = m + n /\ m \in Nat /\ n \in Nat
        /\ \A i \in 1..(m + n) : c[i] = IF i <= m THEN a[i] ELSE b[i - m]
    BY <1>1
  <1> HIDE DEF c, m, n
  <1>3. \A t \in 1..m : c[t] = a[t]
    BY <1>2
  <1>4. \A t \in 1..n : c[m + t] = b[t]
    <2> SUFFICES ASSUME NEW t \in 1..n PROVE c[m + t] = b[t]
      OBVIOUS
    <2>1. m + t \in 1..(m + n) /\ ~(m + t <= m) /\ (m + t) - m = t
      BY <1>2
    <2> QED BY <1>2, <2>1
  <1>5. \A t \in 1..Len(c) : t \in 1..m \/ t - m \in 1..n
    BY <1>2
  <1> QED BY <1>1, <1>3, <1>4, <1>5 DEF c, m, n

LEMMA DividesConcat ==
    ASSUME NEW X, NEW a \in Seq(X), NEW b \in Seq(X), NEW S, NEW T,
           Divides(a, S), Divides(b, T), S \cap T = {}
    PROVE  Divides(a \o b, S \cup T)
  <1> DEFINE c == a \o b
             m == Len(a)
             n == Len(b)
  <1>1. /\ Len(c) = m + n /\ m \in Nat /\ n \in Nat
        /\ \A t \in 1..m : c[t] = a[t]
        /\ \A t \in 1..n : c[m + t] = b[t]
        /\ \A t \in 1..Len(c) : t \in 1..m \/ t - m \in 1..n
    BY ConcatAt
  <1> HIDE DEF c, m, n
  <1>2. \A t \in 1..Len(c) : (t - m \in 1..n) => c[t] = b[t - m]
    <2> SUFFICES ASSUME NEW t \in 1..Len(c), t - m \in 1..n PROVE c[t] = b[t - m]
      OBVIOUS
    <2>1. m + (t - m) = t
      BY <1>1
    <2> QED BY <1>1, <2>1
  <1>3. /\ \A t \in 1..m : Distinct(a[t]) /\ a[t] # <<>>
        /\ \A t, u \in 1..m : \A e : e \in ToSet(a[t]) /\ e \in ToSet(a[u]) => t = u
        /\ \A e : e \in S <=> \E t \in 1..m : e \in ToSet(a[t])
    BY DEF Divides, m
  <1>4. /\ \A t \in 1..n : Distinct(b[t]) /\ b[t] # <<>>
        /\ \A t, u \in 1..n : \A e : e \in ToSet(b[t]) /\ e \in ToSet(b[u]) => t = u
        /\ \A e : e \in T <=> \E t \in 1..n : e \in ToSet(b[t])
    BY DEF Divides, n
  <1>5. ASSUME NEW t \in 1..Len(c) PROVE Distinct(c[t]) /\ c[t] # <<>>
    <2>1. CASE t \in 1..m
      BY <1>1, <1>3, <2>1
    <2>2. CASE t - m \in 1..n
      BY <1>2, <1>4, <2>2
    <2> QED BY <1>1, <2>1, <2>2
  <1>6. ASSUME NEW t \in 1..Len(c), NEW u \in 1..Len(c), NEW e, e \in ToSet(c[t]), e \in ToSet(c[u])
        PROVE  t = u
    <2>1. CASE t \in 1..m /\ u \in 1..m
      BY <1>1, <1>3, <1>6, <2>1
    <2>2. CASE t - m \in 1..n /\ u - m \in 1..n
      <3>1. t - m = u - m
        BY <1>2, <1>4, <1>6, <2>2
      <3> QED BY <1>1, <3>1
    <2>3. CASE t \in 1..m /\ u - m \in 1..n
      <3>1. e \in S
        BY <1>1, <1>3, <1>6, <2>3
      <3>2. e \in T
        BY <1>2, <1>4, <1>6, <2>3
      <3> QED BY <3>1, <3>2
    <2>4. CASE t - m \in 1..n /\ u \in 1..m
      <3>1. e \in S
        BY <1>1, <1>3, <1>6, <2>4
      <3>2. e \in T
        BY <1>2, <1>4, <1>6, <2>4
      <3> QED BY <3>1, <3>2
    <2> QED BY <1>1, <2>1, <2>2, <2>3, <2>4
  <1>7. ASSUME NEW e PROVE e \in S \cup T <=> \E t \in 1..Len(c) : e \in ToSet(c[t])
    <2>1. ASSUME e \in S PROVE \E t \in 1..Len(c) : e \in ToSet(c[t])
      <3>1. PICK t \in 1..m : e \in ToSet(a[t])
        BY <1>3, <2>1
      <3>2. t \in 1..Len(c) /\ c[t] = a[t]
        BY <1>1
      <3> QED BY <3>1, <3>2
    <2>2. ASSUME e \in T PROVE \E t \in 1..Len(c) : e \in ToSet(c[t])
      <3>1. PICK t \in 1..n : e \in ToSet(b[t])
        BY <1>4, <2>2
      <3>2. m + t \in 1..Len(c) /\ c[m + t] = b[t]
        BY <1>1
      <3> QED BY <3>1, <3>2
    <2>3. ASSUME NEW t \in 1..Len(c), e \in ToSet(c[t]) PROVE e \in S \cup T
      <3>1. CASE t \in 1..m
        BY <1>1, <1>3, <2>3, <3>1
      <3>2. CASE t - m \in 1..n
        BY <1>2, <1>4, <2>3, <3>2
      <3> QED BY <1>1, <3>1, <3>2
    <2> QED BY <2>1, <2>2, <2>3
  <1> QED BY <1>5, <1>6, <1>7 DEF Divides, c

LEMMA DividesOne ==
    ASSUME NEW X, NEW s \in Seq(X), Distinct(s), s # <<>>
    PROVE  Divides(<<s>>, ToSet(s))
  <1>1. Len(<<s>>) = 1 /\ <<s>>[1] = s
    OBVIOUS
  <1> DEFINE t == <<s>>
  <1> HIDE DEF t
  <1>2. Len(t) = 1 /\ t[1] = s
    BY <1>1 DEF t
  <1>3. 1..1 = {1}
    OBVIOUS
  <1> QED BY <1>2, <1>3 DEF Divides, t

LEMMA DividesNone == Divides(<<>>, {})
  <1>1. Len(<<>>) = 0 /\ 1..0 = {}
    OBVIOUS
  <1> QED BY <1>1 DEF Divides

(* Joined again, a division of a set has all of it once.                   *)
LEMMA FlattenDivides ==
    ASSUME NEW X, NEW ps \in Seq(Seq(X)), NEW S, Divides(ps, S)
    PROVE  /\ FlattenSeq(ps) \in Seq(X)
           /\ Distinct(FlattenSeq(ps))
           /\ ToSet(FlattenSeq(ps)) = S
  <1> DEFINE Y == Seq(X)
             Apart(l) == /\ \A t \in 1..Len(l) : Distinct(l[t])
                         /\ \A t, u \in 1..Len(l) : \A e :
                                e \in ToSet(l[t]) /\ e \in ToSet(l[u]) => t = u
             T == {l \in Seq(Seq(X)) : Apart(l) => Distinct(FlattenSeq(l))}
  <1>1. <<>> \in T
    <2>1. FlattenSeq(<<>>) = <<>> /\ <<>> \in Seq(Seq(X))
      BY FlattenEmpty, EmptySeq
    <2>2. Distinct(<<>>)
      BY DEF Distinct
    <2> HIDE DEF Apart
    <2> QED BY <2>1, <2>2
  <1>2. ASSUME NEW l \in Seq(Seq(X)), NEW e \in Seq(X), l \in T PROVE Append(l, e) \in T
    <2> DEFINE m == Append(l, e)
               n == Len(l)
    <2>1. m \in Seq(Seq(X)) /\ Len(m) = n + 1 /\ n \in Nat /\ m[n + 1] = e /\ \A t \in 1..n : m[t] = l[t]
      BY AppendProperties, LenProperties
    <2> HIDE DEF m, n
    <2> SUFFICES ASSUME Apart(m) PROVE Distinct(FlattenSeq(m))
      BY <2>1 DEF m
    <2>2. n + 1 \in 1..(n + 1) /\ \A t \in 1..n : t \in 1..(n + 1) /\ t # n + 1
      BY <2>1
    <2>3. Apart(l) /\ Distinct(e)
      BY <2>1, <2>2 DEF n
    <2>4. FlattenSeq(m) = FlattenSeq(l) \o e
      BY FlattenAppend DEF m
    <2>5. FlattenSeq(l) \in Seq(X) /\ ToSet(FlattenSeq(l)) = UNION {ToSet(k) : k \in ToSet(l)}
      BY FlattenFacts
    <2>6. ToSet(l) = {l[t] : t \in 1..n}
      <3> HIDE DEF T
      <3> QED BY ToSetOfSeq DEF n
    <2>7. \A c : ~(c \in ToSet(FlattenSeq(l)) /\ c \in ToSet(e))
      <3> SUFFICES ASSUME NEW c, c \in ToSet(FlattenSeq(l)), c \in ToSet(e) PROVE FALSE
        OBVIOUS
      <3>1. PICK t \in 1..n : c \in ToSet(l[t])
        BY <2>5, <2>6
      <3>2. c \in ToSet(m[t]) /\ c \in ToSet(m[n + 1])
        BY <2>1, <3>1
      <3> QED BY <2>1, <2>2, <3>2
    <2>8. Distinct(FlattenSeq(l))
      BY <1>2, <2>3
    <2> HIDE DEF Apart, T
    <2>9. ToSet(FlattenSeq(l)) \cap ToSet(e) = {}
      BY <2>7
    <2> QED BY <2>3, <2>4, <2>5, <2>8, <2>9, DistinctConcat
  <1>3. \A l \in Seq(Y) : l \in T
    <2> HIDE DEF T, Y
    <2>1. \A s \in Seq(Y), e \in Y : s \in T => Append(s, e) \in T
      BY <1>2 DEF Y
    <2> QED BY <1>1, <2>1, ListInduction
  <1>4. Apart(ps)
    BY DEF Divides
  <1>5. Distinct(FlattenSeq(ps))
    <2> HIDE DEF Apart
    <2> QED BY <1>3, <1>4
  <1>6. FlattenSeq(ps) \in Seq(X) /\ ToSet(FlattenSeq(ps)) = UNION {ToSet(k) : k \in ToSet(ps)}
    BY FlattenFacts
  <1>7. ToSet(ps) = {ps[t] : t \in 1..Len(ps)}
    BY ToSetOfSeq
  <1>8. \A e : e \in UNION {ToSet(k) : k \in ToSet(ps)} <=> \E t \in 1..Len(ps) : e \in ToSet(ps[t])
    BY <1>7
  <1>9. \A e : e \in S <=> e \in ToSet(FlattenSeq(ps))
    BY <1>6, <1>8 DEF Divides
  <1> QED BY <1>5, <1>6, <1>9

(* Parts of the parts of a set divide it.                                  *)
DividesAll(pss, f) ==
    /\ \A t \in 1..Len(pss) : Divides(pss[t], f[t])
    /\ \A t, u \in 1..Len(pss) : \A e : e \in f[t] /\ e \in f[u] => t = u

LEMMA FlattenDividesAll ==
    ASSUME NEW X, NEW pss \in Seq(Seq(X)), NEW f, DividesAll(pss, f)
    PROVE  Divides(FlattenSeq(pss), UNION {f[t] : t \in 1..Len(pss)})
  <1> DEFINE Y == Seq(X)
             T == {l \in Seq(Seq(X)) : DividesAll(l, f) => Divides(FlattenSeq(l), UNION {f[t] : t \in 1..Len(l)})}
  <1>1. <<>> \in T
    <2>1. FlattenSeq(<<>>) = <<>> /\ <<>> \in Seq(Seq(X))
      BY FlattenEmpty, EmptySeq
    <2>2. UNION {f[t] : t \in 1..Len(<<>>)} = {}
      OBVIOUS
    <2> QED BY <2>1, <2>2, DividesNone
  <1>2. ASSUME NEW l \in Seq(Seq(X)), NEW e \in Seq(X), l \in T PROVE Append(l, e) \in T
    <2> DEFINE m == Append(l, e)
               n == Len(l)
               S == UNION {f[t] : t \in 1..n}
    <2>1. m \in Seq(Seq(X)) /\ Len(m) = n + 1 /\ n \in Nat /\ m[n + 1] = e /\ \A t \in 1..n : m[t] = l[t]
      BY AppendProperties, LenProperties
    <2> HIDE DEF m, n
    <2> SUFFICES ASSUME DividesAll(m, f) PROVE Divides(FlattenSeq(m), UNION {f[t] : t \in 1..Len(m)})
      BY <2>1 DEF m
    <2>2. n + 1 \in 1..(n + 1) /\ \A t \in 1..n : t \in 1..(n + 1) /\ t # n + 1
      BY <2>1
    <2>3. DividesAll(l, f) /\ Divides(e, f[n + 1])
      BY <2>1, <2>2 DEF n, DividesAll
    <2>4. FlattenSeq(m) = FlattenSeq(l) \o e
      BY FlattenAppend DEF m
    <2>5. FlattenSeq(l) \in Seq(X)
      BY FlattenFacts
    <2>6. Divides(FlattenSeq(l), S)
      BY <1>2, <2>3 DEF n
    <2>7. S \cap f[n + 1] = {}
      BY <2>1, <2>2 DEF DividesAll
    <2>8. UNION {f[t] : t \in 1..Len(m)} = S \cup f[n + 1]
      <3>1. 1..(n + 1) = (1..n) \cup {n + 1}
        BY <2>1
      <3> QED BY <2>1, <3>1
    <2> HIDE DEF T, S
    <2>9. Divides(FlattenSeq(l) \o e, S \cup f[n + 1])
      BY <2>3, <2>5, <2>6, <2>7, DividesConcat
    <2> QED BY <2>4, <2>8, <2>9
  <1>3. \A l \in Seq(Y) : l \in T
    <2> HIDE DEF T, Y
    <2>1. \A s \in Seq(Y), e \in Y : s \in T => Append(s, e) \in T
      BY <1>2 DEF Y
    <2> QED BY <1>1, <2>1, ListInduction
  <1> QED BY <1>3

LEMMA FlattenTwice ==
    ASSUME NEW X, NEW pss \in Seq(Seq(Seq(X))), NEW t, DOMAIN t = 1..Len(pss),
           t \in Seq(Seq(X)), \A i \in 1..Len(pss) : t[i] = FlattenSeq(pss[i])
    PROVE  FlattenSeq(FlattenSeq(pss)) = FlattenSeq(t)
  <1> DEFINE C == Seq(X)
             p == [c \in C |-> c]
  <1>1. p \in ListsFor(C, X) /\ \A l \in Seq(C) : Projected(l, p) = FlattenSeq(l)
    <2>1. p \in ListsFor(C, X)
      BY DEF ListsFor
    <2>2. ASSUME NEW l \in Seq(C) PROVE Projected(l, p) = FlattenSeq(l)
      <3>1. \A i \in 1..Len(l) : l[i] \in C
        BY ElementOfSeq
      <3>2. l = [i \in 1..Len(l) |-> l[i]]
        BY LenProperties
      <3>3. EachOf(l, p) = l
        BY <3>1, <3>2 DEF EachOf
      <3> QED BY <3>3 DEF Projected
    <2> QED BY <2>1, <2>2
  <1>2. pss \in Seq(Seq(C))
    OBVIOUS
  <1>3. FlattenSeq(pss) \in Seq(C)
    BY <1>2, FlattenFacts
  <1>4. \A i \in 1..Len(pss) : pss[i] \in Seq(C)
    BY <1>2, ElementOfSeq
  <1> HIDE DEF p, C
  <1>5. Len(t) = Len(pss)
    <2>1. Len(pss) \in Nat
      BY <1>2, LenProperties
    <2> QED BY <2>1, LenProperties
  <1>6. ProjectedEach(pss, p, t)
    BY <1>1, <1>4, <1>5 DEF ProjectedEach
  <1>7. Projected(FlattenSeq(pss), p) = FlattenSeq(t)
    BY <1>1, <1>2, <1>6, ProjectedFlatten DEF C
  <1> QED BY <1>1, <1>3, <1>7

(* The greatest of a set of places in a list.                              *)
LEMMA GreatestOf ==
    ASSUME NEW n \in Nat, NEW I \in SUBSET (1..n), I # {}
    PROVE  \E g \in I : \A i \in I : i <= g
  <1> DEFINE J == {k \in 1..n : n + 1 - k \in I}
  <1>1. PICK i \in I : TRUE
    OBVIOUS
  <1>2. n + 1 - i \in J
    <2>1. i \in 1..n /\ n + 1 - i \in 1..n /\ n + 1 - (n + 1 - i) = i
      OBVIOUS
    <2> QED BY <2>1
  <1>3. Min(J) \in J /\ \A k \in J : Min(J) <= k
    <2>1. J \in SUBSET (1..n) /\ J # {}
      BY <1>2
    <2> HIDE DEF J
    <2> QED BY <2>1, LeastOf
  <1> DEFINE m == Min(J)
  <1> HIDE DEF m
  <1>4. n + 1 - m \in I /\ m \in 1..n /\ \A k \in J : m <= k
    BY <1>3 DEF m
  <1>5. ASSUME NEW k \in I PROVE k <= n + 1 - m
    <2>1. k \in 1..n /\ n + 1 - k \in 1..n /\ n + 1 - (n + 1 - k) = k
      OBVIOUS
    <2>2. n + 1 - k \in J
      BY <2>1
    <2>3. m <= n + 1 - k
      BY <1>4, <2>2
    <2> HIDE DEF J
    <2> QED BY <1>4, <2>1, <2>3
  <1> QED BY <1>4, <1>5

LEMMA EmptyToSet ==
    ASSUME NEW X, NEW s \in Seq(X)
    PROVE  s = <<>> <=> ToSet(s) = {}
  <1>1. ToSet(s) = {s[i] : i \in 1..Len(s)} /\ Len(s) \in Nat
    BY ToSetOfSeq, LenProperties
  <1>2. ASSUME s # <<>> PROVE ToSet(s) # {}
    <2>1. Len(s) # 0
      BY <1>2, EmptySeq
    <2>2. 1 \in 1..Len(s)
      BY <1>1, <2>1
    <2> QED BY <1>1, <2>2
  <1>3. ASSUME s = <<>> PROVE ToSet(s) = {}
    BY <1>3 DEF ToSet
  <1> QED BY <1>2, <1>3

(* A list of fewer things is shorter.                                      *)
LEMMA FewerShorter ==
    ASSUME NEW X, NEW s \in Seq(X), NEW t \in Seq(X), Distinct(s), Distinct(t),
           ToSet(t) \subseteq ToSet(s)
    PROVE  /\ Len(t) <= Len(s)
           /\ ToSet(t) # ToSet(s) => Len(t) < Len(s)
  <1>1. /\ IsFiniteSet(ToSet(s)) /\ Cardinality(ToSet(s)) = Len(s)
        /\ Cardinality(ToSet(t)) = Len(t) /\ Len(s) \in Nat /\ Len(t) \in Nat
    BY DistinctLen, LenProperties
  <1>2. /\ Cardinality(ToSet(t)) <= Cardinality(ToSet(s))
        /\ Cardinality(ToSet(s)) = Cardinality(ToSet(t)) => ToSet(t) = ToSet(s)
    BY <1>1, FS_Subset
  <1> QED BY <1>1, <1>2

(* The parts of a division are no longer than what they divide, and        *)
(* shorter if they are several.                                            *)
LEMMA PartsAreShorter ==
    ASSUME NEW X, NEW s \in Seq(X), Distinct(s), NEW ps \in Seq(Seq(X)), Divides(ps, ToSet(s)),
           NEW t \in 1..Len(ps)
    PROVE  /\ Len(ps[t]) <= Len(s)
           /\ Len(ps) > 1 => Len(ps[t]) < Len(s)
  <1>1. ps[t] \in Seq(X) /\ Distinct(ps[t]) /\ Len(ps) \in Nat
    BY ElementOfSeq, LenProperties DEF Divides
  <1>2. ToSet(ps[t]) \subseteq ToSet(s)
    BY DEF Divides
  <1>3. ASSUME Len(ps) > 1 PROVE ToSet(ps[t]) # ToSet(s)
    <2> DEFINE u == IF t = 1 THEN 2 ELSE 1
    <2>1. u \in 1..Len(ps) /\ u # t
      BY <1>1, <1>3
    <2> HIDE DEF u
    <2>2. ps[u] \in Seq(X) /\ ps[u] # <<>>
      BY <2>1, ElementOfSeq DEF Divides
    <2>3. PICK e : e \in ToSet(ps[u])
      BY <2>2, EmptyToSet
    <2>4. e \in ToSet(s) /\ e \notin ToSet(ps[t])
      BY <2>1, <2>3 DEF Divides
    <2> QED BY <2>4
  <1> QED BY <1>1, <1>2, <1>3, FewerShorter

(* One of the parts takes in more.                                         *)
LEMMA DividesGrown ==
    ASSUME NEW X, NEW ps \in Seq(Seq(X)), NEW S, NEW T, Divides(ps, S), S \cap T = {},
           NEW i \in 1..Len(ps), NEW s \in Seq(X), Distinct(s), ToSet(s) = ToSet(ps[i]) \cup T
    PROVE  Divides([ps EXCEPT ![i] = s], S \cup T)
  <1> DEFINE p == [ps EXCEPT ![i] = s]
  <1>1. ps[i] # <<>> /\ ps[i] \in Seq(X)
    BY ElementOfSeq DEF Divides
  <1>2. s # <<>>
    BY <1>1, EmptyToSet
  <1>3. /\ Len(p) = Len(ps) /\ p[i] = s
        /\ \A t \in 1..Len(ps) : t # i => p[t] = ps[t]
    OBVIOUS
  <1> HIDE DEF p
  <1>4. \A t \in 1..Len(p) : Distinct(p[t]) /\ p[t] # <<>>
    BY <1>2, <1>3 DEF Divides
  <1>5. \A t \in 1..Len(ps) : \A e : e \in ToSet(ps[t]) => e \in S
    BY DEF Divides
  <1>6. \A t \in 1..Len(ps) : \A e : e \in ToSet(p[t]) <=> (e \in ToSet(ps[t]) \/ (t = i /\ e \in T))
    BY <1>3
  <1>7. ASSUME NEW t \in 1..Len(p), NEW u \in 1..Len(p), NEW e, e \in ToSet(p[t]), e \in ToSet(p[u])
        PROVE  t = u
    <2>1. CASE e \in T
      <3>1. e \notin S
        BY <2>1
      <3> QED BY <1>3, <1>5, <1>6, <1>7, <3>1
    <2>2. CASE e \notin T
      <3>1. e \in ToSet(ps[t]) /\ e \in ToSet(ps[u])
        BY <1>3, <1>6, <1>7, <2>2
      <3> QED BY <1>3, <3>1 DEF Divides
    <2> QED BY <2>1, <2>2
  <1>8. ASSUME NEW e PROVE e \in S \cup T <=> \E t \in 1..Len(p) : e \in ToSet(p[t])
    <2>1. e \in S <=> \E t \in 1..Len(ps) : e \in ToSet(ps[t])
      BY DEF Divides
    <2> QED BY <1>3, <1>6, <2>1
  <1> QED BY <1>4, <1>7, <1>8 DEF Divides, p

(* The parts of a division in another order.                               *)
LEMMA DividesSorted ==
    ASSUME NEW X, NEW ps \in Seq(Seq(X)), NEW S, Divides(ps, S),
           NEW keys \in Seq(Int), Len(keys) = Len(ps)
    PROVE  Divides(SortedBy(ps, keys), S)
  <1> DEFINE N == Len(ps)
             R == Ranked(keys)
             q == SortedBy(ps, keys)
  <1>1. /\ Len(q) = N
        /\ \A p \in 1..N : q[p] = ps[R[p]]
    BY SortedByFacts
  <1>2. /\ \A p \in 1..N : R[p] \in 1..N
        /\ \A p, r \in 1..N : R[p] = R[r] => p = r
        /\ \A i \in 1..N : \E p \in 1..N : R[p] = i
    BY RankedFacts
  <1>3. /\ \A t \in 1..N : Distinct(ps[t]) /\ ps[t] # <<>>
        /\ \A t, u \in 1..N : \A e : e \in ToSet(ps[t]) /\ e \in ToSet(ps[u]) => t = u
        /\ \A e : e \in S <=> \E t \in 1..N : e \in ToSet(ps[t])
    BY DEF Divides
  <1> HIDE DEF N, R, q
  <1>4. ASSUME NEW p \in 1..N PROVE Distinct(q[p]) /\ q[p] # <<>>
    <2>1. R[p] \in 1..N /\ q[p] = ps[R[p]]
      BY <1>1, <1>2
    <2> QED BY <1>3, <2>1
  <1>5. ASSUME NEW t \in 1..N, NEW u \in 1..N, NEW e, e \in ToSet(q[t]), e \in ToSet(q[u])
        PROVE  t = u
    <2>1. R[t] \in 1..N /\ q[t] = ps[R[t]] /\ R[u] \in 1..N /\ q[u] = ps[R[u]]
      BY <1>1, <1>2
    <2>2. R[t] = R[u]
      BY <1>3, <1>5, <2>1
    <2> QED BY <1>2, <2>2
  <1>6. ASSUME NEW e PROVE e \in S <=> \E t \in 1..N : e \in ToSet(q[t])
    <2>1. ASSUME e \in S PROVE \E t \in 1..N : e \in ToSet(q[t])
      <3>1. PICK t \in 1..N : e \in ToSet(ps[t])
        BY <1>3, <2>1
      <3>2. PICK p \in 1..N : R[p] = t
        BY <1>2
      <3>3. q[p] = ps[t]
        BY <1>1, <3>2
      <3> QED BY <3>1, <3>3
    <2>2. ASSUME NEW t \in 1..N, e \in ToSet(q[t]) PROVE e \in S
      BY <1>1, <1>2, <1>3, <2>2
    <2> QED BY <2>1, <2>2
  <1> QED BY <1>1, <1>4, <1>5, <1>6 DEF Divides, q

(***************************************************************************)
(* A recursive function over an interval that stays in a set.              *)
(***************************************************************************)

Iterated(n, x, step, g) == g[0] = x /\ \A k \in 1..n : g[k] = step[k][g[k - 1]]

LEMMA Iterates ==
    ASSUME NEW X, NEW N \in Nat, NEW x \in X, NEW step \in [1..N -> [X -> X]]
    PROVE  \E g \in [0..N -> X] : Iterated(N, x, step, g)
  <1> DEFINE T == {n \in 0..N : \E g \in [0..n -> X] : Iterated(n, x, step, g)}
  <1>1. 0 \in T
    <2> DEFINE g == [k \in 0..0 |-> x]
    <2>1. g \in [0..0 -> X] /\ Iterated(0, x, step, g)
      BY DEF Iterated
    <2> HIDE DEF g
    <2> QED BY <2>1
  <1>2. ASSUME NEW n \in 0..(N - 1), n \in T PROVE n + 1 \in T
    <2>1. PICK g \in [0..n -> X] : Iterated(n, x, step, g)
      BY <1>2
    <2> DEFINE last == step[n + 1][g[n]]
               h == [k \in 0..(n + 1) |-> IF k <= n THEN g[k] ELSE last]
    <2>2. n + 1 \in 1..N /\ n + 1 \in 0..N /\ g[n] \in X
      OBVIOUS
    <2>3. last \in X
      BY <2>2
    <2>4. h \in [0..(n + 1) -> X]
      BY <2>3
    <2>5. h[0] = x
      BY <2>1 DEF Iterated
    <2>6. ASSUME NEW k \in 1..(n + 1) PROVE h[k] = step[k][h[k - 1]]
      <3>1. CASE k <= n
        <4>1. k \in 1..n /\ h[k] = g[k] /\ h[k - 1] = g[k - 1]
          BY <3>1
        <4> HIDE DEF h
        <4> QED BY <2>1, <4>1 DEF Iterated
      <3>2. CASE k = n + 1
        <4>1. h[k] = last /\ h[k - 1] = g[n]
          BY <3>2
        <4> HIDE DEF h
        <4> QED BY <3>2, <4>1
      <3> QED BY <3>1, <3>2
    <2> HIDE DEF h
    <2>7. Iterated(n + 1, x, step, h)
      BY <2>5, <2>6 DEF Iterated
    <2> QED BY <2>2, <2>4, <2>7
  <1>3. N \in T
    <2> HIDE DEF T
    <2>1. \A n \in 0..N : n \in T
      BY <1>1, <1>2, Induction
    <2> QED BY <2>1
  <1> QED BY <1>3
================================================================================
