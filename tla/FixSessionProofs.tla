-------------------------- MODULE FixSessionProofs --------------------------
(***************************************************************************)
(* Proofs about FixSession, for every set of fixes, files and directories, *)
(* every number of foreign edits, reverts, OS errors and plans; and about  *)
(* the normalizer under its Overlaps, for every list of edits.             *)
(***************************************************************************)
EXTENDS FixSession, EditNormalizer, ListProofs

LEMMA PrefixSubset ==
    ASSUME NEW S, NEW n
    PROVE  Prefix(S, n) \subseteq S
  BY DEF Prefix

LEMMA BatchCardinality ==
    ASSUME NEW S \in SUBSET Fix
    PROVE  IsFiniteSet(S) /\ Cardinality(S) \in Nat
  <1>1. IsFiniteSet(S)
    BY FixAssumption, FS_Subset
  <1>2. QED
    BY <1>1, FS_CardinalityType

\* The handler of UnrenderableFix narrows the batch or gives up.
LEMMA UnrenderableNarrows ==
    ASSUME TypeOK, Unrenderable
    PROVE  /\ failing' = FALSE
           /\ retrying' \in BOOLEAN
           /\ batch' \subseteq batch
           /\ \/ retrying /\ pc' = "raised" /\ UNCHANGED <<batch, retrying>>
              \/ ~retrying /\ pc' = "check" /\ retrying' /\ batch' = Prefix(batch, 1)
  <1>1. retrying \in BOOLEAN
    BY DEF TypeOK
  <1>2. CASE retrying
    BY <1>1, <1>2 DEF Unrenderable
  <1>3. CASE ~retrying
    BY <1>1, <1>3, PrefixSubset DEF Unrenderable
  <1>4. QED
    BY <1>2, <1>3

LEMMA InitType == Init => TypeOK
  <1> SUFFICES ASSUME Init PROVE TypeOK
    OBVIOUS
  <1>1. WriterTypeOK
    BY DEF Init, WriterInit, WriterTypeOK, DirState
  <1>2. closes \in [Fix -> SUBSET Finding]
    BY SessionAssumption DEF Init, SessionAssumption
  <1>3. QED
    BY <1>1, <1>2 DEF Init, TypeOK, Phase, Busy, Ended

LEMMA NextType == TypeOK /\ [Next]_vars => TypeOK'
  <1> SUFFICES ASSUME TypeOK, [Next]_vars PROVE TypeOK'
    OBVIOUS
  <1> USE DEF TypeOK, WriterTypeOK, DirState, Phase, Busy, Ended, sessionVars, worldVars,
              writerVars, othersVars
  <1>1. CASE Offer
    <2>1. Prefix(Candidates, MaxFixes - attempted) \subseteq Fix
      BY PrefixSubset DEF Candidates
    <2>2. QED
      BY <1>1, <2>1 DEF Offer
  <1>2. CASE Finish
    BY <1>2 DEF Finish
  <1>3. CASE Check
    <2>1. CASE Unrenderable
      BY <1>3, <2>1, UnrenderableNarrows DEF Check
    <2>2. CASE ~Unrenderable
      BY <1>3, <2>2 DEF Check
    <2>3. QED
      BY <2>1, <2>2
  <1>4. CASE Write
    <2>1. CASE \E f \in File : WriteFile(f)
      BY <1>4, <2>1 DEF Write, WriteFile, Revised, BatchFiles
    <2>2. CASE \E d \in Dir : RemoveDirectory(d)
      BY <1>4, <2>2 DEF Write, RemoveDirectory
    <2>3. QED
      BY <1>4, <2>1, <2>2 DEF Write
  <1>5. CASE Written
    BY <1>5 DEF Written
  <1>6. CASE WriteFails
    BY <1>6 DEF WriteFails
  <1>7. CASE Keep
    <2>1. Cardinality(batch) \in Nat
      BY BatchCardinality
    <2>2. attempted' \in Nat
      BY <1>7, <2>1 DEF Keep
    <2>3. Open \subseteq Finding
      BY DEF Open
    <2>4. QED
      BY <1>7, <2>2, <2>3 DEF Keep
  <1>8. ASSUME NEW r \in BOOLEAN, StartRestore(r) PROVE TypeOK'
    <2>1. CASE Unrenderable
      BY <1>8, <2>1, UnrenderableNarrows DEF StartRestore
    <2>2. CASE ~Unrenderable
      BY <1>8, <2>2 DEF StartRestore
    <2>3. QED
      BY <2>1, <2>2
  <1>9. CASE Reject \/ JudgmentFails
    BY <1>8, <1>9 DEF Reject, JudgmentFails
  <1>10. CASE Restore
    <2>1. CASE \E f \in File : RestoreFile(f)
      BY <1>10, <2>1 DEF Restore, RestoreFile
    <2>2. CASE \E d \in Dir : RestoreDirectory(d)
      BY <1>10, <2>2 DEF Restore, RestoreDirectory
    <2>3. QED
      BY <1>10, <2>1, <2>2 DEF Restore
  <1>11. CASE RestoreFails
    BY <1>11 DEF RestoreFails
  <1>12. CASE Raise
    BY <1>12 DEF Raise
  <1>13. CASE Halve
    BY <1>13, PrefixSubset DEF Halve
  <1>14. CASE Refuse
    BY <1>14 DEF Refuse
  <1>15. CASE Die
    BY <1>15 DEF Die
  <1>16. ASSUME NEW f \in File, NEW e \in Edit, EditFile(f, e)
         PROVE TypeOK'
    BY <1>16 DEF EditFile
  <1>17. ASSUME NEW d \in Dir, FillDirectory(d)
         PROVE TypeOK'
    BY <1>17 DEF FillDirectory
  <1>18. ASSUME NEW path \in File \cup Dir, PutBack(path)
         PROVE  reverts' \in Nat /\ meddled' \subseteq File \cup Dir
    <2>1. AtStake \subseteq File \cup Dir
      BY FixAssumption DEF AtStake, BatchFiles, BatchDirs
    <2>2. QED
      BY <1>18, <2>1 DEF PutBack
  <1>19. ASSUME NEW f \in File, NEW content \in SUBSET disk[f], RevertFile(f, content)
         PROVE TypeOK'
    <2>1. PutBack(f)
      BY <1>19 DEF RevertFile
    <2>2. QED
      BY <1>18, <1>19, <2>1 DEF RevertFile, PutBack
  <1>20. ASSUME NEW d \in Dir, NEW state \in {"empty", "absent"}, RevertDirectory(d, state)
         PROVE TypeOK'
    <2>1. PutBack(d)
      BY <1>20 DEF RevertDirectory
    <2>2. QED
      BY <1>18, <1>20, <2>1 DEF RevertDirectory, PutBack
  <1>21. CASE UNCHANGED vars
    BY <1>21 DEF vars
  <1>22. QED
    BY <1>1, <1>2, <1>3, <1>4, <1>5, <1>6, <1>7, <1>8, <1>9, <1>10, <1>11, <1>12, <1>13,
       <1>14, <1>15, <1>16, <1>17, <1>19, <1>20, <1>21 DEF Next, Session, Environment

\* Every variable keeps its type: TypeOK is inductive by itself.
THEOREM TypeCorrect == Spec => []TypeOK
  BY InitType, NextType, PTL DEF Spec

-----------------------------------------------------------------------------
(* The inductive invariant.                                                *)

LEMMA InitIInv == Init => IInv
  <1> SUFFICES ASSUME Init PROVE IInv
    OBVIOUS
  <1>1. TypeOK
    BY InitType
  <1>2. TreeInv
    BY DEF Init, WriterInit, TreeInv, AtRest, RolledBack, Busy, InFlight, Carried
  <1>3. RetryInv /\ QuietInv
    BY DEF Init, RetryInv, QuietInv, Busy, InFlight
  <1>4. QED
    BY <1>1, <1>2, <1>3 DEF IInv

\* The first plan of a batch exists: report order is an order of numbers.
LEMMA FirstPlan ==
    ASSUME NEW S \in SUBSET Fix, S # {}
    PROVE  Prefix(S, 1) # {}
  <1>1. S \subseteq Nat /\ S # {}
    BY FixAssumption
  <1> DEFINE R == {ss \in Nat \X Nat : ss[1] < ss[2]}
  <1>2. IsWellFoundedOn(R, Nat)
    BY NatLessThanWellFounded DEF OpToRel
  <1>3. PICK x \in S : \A y \in S : <<y, x>> \notin R
    <2> HIDE DEF R
    <2> QED
      BY <1>1, <1>2, WFMin
  <1>4. {y \in S : y < x} = {}
    BY <1>1, <1>3
  <1>5. Cardinality({y \in S : y < x}) = 0
    BY <1>4, FS_EmptySet
  <1>6. QED
    BY <1>3, <1>5 DEF Prefix

\* A nonempty prefix of a batch is again a batch the invariants can speak of.
LEMMA PrefixNonempty ==
    ASSUME NEW S \in SUBSET Fix, S # {}, NEW n \in Nat, n >= 1
    PROVE  Prefix(S, n) # {}
  <1>1. PICK x : x \in Prefix(S, 1)
    BY FirstPlan
  <1>2. x \in S /\ Cardinality({y \in S : y < x}) < 1
    BY <1>1 DEF Prefix
  <1>3. {y \in S : y < x} \in SUBSET Fix
    OBVIOUS
  <1>4. Cardinality({y \in S : y < x}) \in Nat
    BY <1>3, BatchCardinality
  <1>5. Cardinality({y \in S : y < x}) < n
    BY <1>2, <1>4
  <1>6. QED
    BY <1>2, <1>5 DEF Prefix

LEMMA NextIInv == IInv /\ [Next]_vars => IInv'
  <1> SUFFICES ASSUME IInv, [Next]_vars PROVE TreeInv' /\ RetryInv' /\ QuietInv'
    BY NextType DEF IInv
  <1> USE FixAssumption DEF IInv, TypeOK, WriterTypeOK, sessionVars, worldVars, writerVars,
      othersVars, Phase, Busy, Ended, InFlight, AtRest, RolledBack, Applied, Carried,
      BatchFiles, BatchDirs, Revised, Fresh, Stuck, Spoiled, AtStake
  <1>1. CASE Offer
    <2>1. batch' = Prefix(Candidates, MaxFixes - attempted) /\ snap' = disk
      BY <1>1 DEF Offer
    <2>2. batch' # {}
      <3>1. Candidates \in SUBSET Fix
        BY DEF Candidates
      <3>2. MaxFixes - attempted \in Nat /\ MaxFixes - attempted >= 1
        BY <1>1, SessionAssumption DEF Offer, SessionAssumption
      <3>3. QED
        BY <1>1, <2>1, <3>1, <3>2, PrefixNonempty DEF Offer
    <2>3. \A x \in batch' : Fresh(x)'
      BY <1>1, <2>1, PrefixSubset DEF Offer, Candidates, Renderable
    <2>4. TreeInv'
      BY <1>1 DEF Offer, TreeInv
    <2>5. RetryInv'
      BY <1>1, <2>2, <2>3 DEF Offer, TreeInv, RetryInv
    <2>6. QuietInv'
      BY <1>1 DEF Offer, QuietInv
    <2>7. QED
      BY <2>4, <2>5, <2>6
  <1>2. CASE Finish
    BY <1>2 DEF Finish, TreeInv, RetryInv, QuietInv
  <1>3. CASE Check /\ ~Unrenderable
    <2>1. /\ pc = "check" /\ pc' = "writing" /\ Appliable /\ written' = {} /\ removed' = {}
          /\ UNCHANGED <<batch, disk, dirs, snap, kept, disturbed, meddled>>
      BY <1>3 DEF Check
    <2>2. ~Stuck
      BY <2>1 DEF Appliable
    <2>3. written \cup removed \subseteq meddled
      BY <2>1, <2>2 DEF RetryInv
    <2>4. TreeInv'
      BY <2>1, <2>3 DEF TreeInv
    <2>5. RetryInv' /\ QuietInv'
      BY <2>1 DEF RetryInv, QuietInv
    <2>6. QED
      BY <2>4, <2>5
  <1>4. CASE Check /\ Unrenderable
    <2>1. pc = "check"
          /\ UNCHANGED <<disk, dirs, snap, written, removed, kept, disturbed, meddled>>
      BY <1>4, UnrenderableNarrows DEF Check
    <2>2. CASE retrying /\ pc' = "raised" /\ UNCHANGED <<batch, retrying>>
      BY <2>1, <2>2 DEF TreeInv, RetryInv, QuietInv
    <2>3. CASE ~retrying /\ pc' = "check" /\ retrying' /\ batch' = Prefix(batch, 1)
      <3>1. batch # {} /\ \A x \in batch : Fresh(x)
        BY <2>1 DEF RetryInv
      <3>2. batch' # {} /\ batch' \subseteq batch
        BY <2>3, <3>1, FirstPlan, PrefixSubset
      <3>3. written = {} /\ removed = {}
        BY <2>1, <2>3 DEF RetryInv
      <3>4. TreeInv'
        BY <2>1, <2>3, <3>3 DEF TreeInv
      <3>5. RetryInv' /\ QuietInv'
        BY <2>1, <2>3, <3>1, <3>2, <3>3 DEF RetryInv, QuietInv
      <3>6. QED
        BY <3>4, <3>5
    <2>4. QED
      BY <1>4, <2>2, <2>3, UnrenderableNarrows
  <1>5. ASSUME NEW f \in File, WriteFile(f), Write PROVE TreeInv' /\ RetryInv' /\ QuietInv'
    <2>1. /\ pc = "writing" /\ pc' = pc /\ f \in BatchFiles \ written
          /\ disk' = [disk EXCEPT ![f] = Revised(f)] /\ written' = written \cup {f}
          /\ UNCHANGED <<dirs, batch, snap, removed, kept, retrying, disturbed, meddled>>
      BY <1>5 DEF Write, WriteFile
    <2>2. f \notin meddled => Revised(f) \cap Fix = Carried(kept \cup batch, f)
      BY <2>1 DEF TreeInv
    <2>3. TreeInv'
      BY <2>1, <2>2 DEF TreeInv
    <2>4. RetryInv' /\ QuietInv'
      BY <2>1 DEF RetryInv, QuietInv
    <2>5. QED
      BY <2>3, <2>4
  <1>6. ASSUME NEW d \in Dir, RemoveDirectory(d), Write
        PROVE TreeInv' /\ RetryInv' /\ QuietInv'
    <2>1. /\ pc = "writing" /\ pc' = pc /\ d \in BatchDirs \ removed
          /\ dirs' = [dirs EXCEPT ![d] = "absent"] /\ removed' = removed \cup {d}
          /\ UNCHANGED <<disk, batch, snap, written, kept, retrying, disturbed, meddled>>
      BY <1>6 DEF Write, RemoveDirectory
    <2>2. TreeInv'
      BY <2>1 DEF TreeInv
    <2>3. RetryInv' /\ QuietInv'
      BY <2>1 DEF RetryInv, QuietInv
    <2>4. QED
      BY <2>2, <2>3
  <1>7. CASE Written
    BY <1>7 DEF Written, TreeInv, RetryInv, QuietInv
  <1>8. CASE WriteFails
    BY <1>8 DEF WriteFails, TreeInv, RetryInv, QuietInv
  <1>9. CASE Keep
    <2>1. /\ pc = "verifying" /\ pc' = "offer" /\ kept' = kept \cup batch
          /\ written' = {} /\ removed' = {}
          /\ UNCHANGED <<disk, dirs, batch, snap, retrying, disturbed, meddled>>
      BY <1>9 DEF Keep
    <2>2. written = BatchFiles /\ removed = BatchDirs
      BY <2>1 DEF TreeInv
    <2>3. ASSUME NEW f \in File \ meddled PROVE disk[f] \cap Fix = Carried(kept', f)
      <3>1. CASE f \in written
        BY <2>1, <3>1 DEF TreeInv
      <3>2. CASE f \notin written
        BY <2>1, <2>2, <3>2 DEF TreeInv
      <3>3. QED
        BY <3>1, <3>2
    <2>4. ASSUME NEW d \in Dir \ meddled, dirs[d] = "absent"
          PROVE  \E x \in kept' : d \in Prunes[x]
      BY <2>1, <2>2, <2>4 DEF TreeInv
    <2>5. TreeInv'
      BY <2>1, <2>3, <2>4 DEF TreeInv
    <2>6. RetryInv' /\ QuietInv'
      BY <2>1 DEF RetryInv, QuietInv
    <2>7. QED
      BY <2>5, <2>6
  <1>10. ASSUME NEW r \in BOOLEAN, StartRestore(r), pc = "verifying"
         PROVE TreeInv' /\ RetryInv' /\ QuietInv'
    <2>1. UNCHANGED <<disk, dirs, snap, written, removed, kept, disturbed, meddled>>
      BY <1>10 DEF StartRestore
    <2>2. CASE Restorable
      BY <1>10, <2>1, <2>2 DEF StartRestore, TreeInv, RetryInv, QuietInv
    <2>3. CASE ~Restorable
      <3>1. Unrenderable
        BY <1>10, <2>3 DEF StartRestore
      <3>2. written = BatchFiles /\ removed = BatchDirs
        BY <1>10 DEF TreeInv
      <3>3. disturbed
        BY <1>10, <2>3, <3>2 DEF Restorable, QuietInv
      <3>4. CASE retrying /\ pc' = "raised" /\ UNCHANGED <<batch, retrying>>
        BY <2>1, <3>3, <3>4 DEF TreeInv, RetryInv, QuietInv
      <3>5. CASE ~retrying /\ pc' = "check" /\ retrying' /\ batch' = Prefix(batch, 1)
        <4>1. batch # {} /\ \A x \in batch : Fresh(x)
          BY <1>10 DEF RetryInv
        <4>2. batch' # {} /\ batch' \subseteq batch
          BY <3>5, <4>1, FirstPlan, PrefixSubset
        <4>3. BatchFiles' \subseteq written /\ BatchDirs' \subseteq removed
          BY <3>2, <4>2
        <4>4. Spoiled' \/ Stuck'
          <5>1. CASE Spoiled
            BY <2>1, <4>2, <5>1
          <5>2. CASE ~Spoiled
            <6>1. PICK x \in batch' : Fresh(x)
              BY <4>1, <4>2
            <6>2. x \in batch /\ x \in Fix
              BY <4>2, <6>1
            <6>3. \A e \in Prunes[x] : dirs[e] # "empty"
              BY <1>10, <3>2, <5>2, <6>2 DEF RetryInv
            <6>4. \A g \in Writes[x] : x \in disk[g]
              BY <1>10, <3>2, <5>2, <6>2 DEF RetryInv
            <6>5. \/ \E g \in Writes[x] : x \in disk'[g] /\ x \notin snap'[g]
                  \/ \E e \in Prunes[x] : dirs'[e] # "empty"
              BY <2>1, <6>1, <6>3, <6>4
            <6>6. QED
              BY <6>1, <6>5
          <5>3. QED
            BY <5>1, <5>2
        <4>5. TreeInv'
          BY <1>10, <2>1, <3>5 DEF TreeInv
        <4>6. RetryInv' /\ QuietInv'
          BY <2>1, <3>2, <3>3, <3>5, <4>1, <4>2, <4>3, <4>4 DEF RetryInv, QuietInv
        <4>7. QED
          BY <4>5, <4>6
      <3>6. QED
        BY <3>1, <3>4, <3>5, UnrenderableNarrows
    <2>4. QED
      BY <2>2, <2>3
  <1>11. CASE Reject \/ JudgmentFails
    BY <1>10, <1>11 DEF Reject, JudgmentFails
  <1>12. ASSUME NEW f \in File, RestoreFile(f), Restore PROVE TreeInv' /\ RetryInv' /\ QuietInv'
    <2>1. /\ pc \in {"restoring", "undoing"} /\ pc' = pc /\ removed = {} /\ f \in written
          /\ disk' = [disk EXCEPT ![f] = snap[f]] /\ written' = written \ {f}
          /\ UNCHANGED <<dirs, batch, snap, removed, kept, retrying, disturbed, meddled>>
      BY <1>12 DEF Restore, RestoreFile
    <2>2. TreeInv'
      BY <2>1 DEF TreeInv
    <2>3. RetryInv' /\ QuietInv'
      BY <2>1 DEF RetryInv, QuietInv
    <2>4. QED
      BY <2>2, <2>3
  <1>13. ASSUME NEW d \in Dir, RestoreDirectory(d), Restore
         PROVE TreeInv' /\ RetryInv' /\ QuietInv'
    <2>1. /\ pc \in {"restoring", "undoing"} /\ pc' = pc /\ d \in removed
          /\ dirs' = [dirs EXCEPT ![d] = "empty"] /\ removed' = removed \ {d}
          /\ UNCHANGED <<disk, batch, snap, written, kept, retrying, disturbed, meddled>>
      BY <1>13 DEF Restore, RestoreDirectory
    <2>2. TreeInv'
      BY <2>1 DEF TreeInv
    <2>3. RetryInv' /\ QuietInv'
      BY <2>1 DEF RetryInv, QuietInv
    <2>4. QED
      BY <2>2, <2>3
  <1>14. CASE RestoreFails
    BY <1>14 DEF RestoreFails, TreeInv, RetryInv, QuietInv
  <1>15. CASE Raise
    BY <1>15 DEF Raise, TreeInv, RetryInv, QuietInv
  <1>16. CASE Halve
    <2>1. /\ pc = "restoring" /\ pc' = "check" /\ written = {} /\ removed = {}
          /\ batch' = Prefix(batch, Cardinality(batch) \div 2)
          /\ UNCHANGED <<disk, dirs, snap, written, removed, kept, disturbed, meddled>>
      BY <1>16 DEF Halve
    <2>2. Cardinality(batch) \div 2 \in Nat /\ Cardinality(batch) \div 2 >= 1
      BY <1>16, BatchCardinality DEF Halve
    <2>3. batch # {} /\ \A x \in batch : Fresh(x)
      BY <2>1 DEF RetryInv
    <2>4. batch' # {} /\ batch' \subseteq batch
      BY <2>1, <2>2, <2>3, PrefixNonempty, PrefixSubset
    <2>5. TreeInv'
      BY <2>1 DEF TreeInv
    <2>6. RetryInv' /\ QuietInv'
      BY <2>1, <2>3, <2>4 DEF RetryInv, QuietInv
    <2>7. QED
      BY <2>5, <2>6
  <1>17. CASE Refuse
    BY <1>17 DEF Refuse, TreeInv, RetryInv, QuietInv
  <1>18. CASE Die
    BY <1>18 DEF Die, TreeInv, RetryInv, QuietInv
  <1>19. ASSUME NEW f \in File, NEW e \in Edit, EditFile(f, e)
         PROVE TreeInv' /\ RetryInv' /\ QuietInv'
    <2>1. /\ disk' = [disk EXCEPT ![f] = @ \cup {e}]
          /\ disturbed' = (disturbed \/ pc \in Busy)
          /\ UNCHANGED <<dirs, batch, snap, written, removed, pc, kept, retrying, meddled>>
      BY <1>19 DEF EditFile
    <2>2. \A g \in File : disk'[g] \cap Fix = disk[g] \cap Fix /\ disk[g] \subseteq disk'[g]
      BY <2>1
    <2>3. TreeInv'
      BY <2>1, <2>2 DEF TreeInv
    <2>4. RetryInv'
      BY <2>1, <2>2 DEF RetryInv
    <2>5. QuietInv'
      BY <1>19, <2>1 DEF EditFile, QuietInv
    <2>6. QED
      BY <2>3, <2>4, <2>5
  <1>20. ASSUME NEW d \in Dir, FillDirectory(d)
         PROVE TreeInv' /\ RetryInv' /\ QuietInv'
    <2>1. /\ dirs' = [dirs EXCEPT ![d] = "filled"]
          /\ disturbed' = (disturbed \/ pc \in Busy)
          /\ UNCHANGED <<disk, batch, snap, written, removed, pc, kept, retrying, meddled>>
      BY <1>20 DEF FillDirectory
    <2>2. TreeInv'
      BY <2>1 DEF TreeInv
    <2>3. RetryInv'
      BY <2>1 DEF RetryInv
    <2>4. QuietInv'
      BY <1>20, <2>1 DEF FillDirectory, QuietInv
    <2>5. QED
      BY <2>2, <2>3, <2>4
  <1>21. ASSUME NEW path \in File \cup Dir, PutBack(path),
                \A g \in File : g # path => disk'[g] = disk[g],
                \A e \in Dir : e # path => dirs'[e] = dirs[e]
         PROVE TreeInv' /\ RetryInv' /\ QuietInv'
    <2>1. /\ meddled \cup {path} \subseteq meddled'
          /\ path \in written \cup removed => AtStake \subseteq meddled'
          /\ disturbed' = (disturbed \/ pc \in Busy)
          /\ UNCHANGED <<batch, snap, written, removed, pc, kept, retrying>>
      BY <1>21 DEF PutBack
    <2>2. TreeInv'
      BY <1>21, <2>1 DEF TreeInv
    <2>3. Spoiled \/ path \in written \cup removed => Spoiled'
      BY <2>1
    <2>4. RetryInv'
      BY <1>21, <2>1, <2>3 DEF RetryInv
    <2>5. QuietInv'
      BY <2>1 DEF QuietInv
    <2>6. QED
      BY <2>2, <2>4, <2>5
  <1>22. ASSUME NEW f \in File, NEW content \in SUBSET disk[f], RevertFile(f, content)
         PROVE TreeInv' /\ RetryInv' /\ QuietInv'
    BY <1>21, <1>22 DEF RevertFile
  <1>23. ASSUME NEW d \in Dir, NEW state \in {"empty", "absent"}, RevertDirectory(d, state)
         PROVE TreeInv' /\ RetryInv' /\ QuietInv'
    BY <1>21, <1>23 DEF RevertDirectory
  <1>24. CASE UNCHANGED vars
    BY <1>24 DEF vars, TreeInv, RetryInv, QuietInv
  <1>25. QED
    BY <1>1, <1>2, <1>3, <1>4, <1>5, <1>6, <1>7, <1>8, <1>9, <1>11, <1>12, <1>13, <1>14,
       <1>15, <1>16, <1>17, <1>18, <1>19, <1>20, <1>22, <1>23, <1>24
       DEF Next, Session, Environment, Write, Restore

-----------------------------------------------------------------------------
(* What follows from the invariant.                                        *)

\* The inductive invariant holds in every phase, whoever edits or puts back what meanwhile:
\* a batch that could not be restored is caught by the next check or all its paths are meddled.
THEOREM Invariant == Spec => []IInv
  BY InitIInv, NextIInv, PTL DEF Spec

\* No unverified plan is left behind at rest, for any fixes, files and failures, on the
\* paths that other programs have not put back and outside a batch they put a path of back.
THEOREM RestVerified == Spec => []RestIsVerified
  <1>1. IInv => RestIsVerified
    BY DEF IInv, TreeInv, RestIsVerified, AtRest, RolledBack, Carried
  <1>2. QED
    BY <1>1, Invariant, PTL

\* An exception the session itself caused leaves nothing of its batch behind.
THEOREM FailureUndone == Spec => []OneFailureIsUndone
  <1>1. IInv => OneFailureIsUndone
    BY DEF IInv, QuietInv, OneFailureIsUndone
  <1>2. QED
    BY <1>1, Invariant, PTL

LEMMA NextSeen == IInv /\ SeenInv /\ [Next]_vars => SeenInv'
  <1> SUFFICES ASSUME IInv, SeenInv, [Next]_vars,
                      pc' \in Replacing,
                      NEW f \in BatchFiles', NEW e \in Edit, e \in disk'[f], e \notin snap'[f]
               PROVE  landed'[e] \in Replacing
    BY DEF SeenInv
  <1> USE FixAssumption DEF IInv, TypeOK, WriterTypeOK, sessionVars, worldVars, writerVars,
      othersVars, Busy, Ended, Replacing, BatchFiles, Revised
  <1>1. CASE Session
    <2>1. CASE Check
      <3>1. Appliable /\ UNCHANGED <<disk, snap, batch, landed>>
        BY <2>1, UnrenderableNarrows DEF Check
      <3>2. QED
        BY <3>1 DEF Appliable
    <2>2. CASE Write
      BY <2>2 DEF Write, WriteFile, RemoveDirectory, SeenInv
    <2>3. CASE Restore
      BY <2>3 DEF Restore, RestoreDirectory, RestoreFile, SeenInv
    <2>4. CASE Reject \/ JudgmentFails
      <3>1. Restorable /\ UNCHANGED <<disk, snap, batch, landed>>
        BY <2>4, UnrenderableNarrows DEF Reject, JudgmentFails, StartRestore
      <3>2. QED
        BY <3>1 DEF Restorable
    <2>5. CASE WriteFails
      BY <2>5 DEF WriteFails, SeenInv
    <2>6. CASE Offer \/ Finish \/ Written \/ Keep \/ RestoreFails \/ Raise \/ Halve \/ Refuse
      BY <2>6 DEF Offer, Finish, Written, Keep, RestoreFails, Raise, Halve, Refuse
    <2>7. QED
      BY <1>1, <2>1, <2>2, <2>3, <2>4, <2>5, <2>6 DEF Session
  <1>2. CASE Environment
    BY <1>2 DEF Environment, Die, EditFile, FillDirectory, PutBack, RevertFile,
       RevertDirectory, SeenInv
  <1>3. CASE UNCHANGED vars
    BY <1>3 DEF vars, SeenInv
  <1>4. QED
    BY <1>1, <1>2, <1>3 DEF Next

LEMMA Seen == Spec => []SeenInv
  <1>1. Init => SeenInv
    BY DEF Init, SeenInv, Replacing
  <1>2. QED
    BY <1>1, NextSeen, Invariant, PTL DEF Spec

\* The session loses an edit of another program only while the writer is replacing files.
THEOREM ForeignKept == Spec => ForeignEditsSurvive
  <1> DEFINE Survive ==
        \A f \in File, e \in Edit : (e \in disk[f] /\ e \notin disk'[f] /\ reverts' = reverts)
            => landed[e] \in {"writing", "undoing", "restoring"}
  <1>1. IInv /\ SeenInv /\ [Next]_vars => [Survive]_vars
    <2> SUFFICES ASSUME IInv, SeenInv, Next, NEW f \in File, NEW e \in Edit,
                        e \in disk[f], e \notin disk'[f], reverts' = reverts
                 PROVE  landed[e] \in {"writing", "undoing", "restoring"}
      OBVIOUS
    <2> USE FixAssumption DEF IInv, TypeOK, WriterTypeOK, writerVars, Replacing, Revised
    <2>1. CASE Write
      BY <2>1 DEF Write, WriteFile, RemoveDirectory, SeenInv
    <2>2. CASE Restore
      BY <2>2 DEF Restore, RestoreDirectory, RestoreFile, SeenInv, TreeInv, InFlight
    <2>3. CASE Environment
      <3>1. \A path : ~PutBack(path)
        BY DEF PutBack, TypeOK
      <3>2. QED
        BY <2>3, <3>1 DEF Environment, Die, EditFile, FillDirectory, RevertFile,
           RevertDirectory
    <2>4. CASE Session /\ ~Write /\ ~Restore
      BY <2>4 DEF Session, Offer, Finish, Check, Written, WriteFails, Keep, Reject,
         JudgmentFails, StartRestore, RestoreFails, Raise, Halve, Refuse
    <2>5. QED
      BY <2>1, <2>2, <2>3, <2>4 DEF Next
  <1>2. QED
    BY <1>1, Invariant, Seen, PTL DEF Spec, ForeignEditsSurvive

-----------------------------------------------------------------------------
(* What a kept plan has closed.                                            *)

\* No finding, repairable or not, has the rule and the message of one that the session can
\* repair.
MessagesDiffer == \A x \in Fix, y \in Finding : Message[x] = Message[y] => x = y

\* Then the count under its message declines only when the finding itself is closed.
LEMMA CountIsOfOne ==
    ASSUME MessagesDiffer, NEW before \in SUBSET Finding, NEW after \in SUBSET Finding,
           NEW x \in Fix, Matching(after, x) < Matching(before, x)
    PROVE  x \notin after
  <1> DEFINE Named(S) == {y \in S : Message[y] = Message[x]}
  <1>1. Named(before) \subseteq {x} /\ Named(after) \subseteq {x}
    BY DEF MessagesDiffer
  <1>2. IsFiniteSet({x}) /\ Cardinality({x}) = 1
    BY FS_Singleton
  <1>3. Cardinality(Named(before)) <= 1
    BY <1>1, <1>2, FS_Subset
  <1>4. Cardinality(Named(before)) \in Nat /\ Cardinality(Named(after)) \in Nat
    BY <1>1, <1>2, FS_Subset, FS_CardinalityType
  <1>5. SUFFICES ASSUME x \in after PROVE FALSE
    OBVIOUS
  <1>6. Named(after) = {x}
    BY <1>1, <1>5 DEF Finding
  <1>7. Cardinality(Named(after)) = 1
    BY <1>2, <1>6
  <1>8. Cardinality(Named(after)) < Cardinality(Named(before))
    BY DEF Matching
  <1> HIDE DEF Named
  <1>9. QED
    BY <1>3, <1>4, <1>7, <1>8

\* A batch is kept only when every plan of it closed its finding, whatever its plans
\* close and break besides, and whoever changes the tree meanwhile: if no other finding of the
\* report, whoever could repair it, has the message of one the session repairs, _improved decides plan by plan.
THEOREM KeptIsClosed ==
    ASSUME MessagesDiffer
    PROVE  Spec => KeptClosesItsFinding
  <1>1. TypeOK /\ [Next]_vars => [\A x \in kept' \ kept : x \notin report']_vars
    <2> SUFFICES ASSUME TypeOK, Next, NEW x \in kept' \ kept
                 PROVE  x \notin report'
      OBVIOUS
    <2>1. CASE Keep
      <3>1. x \in batch /\ report' = Open /\ Matching(Open, x) < Matching(report, x)
        BY <2>1 DEF Keep, Improved
      <3>2. x \in Fix /\ report \in SUBSET Finding /\ Open \in SUBSET Finding
        BY <3>1 DEF TypeOK, WriterTypeOK, Open
      <3>3. QED
        BY <3>1, <3>2, CountIsOfOne
    <2>2. CASE ~Keep
      <3>1. kept' = kept
        BY <2>2 DEF Next, Session, Environment, Offer, Finish, Check, Write, Written,
           WriteFails, Reject, JudgmentFails, StartRestore, Restore, RestoreFails, Raise,
           Halve, Refuse, Die, EditFile, FillDirectory, PutBack, RevertFile, RevertDirectory,
           sessionVars
      <3>2. QED
        BY <3>1
    <2>3. QED
      BY <2>1, <2>2
  <1>2. QED
    BY <1>1, TypeCorrect, PTL DEF Spec, KeptClosesItsFinding

-----------------------------------------------------------------------------
(* The normalizer.                                                         *)

ByteEdits(Byte) ==
    [path : Nat, start : Nat, end : Nat, replacement : Seq(Byte)]

SameRange(e, f) == e.path = f.path /\ e.start = f.start /\ e.end = f.end

\* Whether edits collide is decided by their ranges.
LEMMA ApartByRange ==
    ASSUME NEW e, NEW f, NEW g, NEW h, SameRange(e, g), SameRange(f, h)
    PROVE  Apart(e, f) <=> Apart(g, h)
  BY DEF SameRange, Apart, Bytes, Inside, Insertion

LEMMA ApartSymmetric ==
    ASSUME NEW e, NEW f
    PROVE  Apart(e, f) <=> Apart(f, e)
  BY DEF Apart

\* Two insertions at one offset are joined, and never collide.
LEMMA InsertionsApart ==
    ASSUME NEW Byte, NEW e \in ByteEdits(Byte), NEW f \in ByteEdits(Byte),
           Insertion(e), SameRange(e, f)
    PROVE  Apart(e, f)
  <1>1. e.end = e.start /\ f.end = f.start /\ e.start = f.start /\ e.start \in Nat
    BY DEF ByteEdits, Insertion, SameRange
  <1>2. Bytes(e) = {}
    BY <1>1 DEF Bytes
  <1>3. ~Inside(e, f) /\ ~Inside(f, e)
    BY <1>1 DEF Inside
  <1>4. QED
    BY <1>2, <1>3 DEF Apart

\* What comes later in the order, starts after the first's end.
LEMMA AfterApart ==
    ASSUME NEW Byte, NEW e \in ByteEdits(Byte), NEW f \in ByteEdits(Byte),
           e.start <= e.end, f.start <= f.end, e.start <= f.start,
           Insertion(e) \/ e.end <= f.start
    PROVE  Apart(e, f)
  <1>1. {e.start, e.end, f.start, f.end} \subseteq Nat
    BY DEF ByteEdits
  <1>2. Bytes(e) \cap Bytes(f) = {}
    BY <1>1 DEF Bytes, Insertion
  <1>3. ~Inside(e, f) /\ ~Inside(f, e)
    BY <1>1 DEF Inside, Insertion
  <1>4. QED
    BY <1>2, <1>3 DEF Apart

\* Neighbours that overlap collide.
LEMMA OverlapCollides ==
    ASSUME NEW Byte, NEW e \in ByteEdits(Byte), NEW f \in ByteEdits(Byte),
           e.start <= e.end, f.start <= f.end, e.path = f.path, ~Precedes(f, e), Overlap(e, f)
    PROVE  ~Apart(e, f)
  <1>1. /\ {e.start, e.end, f.start, f.end} \subseteq Nat
        /\ e.path \in Nat
    BY DEF ByteEdits
  <1>2. e.start < f.start \/ (e.start = f.start /\ e.end <= f.end)
    BY <1>1 DEF Precedes
  <1>3. f.start < e.end /\ e.start # e.end
    BY <1>1 DEF Overlap, Insertion
  <1>4. CASE Insertion(f)
    <2>1. Inside(f, e)
      BY <1>1, <1>2, <1>3, <1>4 DEF Inside, Insertion
    <2>2. QED
      BY <2>1 DEF Apart
  <1>5. CASE ~Insertion(f)
    <2>1. f.start + 1 \in Bytes(e) /\ f.start + 1 \in Bytes(f)
      BY <1>1, <1>2, <1>3, <1>5 DEF Bytes, Insertion
    <2>2. QED
      BY <2>1 DEF Apart
  <1>6. QED
    BY <1>4, <1>5

\* A sorted list whose neighbours do not overlap.
NeighboursOverlap(list) ==
    \E i \in 2..Len(list) :
        list[i - 1].path = list[i].path /\ Overlap(list[i - 1], list[i])

LEMMA NeighboursOfSorted ==
    ASSUME NEW Byte, NEW list \in Seq(ByteEdits(Byte)),
           \A i \in 1..Len(list) : list[i].start <= list[i].end,
           \A i, j \in 1..Len(list) : i < j => ~Precedes(list[j], list[i])
    PROVE  NeighboursOverlap(list) <=>
               \E i, j \in 1..Len(list) : i # j /\ ~Apart(list[i], list[j])
  <1>1. Len(list) \in Nat /\ \A i \in 1..Len(list) : list[i] \in ByteEdits(Byte)
    BY LenProperties, ElementOfSeq
  <1>2. \A i \in 1..Len(list) : {list[i].path, list[i].start, list[i].end} \subseteq Nat
    BY <1>1 DEF ByteEdits
  <1>3. ASSUME NEW i \in 2..Len(list), list[i - 1].path = list[i].path,
               Overlap(list[i - 1], list[i])
        PROVE  ~Apart(list[i - 1], list[i])
    <2>1. i - 1 \in 1..Len(list) /\ i \in 1..Len(list) /\ i - 1 < i
      BY <1>1
    <2>2. QED
      BY <1>1, <1>3, <2>1, OverlapCollides
  <1>4. ASSUME ~NeighboursOverlap(list), NEW i \in 1..Len(list), NEW j \in 1..Len(list), i < j
        PROVE  Apart(list[i], list[j])
    <2>1. CASE list[i].path # list[j].path
      BY <2>1 DEF Apart
    <2>2. CASE list[i].path = list[j].path
      <3> DEFINE k == i + 1
      <3>1. k \in 2..Len(list) /\ k \in 1..Len(list) /\ k - 1 = i /\ k <= j /\ i < k
        BY <1>1, <1>4
      <3> HIDE DEF k
      <3>2. list[i].path <= list[k].path /\ list[k].path <= list[j].path
        <4>1. ~Precedes(list[k], list[i]) /\ (k = j \/ ~Precedes(list[j], list[k]))
          BY <3>1
        <4>2. QED
          BY <1>2, <3>1, <4>1 DEF Precedes
      <3>3. list[k].path = list[i].path /\ list[k].path = list[j].path
        BY <1>2, <2>2, <3>1, <3>2
      <3>4. list[i].start <= list[k].start /\ list[k].start <= list[j].start
        <4>1. /\ {list[i].path, list[i].start, list[i].end} \subseteq Nat
              /\ {list[k].path, list[k].start, list[k].end} \subseteq Nat
              /\ {list[j].path, list[j].start, list[j].end} \subseteq Nat
          BY <1>2, <3>1
        <4>2. list[i].start <= list[k].start
          <5>1. ~Precedes(list[k], list[i])
            BY <3>1
          <5>2. QED
            BY <3>3, <4>1, <5>1 DEF Precedes
        <4>3. list[k].start <= list[j].start
          <5>1. k = j \/ ~Precedes(list[j], list[k])
            BY <3>1
          <5>2. QED
            BY <3>3, <4>1, <5>1 DEF Precedes
        <4>4. QED
          BY <4>2, <4>3
      <3>5. Insertion(list[i]) \/ list[i].end <= list[k].start
        <4>1. ~Overlap(list[i], list[k])
          BY <1>4, <3>1, <3>3 DEF NeighboursOverlap
        <4>2. QED
          BY <1>2, <3>1, <4>1 DEF Overlap
      <3>6. list[i].start <= list[j].start /\ (Insertion(list[i]) \/ list[i].end <= list[j].start)
        <4>1. {list[i].start, list[i].end, list[k].start, list[j].start} \subseteq Nat
          BY <1>2, <3>1
        <4>2. QED
          BY <3>4, <3>5, <4>1
      <3>7. QED
        BY <1>1, <3>6, AfterApart
    <2>3. QED
      BY <2>1, <2>2
  <1>5. ASSUME ~NeighboursOverlap(list), NEW i \in 1..Len(list), NEW j \in 1..Len(list), i # j
        PROVE  Apart(list[i], list[j])
    <2>1. i < j \/ j < i
      BY <1>1, <1>5
    <2>2. QED
      BY <1>4, <1>5, <2>1, ApartSymmetric
  <1>6. ASSUME NeighboursOverlap(list)
        PROVE  \E i, j \in 1..Len(list) : i # j /\ ~Apart(list[i], list[j])
    <2>1. PICK i \in 2..Len(list) : list[i - 1].path = list[i].path
                                    /\ Overlap(list[i - 1], list[i])
      BY <1>6 DEF NeighboursOverlap
    <2>2. i - 1 \in 1..Len(list) /\ i \in 1..Len(list) /\ i - 1 # i
      BY <1>1
    <2>3. QED
      BY <1>3, <2>1, <2>2
  <1>7. QED
    BY <1>5, <1>6

LEMMA PrecedesTransitive ==
    ASSUME NEW Byte, NEW e \in ByteEdits(Byte), NEW f \in ByteEdits(Byte),
           NEW g \in ByteEdits(Byte), Precedes(e, f), Precedes(f, g)
    PROVE  Precedes(e, g)
  <1>1. /\ {e.path, f.path, g.path} \subseteq Nat
        /\ {e.start, f.start, g.start} \subseteq Nat
        /\ {e.end, f.end, g.end} \subseteq Nat
    BY DEF ByteEdits
  <1>2. QED
    BY <1>1 DEF Precedes

\* ordered has what is at at[p] of list in place p, and nothing before what it should follow.
Arranges(list, ordered, at) ==
    /\ at \in [1..Len(list) -> 1..Len(list)]
    /\ Len(ordered) = Len(list)
    /\ \A p \in 1..Len(list) : ordered[p] = list[at[p]]
    /\ \A p, q \in 1..Len(list) : at[p] = at[q] => p = q
    /\ \A i \in 1..Len(list) : \E p \in 1..Len(list) : at[p] = i
    /\ \A p, q \in 1..Len(list) : p < q => ~Precedes(ordered[q], ordered[p])

LEMMA OrderedFacts ==
    ASSUME NEW Byte, NEW list \in Seq(ByteEdits(Byte))
    PROVE  /\ Ordered(list) \in Seq(ByteEdits(Byte))
           /\ \E at : Arranges(list, Ordered(list), at)
  <1> DEFINE N == Len(list)
             Earlier(i) == {j \in 1..N : Precedes(list[j], list[i])}
             keys == [i \in 1..N |-> Cardinality(Earlier(i))]
             at == [p \in 1..N |-> Ranked(keys)[p]]
  <1>1. N \in Nat /\ DOMAIN list = 1..N /\ \A i \in 1..N : list[i] \in ByteEdits(Byte)
    BY LenProperties, ElementOfSeq
  <1>2. Ordered(list) = SortedBy(list, keys)
    BY <1>1 DEF Ordered
  <1>3. \A i \in 1..N : IsFiniteSet(Earlier(i)) /\ Cardinality(Earlier(i)) \in Nat
    <2>1. IsFiniteSet(1..N)
      BY <1>1, FS_Interval
    <2>2. QED
      BY <2>1, FS_Subset, FS_CardinalityType
  <1>4. keys \in Seq(Int) /\ Len(keys) = N /\ \A i \in 1..N : keys[i] \in Int
    <2>1. \A i \in 1..N : keys[i] = Cardinality(Earlier(i))
      OBVIOUS
    <2>2. keys = [i \in 1..N |-> keys[i]]
      OBVIOUS
    <2> HIDE DEF keys, Earlier
    <2>3. \A i \in 1..N : keys[i] \in Int
      BY <1>3, <2>1
    <2>4. QED
      BY <1>1, <2>2, <2>3
  <1>5. ASSUME NEW i \in 1..N, NEW j \in 1..N, Precedes(list[i], list[j])
        PROVE  keys[i] < keys[j]
    <2>1. \A k \in 1..N : {list[k].path, list[k].start, list[k].end} \subseteq Nat
      BY <1>1 DEF ByteEdits
    <2>2. Earlier(i) \subseteq Earlier(j)
      BY <1>1, <1>5, PrecedesTransitive
    <2>3. i \in Earlier(j) /\ i \notin Earlier(i)
      BY <1>5, <2>1 DEF Precedes
    <2>4. Cardinality(Earlier(i)) <= Cardinality(Earlier(j))
          /\ Cardinality(Earlier(i)) # Cardinality(Earlier(j))
      BY <1>3, <2>2, <2>3, FS_Subset
    <2> HIDE DEF Earlier
    <2>5. Cardinality(Earlier(i)) < Cardinality(Earlier(j))
      BY <1>3, <2>4
    <2>6. QED
      BY <2>5
  <1> HIDE DEF keys, N
  <1>6. /\ \A p \in 1..N : Ranked(keys)[p] \in 1..N
        /\ \A p, q \in 1..N : Ranked(keys)[p] = Ranked(keys)[q] => p = q
        /\ \A i \in 1..N : \E p \in 1..N : Ranked(keys)[p] = i
        /\ \A p, q \in 1..N : p < q => keys[Ranked(keys)[p]] <= keys[Ranked(keys)[q]]
    BY <1>4, RankedFacts
  <1>7. /\ at \in [1..N -> 1..N]
        /\ \A p \in 1..N : at[p] = Ranked(keys)[p]
    BY <1>6
  <1> HIDE DEF at
  <1>8. /\ Ordered(list) \in Seq(ByteEdits(Byte)) /\ Len(Ordered(list)) = N
        /\ \A p \in 1..N : Ordered(list)[p] = list[at[p]]
    <2>1. Len(keys) = Len(list)
      BY <1>4 DEF N
    <2>2. /\ SortedBy(list, keys) \in Seq(ByteEdits(Byte))
          /\ Len(SortedBy(list, keys)) = Len(list)
          /\ \A p \in 1..Len(list) : SortedBy(list, keys)[p] = list[Ranked(keys)[p]]
      BY <1>4, <2>1, SortedByFacts
    <2>3. QED
      BY <1>2, <1>7, <2>2 DEF N
  <1>9. ASSUME NEW p \in 1..N, NEW q \in 1..N, p < q
        PROVE  ~Precedes(Ordered(list)[q], Ordered(list)[p])
    <2>1. keys[at[p]] <= keys[at[q]] /\ at[p] \in 1..N /\ at[q] \in 1..N
      BY <1>6, <1>7, <1>9
    <2>2. keys[at[p]] \in Int /\ keys[at[q]] \in Int
      BY <1>4, <2>1
    <2>3. ~(keys[at[q]] < keys[at[p]])
      BY <2>1, <2>2
    <2>4. ~Precedes(list[at[q]], list[at[p]])
      BY <1>5, <2>1, <2>3
    <2>5. QED
      BY <1>8, <2>4
  <1>10. /\ \A p, q \in 1..N : at[p] = at[q] => p = q
         /\ \A i \in 1..N : \E p \in 1..N : at[p] = i
    BY <1>6, <1>7
  <1>11. Arranges(list, Ordered(list), at)
    BY <1>7, <1>8, <1>9, <1>10 DEF N, Arranges
  <1>12. QED
    BY <1>8, <1>11

\* A list of some is a list of more.
LEMMA ListOfMore ==
    ASSUME NEW X, NEW Y, X \subseteq Y, NEW list \in Seq(X)
    PROVE  list \in Seq(Y)
  <1>1. /\ Len(list) \in Nat
        /\ list = [k \in 1..Len(list) |-> list[k]]
        /\ \A k \in 1..Len(list) : list[k] \in Y
    BY LenProperties, ElementOfSeq
  <1>2. QED
    BY <1>1

\* Joining keeps a range once; only insertions share one.
LEMMA CombinedFacts ==
    ASSUME NEW Byte, NEW list \in Seq(ByteEdits(Byte))
    PROVE  LET c == Combined(list) IN
           \E at \in [1..Len(c) -> 1..Len(list)] :
               /\ c \in Seq(ByteEdits(Byte))
               /\ \A k \in 1..Len(c) : SameRange(c[k], list[at[k]])
               /\ \A k, l \in 1..Len(c) : at[k] = at[l] => k = l
               /\ \A i \in 1..Len(list) : \E k \in 1..Len(c) :
                      SameRange(c[k], list[i]) /\ (at[k] = i \/ Insertion(list[i]))
  <1> DEFINE N == Len(list)
             E == ByteEdits(Byte)
             id == [i \in 1..N |-> i]
             With(i) == {j \in 1..N : j = i \/ Matches(list[i], list[j])}
             Places(S) == Among(id, S)
             first == {i \in 1..N : \A j \in With(i) : i <= j}
             held == Places(first)
             texts(some) == FlattenSeq([k \in DOMAIN some |-> list[some[k]].replacement])
             c == [k \in DOMAIN held |->
                      [list[held[k]] EXCEPT !.replacement = texts(Places(With(held[k])))]]
             at == [k \in 1..Len(held) |-> held[k]]
  <1>1. N \in Nat /\ DOMAIN list = 1..N /\ \A i \in 1..N : list[i] \in E
    BY LenProperties, ElementOfSeq
  <1>2. Combined(list) = c
    BY <1>1 DEF Combined
  <1>3. id \in Seq(1..N) /\ Len(id) = N /\ ToSet(id) = 1..N /\ Distinct(id)
    <2>1. id \in Seq(1..N) /\ Len(id) = N /\ \A i \in 1..N : id[i] = i
      BY <1>1
    <2>2. ToSet(id) = {id[i] : i \in 1..N}
      BY <2>1, ToSetOfSeq
    <2>3. QED
      BY <2>1, <2>2 DEF Distinct
  <1> HIDE DEF N, id
  <1>4. ASSUME NEW S
        PROVE  /\ Places(S) \in Seq(1..N) /\ Len(Places(S)) \in Nat
               /\ DOMAIN Places(S) = 1..Len(Places(S))
               /\ {Places(S)[k] : k \in 1..Len(Places(S))} = (1..N) \cap S
               /\ Distinct(Places(S))
    <2>1. /\ Places(S) \in Seq((1..N) \cap S)
          /\ ToSet(Places(S)) = (1..N) \cap S
      <3>1. id \in Seq(1..N) /\ ToSet(id) = 1..N
        BY <1>3
      <3>2. Among(id, S) \in Seq((1..N) \cap S) /\ ToSet(Among(id, S)) = ToSet(id) \cap S
        BY <3>1, AmongFacts
      <3>3. QED
        BY <3>1, <3>2
    <2>2. Places(S) \in Seq(1..N)
      <3>1. (1..N) \cap S \subseteq 1..N
        OBVIOUS
      <3> HIDE DEF Places
      <3>2. QED
        BY <2>1, <3>1, ListOfMore
    <2>3. ToSet(Places(S)) = {Places(S)[k] : k \in 1..Len(Places(S))}
      BY <2>2, ToSetOfSeq
    <2>4. QED
      BY <1>3, <2>1, <2>2, <2>3, LenProperties, AmongDistinct
  <1> HIDE DEF Places
  <1>5. ASSUME NEW some \in Seq(1..N) PROVE texts(some) \in Seq(Byte)
    <2>1. DOMAIN some = 1..Len(some) /\ Len(some) \in Nat
          /\ \A k \in 1..Len(some) : list[some[k]].replacement \in Seq(Byte)
      BY <1>1, LenProperties, ElementOfSeq DEF ByteEdits
    <2>2. [k \in DOMAIN some |-> list[some[k]].replacement] \in Seq(Seq(Byte))
      BY <2>1
    <2>3. QED
      BY <2>2, FlattenFacts
  <1> HIDE DEF texts
  <1>6. /\ held \in Seq(1..N) /\ Len(held) \in Nat /\ DOMAIN held = 1..Len(held)
        /\ {held[k] : k \in 1..Len(held)} = first
        /\ \A k, l \in 1..Len(held) : held[k] = held[l] => k = l
    <2>1. (1..N) \cap first = first
      OBVIOUS
    <2> HIDE DEF first
    <2>2. QED
      BY <1>4, <2>1 DEF Distinct
  <1> HIDE DEF held, first
  <1>7. ASSUME NEW k \in 1..Len(held)
        PROVE  /\ held[k] \in 1..N /\ at[k] = held[k]
               /\ c[k] \in E /\ SameRange(c[k], list[held[k]])
    <2> DEFINE t == texts(Places(With(held[k])))
    <2>1. held[k] \in 1..N /\ c[k] = [list[held[k]] EXCEPT !.replacement = t]
      BY <1>6, ElementOfSeq
    <2>2. t \in Seq(Byte)
      BY <1>4, <1>5
    <2>3. list[held[k]] \in E
      BY <1>1, <2>1
    <2> HIDE DEF t, c
    <2>4. c[k] \in E /\ SameRange(c[k], list[held[k]])
      BY <2>1, <2>2, <2>3 DEF ByteEdits, SameRange
    <2>5. QED
      BY <2>1, <2>4
  <1>8. c \in Seq(E) /\ Len(c) = Len(held) /\ at \in [1..Len(held) -> 1..N]
    <2>1. at \in [1..Len(held) -> 1..N]
      BY <1>7
    <2>2. c = [k \in 1..Len(held) |-> c[k]]
      BY <1>6
    <2> HIDE DEF c, at, E
    <2>3. \A k \in 1..Len(held) : c[k] \in E
      BY <1>7
    <2>4. c \in Seq(E) /\ Len(c) = Len(held)
      BY <1>6, <2>2, <2>3
    <2>5. QED
      BY <2>1, <2>4
  <1>9. ASSUME NEW i \in 1..N
        PROVE  \E k \in 1..Len(held) : SameRange(c[k], list[i]) /\ (at[k] = i \/ Insertion(list[i]))
    <2>1. PICK j \in With(i) : \A l \in With(i) : j <= l
      <3>1. i \in With(i) /\ With(i) \in SUBSET (1..N)
        OBVIOUS
      <3> HIDE DEF With
      <3>2. Min(With(i)) \in With(i) /\ \A l \in With(i) : Min(With(i)) <= l
        BY <1>1, <3>1, LeastOf
      <3>3. QED
        BY <3>2
    <2>2. j \in 1..N /\ (j = i \/ Matches(list[i], list[j]))
      OBVIOUS
    <2>3. With(j) \subseteq With(i)
      BY <2>2 DEF Matches
    <2>4. j \in first
      BY <2>1, <2>2, <2>3 DEF first
    <2>5. PICK k \in 1..Len(held) : held[k] = j
      BY <1>6, <2>4
    <2>6. SameRange(list[j], list[i]) /\ (j = i \/ Insertion(list[i]))
      BY <2>2 DEF SameRange, Matches, Insertion
    <2> HIDE DEF c, at
    <2>7. SameRange(c[k], list[i])
      BY <1>7, <2>5, <2>6 DEF SameRange
    <2>8. QED
      BY <1>7, <2>5, <2>6, <2>7
  <1>10. \A k, l \in 1..Len(held) : at[k] = at[l] => k = l
    BY <1>6, <1>7
  <1> HIDE DEF c, at
  <1>11. /\ at \in [1..Len(c) -> 1..N]
         /\ c \in Seq(E)
         /\ \A k \in 1..Len(c) : SameRange(c[k], list[at[k]])
         /\ \A k, l \in 1..Len(c) : at[k] = at[l] => k = l
         /\ \A i \in 1..N : \E k \in 1..Len(c) :
                SameRange(c[k], list[i]) /\ (at[k] = i \/ Insertion(list[i]))
    BY <1>7, <1>8, <1>9, <1>10
  <1>12. QED
    BY <1>2, <1>11 DEF N

\* A list of ranges in order, that of an edit once, each of them of the edit of gives.
Covers(list, edits, of) ==
    /\ of \in [1..Len(list) -> ToSet(edits)]
    /\ \A p, q \in 1..Len(list) : p < q => ~Precedes(list[q], list[p])
    /\ \A p \in 1..Len(list) : SameRange(list[p], of[p])
    /\ \A p, q \in 1..Len(list) : of[p] = of[q] => p = q
    /\ \A e \in ToSet(edits) : \E p \in 1..Len(list) :
           SameRange(list[p], e) /\ (of[p] = e \/ Insertion(e))

\* That is what the normalizer compares.
LEMMA NormalizedFacts ==
    ASSUME NEW Byte, NEW edits \in Seq(ByteEdits(Byte))
    PROVE  /\ Normalized(edits) \in Seq(ByteEdits(Byte))
           /\ \E of : Covers(Normalized(edits), edits, of)
  <1> DEFINE E == ByteEdits(Byte)
             u == Unique(edits)
             c == Combined(u)
             list == Ordered(c)
  <1>1. u \in Seq(E) /\ ToSet(u) = ToSet(edits) /\ Distinct(u)
    BY FirstsFacts DEF Unique
  <1> HIDE DEF E, u
  <1>2. PICK at \in [1..Len(c) -> 1..Len(u)] :
            /\ c \in Seq(E)
            /\ \A k \in 1..Len(c) : SameRange(c[k], u[at[k]])
            /\ \A k, l \in 1..Len(c) : at[k] = at[l] => k = l
            /\ \A i \in 1..Len(u) : \E k \in 1..Len(c) :
                   SameRange(c[k], u[i]) /\ (at[k] = i \/ Insertion(u[i]))
    BY <1>1, CombinedFacts DEF E
  <1> HIDE DEF c
  <1>3. list \in Seq(E) /\ \E to : Arranges(c, list, to)
    <2>1. c \in Seq(ByteEdits(Byte))
      BY <1>2 DEF E
    <2>2. QED
      BY <2>1, OrderedFacts DEF E
  <1> HIDE DEF list
  <1>4. PICK to : Arranges(c, list, to)
    BY <1>3
  <1>5. /\ to \in [1..Len(c) -> 1..Len(c)] /\ Len(list) = Len(c)
        /\ \A p \in 1..Len(c) : list[p] = c[to[p]]
        /\ \A p, q \in 1..Len(c) : to[p] = to[q] => p = q
        /\ \A k \in 1..Len(c) : \E p \in 1..Len(c) : to[p] = k
        /\ \A p, q \in 1..Len(c) : p < q => ~Precedes(list[q], list[p])
    BY <1>4 DEF Arranges
  <1> DEFINE M == Len(c)
             of == [p \in 1..M |-> u[at[to[p]]]]
  <1>6. ToSet(u) = {u[i] : i \in 1..Len(u)}
    BY <1>1, ToSetOfSeq
  <1>7. ASSUME NEW p \in 1..M
        PROVE  /\ to[p] \in 1..M /\ at[to[p]] \in 1..Len(u)
               /\ of[p] = u[at[to[p]]] /\ of[p] \in ToSet(u)
               /\ SameRange(list[p], of[p])
    <2>1. to[p] \in 1..M /\ at[to[p]] \in 1..Len(u)
      BY <1>2, <1>5
    <2>2. SameRange(c[to[p]], u[at[to[p]]])
      BY <1>2, <2>1
    <2>3. QED
      BY <1>5, <1>6, <2>1, <2>2
  <1>8. ASSUME NEW p \in 1..M, NEW q \in 1..M, of[p] = of[q]
        PROVE  p = q
    <2>1. at[to[p]] = at[to[q]]
      BY <1>1, <1>7, <1>8 DEF Distinct
    <2>2. to[p] = to[q]
      BY <1>2, <1>7, <2>1
    <2>3. QED
      BY <1>5, <2>2
  <1>9. ASSUME NEW e \in ToSet(u)
        PROVE  \E p \in 1..M : SameRange(list[p], e) /\ (of[p] = e \/ Insertion(e))
    <2>1. PICK i \in 1..Len(u) : e = u[i]
      BY <1>6
    <2>2. PICK k \in 1..M : SameRange(c[k], u[i]) /\ (at[k] = i \/ Insertion(u[i]))
      BY <1>2
    <2>3. PICK p \in 1..M : to[p] = k
      BY <1>5
    <2>4. list[p] = c[k] /\ of[p] = u[at[k]]
      BY <1>5, <1>7, <2>3
    <2>5. QED
      BY <2>1, <2>2, <2>4
  <1>10. of \in [1..M -> ToSet(edits)]
    BY <1>1, <1>7
  <1> HIDE DEF of
  <1>11. Covers(list, edits, of)
    BY <1>1, <1>3, <1>5, <1>7, <1>8, <1>9, <1>10 DEF Covers
  <1>12. Normalized(edits) = list
    BY DEF Normalized, list, c, u
  <1>13. QED
    BY <1>3, <1>11, <1>12 DEF E

\* Comparing neighbours refuses a list of edits exactly when a range of it ends before it
\* starts or two different edits of it collide, however many edits there are and in
\* whatever order the repairs contributed them.
LEMMA RefusedExactly ==
    ASSUME NEW Byte, NEW edits \in Seq(ByteEdits(Byte))
    PROVE  ~Refused(edits) <=>
               /\ \A e \in ToSet(edits) : e.start <= e.end
               /\ \A e, f \in ToSet(edits) : e = f \/ Apart(e, f)
  <1> DEFINE list == Normalized(edits)
             Ranged == \A e \in ToSet(edits) : e.start <= e.end
  <1>1. list \in Seq(ByteEdits(Byte)) /\ \E of : Covers(list, edits, of)
    BY NormalizedFacts
  <1>2. /\ ToSet(edits) = {edits[i] : i \in 1..Len(edits)}
        /\ ToSet(edits) \subseteq ByteEdits(Byte)
        /\ DOMAIN edits = 1..Len(edits)
    BY ToSetOfSeq, LenProperties
  <1>3. (\E i \in DOMAIN edits : edits[i].start > edits[i].end) <=> ~Ranged
    <2>1. ASSUME NEW e \in ToSet(edits) PROVE e.start > e.end <=> ~(e.start <= e.end)
      <3>1. e \in ByteEdits(Byte)
        BY <1>2
      <3>2. e.start \in Nat /\ e.end \in Nat
        BY <3>1 DEF ByteEdits
      <3>3. QED
        BY <3>2
    <2>2. (\E i \in DOMAIN edits : edits[i].start > edits[i].end)
              <=> \E e \in ToSet(edits) : e.start > e.end
      BY <1>2
    <2>3. QED
      BY <2>1, <2>2
  <1>4. Refused(edits) <=> ~Ranged \/ NeighboursOverlap(list)
    BY <1>3 DEF Refused, NeighboursOverlap
  <1> HIDE DEF list
  <1>5. PICK of : Covers(list, edits, of)
    BY <1>1
  <1>6. SUFFICES ASSUME Ranged
                 PROVE  NeighboursOverlap(list) <=>
                            \E e, f \in ToSet(edits) : e # f /\ ~Apart(e, f)
    BY <1>4
  <1>7. \A p \in 1..Len(list) : list[p].start <= list[p].end
    BY <1>5, <1>6 DEF SameRange, Covers
  <1>8. NeighboursOverlap(list) <=>
            \E p, q \in 1..Len(list) : p # q /\ ~Apart(list[p], list[q])
    BY <1>1, <1>5, <1>7, NeighboursOfSorted DEF Covers
  <1>9. ASSUME NEW p \in 1..Len(list), NEW q \in 1..Len(list), p # q, ~Apart(list[p], list[q])
        PROVE  \E e, f \in ToSet(edits) : e # f /\ ~Apart(e, f)
    <2>1. of[p] \in ToSet(edits) /\ of[q] \in ToSet(edits) /\ of[p] # of[q]
      BY <1>5, <1>9 DEF Covers
    <2>2. ~Apart(of[p], of[q])
      <3>1. SameRange(list[p], of[p]) /\ SameRange(list[q], of[q])
        BY <1>5 DEF Covers
      <3>2. QED
        BY <1>9, <3>1, ApartByRange
    <2>3. QED
      BY <2>1, <2>2
  <1>10. ASSUME NEW e \in ToSet(edits), NEW f \in ToSet(edits), e # f, ~Apart(e, f)
        PROVE  \E p, q \in 1..Len(list) : p # q /\ ~Apart(list[p], list[q])
    <2>1. PICK p \in 1..Len(list) : SameRange(list[p], e) /\ (of[p] = e \/ Insertion(e))
      BY <1>5 DEF Covers
    <2>2. PICK q \in 1..Len(list) : SameRange(list[q], f) /\ (of[q] = f \/ Insertion(f))
      BY <1>5 DEF Covers
    <2>3. p # q
      <3>1. SUFFICES ASSUME p = q PROVE FALSE
        OBVIOUS
      <3>2. SameRange(e, f)
        BY <2>1, <2>2, <3>1 DEF SameRange
      <3>3. ~Insertion(e)
        BY <1>2, <1>10, <3>2, InsertionsApart
      <3>4. ~Insertion(f)
        BY <3>2, <3>3 DEF SameRange, Insertion
      <3>5. QED
        BY <1>10, <2>1, <2>2, <3>1, <3>3, <3>4
    <2>4. ~Apart(list[p], list[q])
      BY <1>10, <2>1, <2>2, ApartByRange
    <2>5. QED
      BY <2>3, <2>4
  <1>11. QED
    BY <1>8, <1>9, <1>10

\* "Reject every overlapping replacement", of every document: what the normalizer compares
\* only between neighbours holds of all pairs.
THEOREM NeighboursAreEnough ==
    ASSUME NEW Byte, NEW lists \in SUBSET Seq(ByteEdits(Byte))
    PROVE  NeighboursDecide(lists)
  BY RefusedExactly DEF NeighboursDecide

\* The edits of several repairs merge exactly when those of every two of them do, each with
\* itself included: a batch is cut down by pairs that collide, as Compatible has it.
THEOREM BatchesMergeInPairs ==
    ASSUME NEW Byte, NEW programs \in Seq(Seq(ByteEdits(Byte)))
    PROVE  ~Refused(FlattenSeq(programs)) <=>
               \A i, j \in 1..Len(programs) : ~Refused(programs[i] \o programs[j])
  <1> DEFINE E == ByteEdits(Byte)
             all == FlattenSeq(programs)
             Fine(S) == /\ \A e \in S : e.start <= e.end
                        /\ \A e, f \in S : e = f \/ Apart(e, f)
  <1>1. /\ all \in Seq(E)
        /\ ToSet(all) = UNION {ToSet(l) : l \in ToSet(programs)}
        /\ ToSet(programs) = {programs[i] : i \in 1..Len(programs)}
    BY FlattenFacts, ToSetOfSeq
  <1>2. ASSUME NEW i \in 1..Len(programs), NEW j \in 1..Len(programs)
        PROVE  /\ programs[i] \o programs[j] \in Seq(E)
               /\ ToSet(programs[i] \o programs[j]) = ToSet(programs[i]) \cup ToSet(programs[j])
    <2>1. programs[i] \in Seq(E) /\ programs[j] \in Seq(E)
      BY ElementOfSeq
    <2>2. QED
      BY <2>1, ConcatProperties, ToSetOfConcat
  <1>3. ~Refused(all) <=> Fine(ToSet(all))
    BY <1>1, RefusedExactly
  <1>4. ASSUME NEW i \in 1..Len(programs), NEW j \in 1..Len(programs)
        PROVE  ~Refused(programs[i] \o programs[j])
                   <=> Fine(ToSet(programs[i]) \cup ToSet(programs[j]))
    <2> DEFINE two == programs[i] \o programs[j]
    <2>1. two \in Seq(ByteEdits(Byte))
          /\ ToSet(two) = ToSet(programs[i]) \cup ToSet(programs[j])
      BY <1>2
    <2> HIDE DEF two
    <2>2. ~Refused(two) <=> Fine(ToSet(two))
      BY <2>1, RefusedExactly
    <2>3. QED
      BY <2>1, <2>2 DEF two
  <1> HIDE DEF all
  <1>5. ASSUME Fine(ToSet(all)), NEW i \in 1..Len(programs), NEW j \in 1..Len(programs)
        PROVE  Fine(ToSet(programs[i]) \cup ToSet(programs[j]))
    BY <1>1, <1>5
  <1>6. ASSUME \A i, j \in 1..Len(programs) : Fine(ToSet(programs[i]) \cup ToSet(programs[j]))
        PROVE  Fine(ToSet(all))
    <2>1. \A e \in ToSet(all) : \E i \in 1..Len(programs) : e \in ToSet(programs[i])
      BY <1>1
    <2>2. QED
      BY <1>6, <2>1
  <1> HIDE DEF Fine
  <1>7. QED
    BY <1>3, <1>4, <1>5, <1>6 DEF all

-----------------------------------------------------------------------------
(* Refinement: the session implements FixTransaction.                      *)

LEMMA InitMaps == Init => Transaction!Init
  BY DEF Init, WriterInit, Transaction!Init, Transaction!Image, AtRest, Busy

\* Every step of the session is a step of the transaction or leaves it alone.
LEMMA StepMaps == IInv /\ [Next]_vars => [Transaction!Next]_(Transaction!vars)
  <1> SUFFICES ASSUME IInv, [Next]_vars
               PROVE  Transaction!Next \/ UNCHANGED Transaction!vars
    OBVIOUS
  <1> USE FixAssumption DEF IInv, TypeOK, WriterTypeOK, writerVars, sessionVars, worldVars,
      othersVars, AtRest, Busy, Ended
  <1>1. CASE Offer
    <2>1. Transaction!Begin(batch')
      BY <1>1 DEF Offer, Transaction!Begin
    <2>2. batch' \in SUBSET Fix
      BY NextType
    <2>3. QED
      BY <2>1, <2>2 DEF Transaction!Next
  <1>2. CASE Check \/ Reject \/ JudgmentFails
    <2>1. UNCHANGED <<disk, kept, meddled>> /\ pc \in Busy
          /\ written' \ meddled' = written \ meddled
      <3>1. CASE Check /\ UNCHANGED written
        BY <3>1 DEF Check
      <3>2. CASE Check /\ ~UNCHANGED written
        <4>1. pc = "check" /\ Appliable /\ written' = {} /\ UNCHANGED <<disk, kept, meddled>>
          BY <3>2 DEF Check
        <4>2. RolledBack \/ Spoiled
          BY <4>1 DEF Appliable, RetryInv, Stuck, BatchFiles, BatchDirs
        <4>3. written \subseteq meddled
          BY <4>2 DEF RolledBack, Spoiled, AtStake
        <4>4. QED
          BY <4>1, <4>3
      <3>3. CASE Reject \/ JudgmentFails
        BY <3>3 DEF Reject, JudgmentFails, StartRestore
      <3>4. QED
        BY <1>2, <3>1, <3>2, <3>3
    <2>2. \/ pc' \in Busy /\ UNCHANGED batch
          \/ pc' \in Busy /\ batch' \in SUBSET Fix
          \/ pc' = "raised"
      BY <1>2, NextType, UnrenderableNarrows DEF Check, Reject, JudgmentFails, StartRestore
    <2>3. CASE pc' \in Busy /\ UNCHANGED batch
      BY <2>1, <2>3 DEF Transaction!vars
    <2>4. CASE pc' \in Busy /\ batch' \in SUBSET Fix
      <3>1. Transaction!Narrow(batch')
        BY <2>1, <2>4 DEF Transaction!Narrow
      <3>2. QED
        BY <2>4, <3>1 DEF Transaction!Next
    <2>5. CASE pc' = "raised"
      <3>1. Transaction!Halt
        BY <2>1, <2>5 DEF Transaction!Halt
      <3>2. QED
        BY <3>1 DEF Transaction!Next
    <2>6. QED
      BY <2>2, <2>3, <2>4, <2>5
  <1>3. ASSUME NEW f \in File, WriteFile(f), Write
        PROVE  Transaction!Next \/ UNCHANGED Transaction!vars
    <2>1. /\ pc = "writing" /\ pc' = pc /\ f \in BatchFiles /\ written' = written \cup {f}
          /\ disk' = [disk EXCEPT ![f] = Revised(f)] /\ UNCHANGED <<batch, kept, meddled>>
      BY <1>3 DEF Write, WriteFile
    <2>2. CASE f \in meddled
      BY <2>1, <2>2 DEF Transaction!vars
    <2>3. CASE f \notin meddled
      <3>1. Revised(f) \cap Fix = {x \in kept \cup batch : f \in Writes[x]}
        <4>1. snap[f] \cap Fix = {x \in kept : f \in Writes[x]}
          BY <2>1, <2>3 DEF TreeInv, Carried
        <4>2. QED
          BY <4>1 DEF Revised
      <3>2. [g \in File \ meddled |-> disk'[g] \cap Fix]
              = [[g \in File \ meddled |-> disk[g] \cap Fix]
                    EXCEPT ![f] = Revised(f) \cap Fix]
        BY <2>1, <2>3
      <3>3. (written \cup {f}) \ meddled = (written \ meddled) \cup {f}
        BY <2>3
      <3>4. Transaction!Swap(f)
        BY <2>1, <2>3, <3>1, <3>2, <3>3 DEF Transaction!Swap, Transaction!Image
      <3>5. QED
        BY <3>4 DEF Transaction!Next
    <2>4. QED
      BY <2>2, <2>3
  <1>4. ASSUME NEW f \in File, RestoreFile(f), Restore
        PROVE  Transaction!Next \/ UNCHANGED Transaction!vars
    <2>1. /\ pc \in {"restoring", "undoing"} /\ pc' = pc /\ written' = written \ {f}
          /\ disk' = [disk EXCEPT ![f] = snap[f]] /\ UNCHANGED <<batch, kept, meddled>>
      BY <1>4 DEF Restore, RestoreFile
    <2>2. CASE f \in meddled
      BY <2>1, <2>2 DEF Transaction!vars
    <2>3. CASE f \notin meddled
      <3>1. snap[f] \cap Fix = {x \in kept : f \in Writes[x]}
        BY <2>1, <2>3 DEF TreeInv, Carried
      <3>2. [g \in File \ meddled |-> disk'[g] \cap Fix]
              = [[g \in File \ meddled |-> disk[g] \cap Fix]
                    EXCEPT ![f] = snap[f] \cap Fix]
        BY <2>1, <2>3
      <3>3. (written \ {f}) \ meddled = (written \ meddled) \ {f}
        OBVIOUS
      <3>4. Transaction!Undo(f)
        BY <2>1, <2>3, <3>1, <3>2, <3>3 DEF Transaction!Undo, Transaction!Image
      <3>5. QED
        BY <3>4 DEF Transaction!Next
    <2>4. QED
      BY <2>2, <2>3
  <1>5. CASE Keep
    <2>1. /\ pc = "verifying" /\ pc' = "offer" /\ kept' = kept \cup batch
          /\ written' = {} /\ UNCHANGED <<disk, meddled>>
      BY <1>5 DEF Keep
    <2>2. ASSUME NEW f \in File \ meddled
          PROVE  disk[f] \cap Fix = {x \in kept \cup batch : f \in Writes[x]}
      <3>1. CASE f \in written
        BY <2>1, <3>1 DEF TreeInv, InFlight, Carried
      <3>2. CASE f \notin written
        BY <2>1, <3>2 DEF TreeInv, Applied, BatchFiles, Carried
      <3>3. QED
        BY <3>1, <3>2
    <2>3. Transaction!Commit
      BY <2>1, <2>2 DEF Transaction!Commit, Transaction!Image
    <2>4. QED
      BY <2>3 DEF Transaction!Next
  <1>6. CASE Refuse
    <2>1. /\ pc = "restoring" /\ pc' = "offer" /\ UNCHANGED <<kept, disk, meddled>>
          /\ written = {} /\ written' = {}
      BY <1>6 DEF Refuse, RolledBack
    <2>2. \A f \in File \ meddled : disk[f] \cap Fix = {x \in kept : f \in Writes[x]}
      BY <2>1 DEF TreeInv, Carried
    <2>3. Transaction!Abort
      BY <2>1, <2>2 DEF Transaction!Abort, Transaction!Image
    <2>4. QED
      BY <2>3 DEF Transaction!Next
  <1>7. CASE Halve
    <2>1. Transaction!Narrow(batch')
      BY <1>7 DEF Halve, Transaction!Narrow
    <2>2. batch' \in SUBSET Fix
      BY NextType
    <2>3. QED
      BY <2>1, <2>2 DEF Transaction!Next
  <1>8. CASE Raise \/ RestoreFails \/ Die
    <2>1. UNCHANGED <<kept, disk, written, meddled>> /\ pc' \in {"raised", "dead"}
          /\ pc \notin Ended
      BY <1>8 DEF Raise, RestoreFails, Die
    <2>2. pc \in Phase
      OBVIOUS
    <2>3. Transaction!Halt
      BY <2>1, <2>2 DEF Transaction!Halt, Phase
    <2>4. QED
      BY <2>3 DEF Transaction!Next
  <1>9. CASE Finish \/ Written \/ WriteFails
    BY <1>9 DEF Finish, Written, WriteFails, Transaction!vars
  <1>10. ASSUME NEW d \in Dir, \/ RemoveDirectory(d) /\ Write
                               \/ RestoreDirectory(d) /\ Restore
                               \/ FillDirectory(d)
         PROVE  UNCHANGED Transaction!vars
    BY <1>10 DEF RemoveDirectory, Write, RestoreDirectory, Restore, FillDirectory,
       Transaction!vars
  <1>11. ASSUME NEW f \in File, NEW e \in Edit, EditFile(f, e)
         PROVE  UNCHANGED Transaction!vars
    <2>1. /\ UNCHANGED <<kept, batch, pc, written, meddled>>
          /\ disk' = [disk EXCEPT ![f] = @ \cup {e}]
      BY <1>11 DEF EditFile
    <2>2. \A g \in File : disk'[g] \cap Fix = disk[g] \cap Fix
      BY <2>1
    <2>3. QED
      BY <2>1, <2>2 DEF Transaction!vars
  <1>12. ASSUME NEW path \in File \cup Dir, PutBack(path),
                \A g \in File : g # path => disk'[g] = disk[g]
         PROVE  Transaction!Next \/ UNCHANGED Transaction!vars
    <2> DEFINE back == path \in written \cup removed
               files == IF back THEN File \cap AtStake ELSE File \cap {path}
    <2>1. /\ UNCHANGED <<kept, batch, pc, written>>
          /\ meddled' = meddled \cup {path} \cup (IF back THEN AtStake ELSE {})
      BY <1>12 DEF PutBack
    <2>2. path \in files \/ path \notin File
      BY DEF AtStake
    <2>3. File \ meddled' = (File \ meddled) \ files
      BY <2>1, <2>2
    <2>4. written' \ meddled' = (written \ meddled) \ files
      BY <2>1, <2>2
    <2>5. \A g \in File \ meddled' : disk'[g] = disk[g]
      BY <1>12, <2>1
    <2> HIDE DEF files
    <2>6. UNCHANGED <<kept,
                      IF pc \in Busy THEN batch ELSE {},
                      IF AtRest THEN "rest" ELSE IF pc \in Busy THEN "open" ELSE "halted">>
      BY <2>1
    <2>7. CASE back
      <3>1. pc \in Busy
        BY <1>12, <2>7 DEF PutBack, TreeInv, RolledBack, Phase
      <3> DEFINE gone == (written \ meddled)
                            \cup UNION {Writes[x] : x \in IF pc \in Busy THEN batch ELSE {}}
      <3>2. File \cap AtStake = written \cup UNION {Writes[x] : x \in batch}
        BY DEF AtStake, BatchFiles, BatchDirs
      <3>3. gone = (written \ meddled) \cup UNION {Writes[x] : x \in batch}
        BY <3>1
      <3>4. File \ meddled' = (File \ meddled) \ gone
        BY <2>3, <2>7, <3>2, <3>3 DEF files
      <3>5. written' \ meddled' = (written \ meddled) \ gone
        BY <2>4, <2>7, <3>2, <3>3 DEF files
      <3>6. Transaction!Lose(gone)
        <4> HIDE DEF gone
        <4>1. QED
          BY <2>5, <2>6, <3>4, <3>5 DEF Transaction!Lose
      <3>7. Transaction!Meddle
        BY <3>1, <3>6 DEF Transaction!Meddle
      <3>8. QED
        BY <3>7 DEF Transaction!Next
    <2>8. CASE ~back /\ path \in File
      <3>1. files = {path}
        BY <2>8 DEF files
      <3>2. File \ meddled' = (File \ meddled) \ {path}
            /\ written' \ meddled' = (written \ meddled) \ {path}
        BY <2>3, <2>4, <3>1
      <3>3. Transaction!Lose({path})
        BY <2>5, <2>6, <3>2 DEF Transaction!Lose
      <3>4. Transaction!Meddle
        BY <2>8, <3>3 DEF Transaction!Meddle
      <3>5. QED
        BY <3>4 DEF Transaction!Next
    <2>9. CASE ~back /\ path \notin File
      <3>1. files = {}
        BY <2>9 DEF files
      <3>2. File \ meddled' = File \ meddled /\ written' \ meddled' = written \ meddled
        BY <2>3, <2>4, <3>1
      <3>3. [g \in File \ meddled' |-> disk'[g] \cap Fix]
              = [g \in File \ meddled |-> disk[g] \cap Fix]
        BY <2>5, <3>2
      <3>4. QED
        BY <2>1, <3>2, <3>3 DEF Transaction!vars
    <2>10. QED
      BY <2>7, <2>8, <2>9
  <1>13. ASSUME NEW f \in File, NEW content \in SUBSET disk[f], RevertFile(f, content)
         PROVE  Transaction!Next \/ UNCHANGED Transaction!vars
    BY <1>12, <1>13 DEF RevertFile
  <1>14. ASSUME NEW d \in Dir, NEW state \in {"empty", "absent"}, RevertDirectory(d, state)
         PROVE  Transaction!Next \/ UNCHANGED Transaction!vars
    BY <1>12, <1>14 DEF RevertDirectory
  <1>15. CASE UNCHANGED vars
    BY <1>15 DEF vars, Transaction!vars
  <1>16. QED
    BY <1>1, <1>2, <1>3, <1>4, <1>5, <1>6, <1>7, <1>8, <1>9, <1>10, <1>11, <1>13, <1>14,
       <1>15 DEF Next, Session, Environment, Write, Restore

\* The session implements the transaction: whatever fails, interferes or is killed, the
\* tree of repairs moves only as FixTransaction allows, less the files others put back.
THEOREM SessionRefines == Spec => Transactional
  BY InitMaps, StepMaps, Invariant, PTL DEF Spec, Transactional, Transaction!Spec
=============================================================================
