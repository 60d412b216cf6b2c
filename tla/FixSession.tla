----------------------------- MODULE FixSession -----------------------------
(***************************************************************************)
(* The repair loop of presentation/fixes/application/session.py over the   *)
(* writer of FixWriter.  A session renders the fixes its current report    *)
(* offers, applies them as one batch, runs the judgment again on the       *)
(* revised tree, keeps the batch when every plan's finding declined, and   *)
(* otherwise restores it and tries its first half, down to one plan, which *)
(* it then refuses.                                                        *)
(*                                                                         *)
(* The judgment is the function of the tree that closes and breaks give:   *)
(* which findings each applied fix closes, and which fixes leave a file    *)
(* that no longer parses.  They are chosen once, and the session knows     *)
(* neither.  A report also holds findings that no fix of the session       *)
(* repairs; they count like the others.                                    *)
(***************************************************************************)
EXTENDS FixWriter

CONSTANTS Other,      \* findings without a fix, or with one of another safety
          Message,    \* the message of each finding, with its rule
          Overlaps,   \* pairs of fixes whose byte edits collide in a shared file
          Cures,      \* the functions closes is drawn from
          MaxFixes,   \* --maximum-fixes
          MaxFaults,  \* bound on the OS errors of one behaviour
          MaxReverts  \* bound on what other programs put back in one behaviour

\* A finding is named by the fix that repairs it, if there is one.
Finding == Fix \cup Other

ASSUME SessionAssumption ==
    /\ Overlaps \subseteq Fix \X Fix
    /\ Fix \cap Other = {}
    /\ Cures \subseteq [Fix -> SUBSET Finding]
    /\ MaxFixes \in Nat
    /\ MaxFaults \in Nat
    /\ MaxReverts \in Nat

VARIABLES pc,        \* where the session is
          report,    \* findings open in the current report
          kept,      \* result.applied
          blocked,   \* signatures of refused plans
          attempted, \* plans retained or refused so far
          retrying,  \* inside _first_verified
          failing,   \* rolling back because the judgment itself raised
          closes,    \* the findings each fix closes once applied
          breaks,    \* the fixes that leave a file unparsable
          landed,    \* where the session was when each foreign edit landed
          faults,    \* OS errors so far
          disturbed, \* for the batch in flight: a rollback met an OS error, or others interfered
          reverts,   \* what other programs have put back so far
          meddled    \* paths other programs put back, with those at stake in the batch it undid

sessionVars == <<report, kept, blocked, attempted>>
worldVars == <<closes, breaks>>
othersVars == <<landed, reverts, meddled>>
vars == <<writerVars, pc, sessionVars, retrying, failing, worldVars, faults, disturbed,
          othersVars>>

Busy == {"check", "writing", "undoing", "verifying", "restoring"}
Ended == {"done", "raised", "dead"}
Phase == {"offer"} \cup Busy \cup Ended

TypeOK ==
    /\ WriterTypeOK
    /\ pc \in Phase
    /\ report \subseteq Finding
    /\ kept \subseteq Fix
    /\ attempted \in Nat
    /\ retrying \in BOOLEAN
    /\ failing \in BOOLEAN
    /\ closes \in [Fix -> SUBSET Finding]
    /\ breaks \subseteq Fix
    /\ landed \in [Edit -> Phase \cup {"pending"}]
    /\ faults \in Nat
    /\ disturbed \in BOOLEAN
    /\ reverts \in Nat
    /\ meddled \subseteq File \cup Dir

Init ==
    /\ WriterInit
    /\ pc = "offer"
    /\ report = Finding
    /\ kept = {}
    /\ blocked = {}
    /\ attempted = 0
    /\ retrying = FALSE
    /\ failing = FALSE
    /\ closes \in Cures
    /\ breaks \in SUBSET Fix
    /\ landed = [e \in Edit |-> "pending"]
    /\ faults = 0
    /\ disturbed = FALSE
    /\ reverts = 0
    /\ meddled = {}

-----------------------------------------------------------------------------
(* Candidates, in report order.                                            *)

Prefix(S, n) == {x \in S : Cardinality({y \in S : y < x}) < n}

\* A plan renders while its directories are empty and it would still change something.
Renderable(x) ==
    /\ \A d \in Prunes[x] : dirs[d] = "empty"
    /\ Prunes[x] # {} \/ \E f \in Writes[x] : x \notin disk[f]

\* RenderedFix.signature: the plan with the bytes it was rendered from.
Signature(x, tree) == <<x, [f \in Writes[x] |-> tree[f]]>>

Candidates == {x \in report \cap Fix : Renderable(x) /\ Signature(x, disk) \notin blocked}

\* EditNormalizer refuses a batch with colliding edits; one plan alone never collides.
Compatible(S) == \A x, y \in S : x # y => <<x, y>> \notin Overlaps

-----------------------------------------------------------------------------
(* The fresh judgment of the tree on disk.                                 *)

InForce == {x \in Fix : /\ \A f \in Writes[x] : x \in disk[f]
                        /\ \A d \in Prunes[x] : dirs[d] = "absent"}

Open == {x \in Finding : \A y \in InForce : x \notin closes[y]}

Unparsable == Cardinality({f \in File : disk[f] \cap breaks # {}})

\* Parse failures of the tree the current report was made of.
UnparsableBefore == Cardinality({f \in File : snap[f] \cap breaks # {}})

\* FixSession.matching: every finding of the rule counts, whoever could repair it.
Matching(findings, x) == Cardinality({y \in findings : Message[y] = Message[x]})

\* Bug form: one declining finding is enough for the whole batch.
ImprovedSomewhere ==
    /\ Unparsable <= UnparsableBefore
    /\ \E x \in batch : Matching(Open, x) < Matching(report, x)

\* FixSession._improved.
Improved ==
    /\ Unparsable <= UnparsableBefore
    /\ \A x \in batch : Matching(Open, x) < Matching(report, x)

-----------------------------------------------------------------------------
(* The session's own steps.                                                *)

\* run: render what the report offers, less what was refused, cut to the remaining budget.
Offer ==
    /\ pc = "offer"
    /\ attempted < MaxFixes
    /\ Candidates # {}
    /\ batch' = Prefix(Candidates, MaxFixes - attempted)
    /\ snap' = disk
    /\ retrying' = FALSE
    /\ pc' = "check"
    /\ disturbed' = FALSE
    /\ UNCHANGED <<disk, dirs, written, removed, sessionVars, failing, worldVars,
                   othersVars, faults>>

\* run: the budget is spent or nothing is left to try.
Finish ==
    /\ pc = "offer"
    /\ attempted >= MaxFixes \/ Candidates = {}
    /\ pc' = "done"
    /\ UNCHANGED <<writerVars, sessionVars, retrying, failing, worldVars,
                   othersVars, faults, disturbed>>

\* retain catches UnrenderableFix once and retries the first plan alone; the second
\* one leaves run as an exception.
Unrenderable ==
    /\ failing' = FALSE
    /\ IF retrying
       THEN pc' = "raised" /\ UNCHANGED <<batch, retrying>>
       ELSE pc' = "check" /\ batch' = Prefix(batch, 1) /\ retrying' = TRUE

\* _verified: merge the plans and pass the checks of apply_changes, which begins with
\* nothing written even if a batch that could not be restored is still on disk.
Check ==
    /\ pc = "check"
    /\ IF Compatible(batch) /\ Appliable
       THEN /\ pc' = "writing"
            /\ written' = {} /\ removed' = {}
            /\ UNCHANGED <<batch, retrying, failing>>
       ELSE Unrenderable /\ UNCHANGED <<written, removed>>
    /\ UNCHANGED <<disk, dirs, snap, sessionVars, worldVars, othersVars, faults, disturbed>>

\* apply_changes: the next file or directory of the batch.
Write ==
    /\ pc = "writing"
    /\ (\E f \in File : WriteFile(f)) \/ (\E d \in Dir : RemoveDirectory(d))
    /\ UNCHANGED <<pc, sessionVars, retrying, failing, worldVars, othersVars, faults, disturbed>>

\* apply_changes returns with the whole batch on disk.
Written ==
    /\ pc = "writing"
    /\ Applied
    /\ pc' = "verifying"
    /\ UNCHANGED <<writerVars, sessionVars, retrying, failing, worldVars,
                   othersVars, faults, disturbed>>

\* Bug form: the OSError leaves apply_changes without a rollback.
WriteFailsBare ==
    /\ pc = "writing"
    /\ \/ RemovalBlocked /\ UNCHANGED faults
       \/ ~Applied /\ faults < MaxFaults /\ faults' = faults + 1
    /\ pc' = "raised"
    /\ UNCHANGED <<writerVars, sessionVars, retrying, failing, worldVars, othersVars,
                   disturbed>>

\* A write, an fsync or a rmdir raises OSError: apply_changes rolls back what it did.
WriteFails ==
    /\ pc = "writing"
    /\ \/ RemovalBlocked /\ UNCHANGED faults
       \/ ~Applied /\ faults < MaxFaults /\ faults' = faults + 1
    /\ pc' = "undoing"
    /\ UNCHANGED <<writerVars, sessionVars, retrying, failing, worldVars, othersVars,
                   disturbed>>

\* Bug form: only the first plan of a verified batch is recorded as applied.
KeepFirst ==
    /\ pc = "verifying"
    /\ Improved
    /\ report' = Open
    /\ kept' = kept \cup Prefix(batch, 1)
    /\ attempted' = attempted + Cardinality(batch)
    /\ written' = {}
    /\ removed' = {}
    /\ pc' = "offer"
    /\ UNCHANGED <<disk, dirs, batch, snap, blocked, retrying, failing, worldVars,
                   othersVars, faults, disturbed>>

\* _verified: every plan's finding declined, so the rollback is dropped.
Keep ==
    /\ pc = "verifying"
    /\ Improved
    /\ report' = Open
    /\ kept' = kept \cup batch
    /\ attempted' = attempted + Cardinality(batch)
    /\ written' = {}
    /\ removed' = {}
    /\ pc' = "offer"
    /\ UNCHANGED <<disk, dirs, batch, snap, blocked, retrying, failing, worldVars,
                   othersVars, faults, disturbed>>

\* The rollback callback, on its own refusal an UnrenderableFix like any other.
StartRestore(raised) ==
    /\ IF Restorable
       THEN pc' = "restoring" /\ failing' = raised /\ UNCHANGED <<batch, retrying>>
       ELSE Unrenderable
    /\ UNCHANGED <<disk, dirs, snap, written, removed, sessionVars, worldVars,
                   othersVars, faults, disturbed>>

\* _verified: some finding did not decline, or a file no longer parses.
Reject == pc = "verifying" /\ ~Improved /\ StartRestore(FALSE)

\* The judgment itself raises; ExitStack still runs the rollback.
JudgmentFails == pc = "verifying" /\ StartRestore(TRUE)

\* One step of restore_changes or of the rollback of apply_changes.
Restore ==
    /\ pc \in {"restoring", "undoing"}
    /\ (\E d \in Dir : RestoreDirectory(d)) \/ (\E f \in File : RestoreFile(f))
    /\ UNCHANGED <<pc, sessionVars, retrying, failing, worldVars, othersVars, faults, disturbed>>

\* An OSError inside a rollback ends the session with the batch partly on disk.
RestoreFails ==
    /\ pc \in {"restoring", "undoing"}
    /\ \/ RestoreBlocked /\ UNCHANGED faults
       \/ ~RolledBack /\ faults < MaxFaults /\ faults' = faults + 1
    /\ disturbed' = TRUE
    /\ pc' = "raised"
    /\ UNCHANGED <<writerVars, sessionVars, retrying, failing, worldVars, othersVars>>

\* The rollback is complete and the exception that caused it leaves run.
Raise ==
    /\ pc = "undoing" \/ (pc = "restoring" /\ failing)
    /\ RolledBack
    /\ pc' = "raised"
    /\ UNCHANGED <<writerVars, sessionVars, retrying, failing, worldVars,
                   othersVars, faults, disturbed>>

\* Bug form: the batch is halved upwards, so one plan is retried for ever.
HalveUpwards ==
    /\ pc = "restoring" /\ ~failing
    /\ RolledBack
    /\ Cardinality(batch) >= 1
    /\ batch' = Prefix(batch, (Cardinality(batch) + 1) \div 2)
    /\ retrying' = FALSE
    /\ pc' = "check"
    /\ UNCHANGED <<disk, dirs, snap, written, removed, sessionVars, failing, worldVars,
                   othersVars, faults, disturbed>>

\* retain: a rejected batch of several plans is halved.
Halve ==
    /\ pc = "restoring" /\ ~failing
    /\ RolledBack
    /\ Cardinality(batch) > 1
    /\ batch' = Prefix(batch, Cardinality(batch) \div 2)
    /\ retrying' = FALSE
    /\ pc' = "check"
    /\ UNCHANGED <<disk, dirs, snap, written, removed, sessionVars, failing, worldVars,
                   othersVars, faults, disturbed>>

\* retain and run: a rejected single plan is refused, and its rendering never offered again.
Refuse ==
    /\ pc = "restoring" /\ ~failing
    /\ RolledBack
    /\ Cardinality(batch) <= 1
    /\ blocked' = blocked \cup {Signature(x, snap) : x \in batch}
    /\ attempted' = attempted + 1
    /\ pc' = "offer"
    /\ UNCHANGED <<writerVars, report, kept, retrying, failing, worldVars,
                   othersVars, faults, disturbed>>

-----------------------------------------------------------------------------
(* What happens around the session.                                        *)

\* A kill, or KeyboardInterrupt, which apply_changes does not catch.
Die ==
    /\ pc \notin Ended
    /\ pc' = "dead"
    /\ UNCHANGED <<writerVars, sessionVars, retrying, failing, worldVars,
                   othersVars, faults, disturbed>>

\* Another program changes a source file.
EditFile(f, e) ==
    /\ pc \notin Ended
    /\ landed[e] = "pending"
    /\ disk' = [disk EXCEPT ![f] = @ \cup {e}]
    /\ landed' = [landed EXCEPT ![e] = pc]
    /\ disturbed' = (disturbed \/ pc \in Busy)
    /\ UNCHANGED <<dirs, batch, snap, written, removed, pc, sessionVars, retrying, failing,
                   worldVars, faults, reverts, meddled>>

\* Another program puts a file into a directory, which it creates if it must.
FillDirectory(d) ==
    /\ pc \notin Ended
    /\ dirs[d] # "filled"
    /\ dirs' = [dirs EXCEPT ![d] = "filled"]
    /\ disturbed' = (disturbed \/ pc \in Busy)
    /\ UNCHANGED <<disk, batch, snap, written, removed, pc, sessionVars, retrying, failing,
                   worldVars, faults, othersVars>>

\* Another program puts a path back.  If the batch in flight had already written or removed
\* it, the writer can no longer tell that the batch is on disk.
PutBack(path) ==
    /\ pc \notin Ended
    /\ reverts < MaxReverts
    /\ reverts' = reverts + 1
    /\ meddled' = meddled \cup {path}
                     \cup (IF path \in written \cup removed THEN AtStake ELSE {})
    /\ disturbed' = (disturbed \/ pc \in Busy)
    /\ UNCHANGED <<batch, snap, written, removed, pc, sessionVars, retrying, failing,
                   worldVars, faults, landed>>

\* An older version of a file: a checkout, or an editor that saves its old buffer.
RevertFile(f, content) ==
    /\ content # disk[f]
    /\ disk' = [disk EXCEPT ![f] = content]
    /\ PutBack(f)
    /\ UNCHANGED dirs

\* A directory is made again, cleared or removed.
RevertDirectory(d, state) ==
    /\ state # dirs[d]
    /\ dirs' = [dirs EXCEPT ![d] = state]
    /\ PutBack(d)
    /\ UNCHANGED disk

-----------------------------------------------------------------------------
Session ==
    \/ Offer \/ Finish \/ Check \/ Write \/ Written \/ WriteFails \/ Keep \/ Reject
    \/ JudgmentFails \/ Restore \/ RestoreFails \/ Raise \/ Halve \/ Refuse

Environment ==
    \/ Die
    \/ \E f \in File, e \in Edit : EditFile(f, e)
    \/ \E d \in Dir : FillDirectory(d)
    \/ \E f \in File : \E content \in SUBSET disk[f] : RevertFile(f, content)
    \/ \E d \in Dir, state \in {"empty", "absent"} : RevertDirectory(d, state)

Next == Session \/ Environment

Spec == Init /\ [][Next]_vars

\* The session is one thread of control: it takes its next step while it has one.
FairSpec == Spec /\ WF_vars(Session)

-----------------------------------------------------------------------------
(* Properties.                                                             *)

AtRest == pc \in {"offer", "done"}

\* At rest, and so whenever run returns, every file carries exactly the kept fixes
\* that rewrite it, and a directory is gone only if a kept fix removed it: whatever
\* happened to the batches in between, no half-applied, half-restored or unverified
\* plan is left behind.  Two kinds of path are excepted: one that another program put
\* back itself, and those of a batch of which another program put back a path while it
\* was on disk.  The rollback of such a batch is refused, retain retries its first plan,
\* and if that one's own files are the original ones again, it is kept and the rest of
\* the batch stays on disk, neither verified nor listed.
RestIsVerified ==
    AtRest =>
        /\ \A f \in File \ meddled : disk[f] \cap Fix = {x \in kept : f \in Writes[x]}
        /\ \A d \in Dir \ meddled : dirs[d] = "absent" => \E x \in kept : d \in Prunes[x]

\* A session that ends in an exception also leaves only verified fixes, unless a
\* rollback itself met an OS error or another program touched the batch in flight:
\* one failing write, or a judgment that raises, is always undone in full.
OneFailureIsUndone ==
    (pc = "raised" /\ ~disturbed) => RolledBack

\* The session overwrites an edit of another program only when it landed while the writer was
\* between its staleness check and its last replacement; an edit that lands before the
\* check or during the verification makes the batch stale instead of being lost.
ForeignEditsSurvive ==
    [][\A f \in File, e \in Edit :
          (e \in disk[f] /\ e \notin disk'[f] /\ reverts' = reverts)
            => landed[e] \in {"writing", "undoing", "restoring"}]_vars

\* A kept batch closed the finding of each of its plans.  It holds when no finding of a
\* rule, repairable or not, has the message of one that a fix of the session repairs.
KeptClosesItsFinding ==
    [][\A x \in kept' \ kept : x \notin report']_vars

\* The session always ends, halving and retrying included.
Terminates == <>(pc \in Ended)

\* The session implements the abstract transaction, foreign edits and the paths other
\* programs put back left out of the tree.
Transaction == INSTANCE FixTransaction WITH
    tree <- [f \in File \ meddled |-> disk[f] \cap Fix],
    trial <- IF pc \in Busy THEN batch ELSE {},
    touched <- written \ meddled,
    mode <- IF AtRest THEN "rest" ELSE IF pc \in Busy THEN "open" ELSE "halted"

Transactional == Transaction!Spec

-----------------------------------------------------------------------------
(* The inductive invariant behind RestIsVerified, OneFailureIsUndone and   *)
(* Transactional, checked by TLC on small instances and proved in          *)
(* FixSessionProofs.                                                       *)

\* Phases in which the batch is on its way to or from the disk.
InFlight == {"writing", "undoing", "verifying", "restoring"}

Carried(S, f) == {x \in S : f \in Writes[x]}

\* A file that is not written carries the kept fixes, a written one the batch too.
TreeInv ==
    /\ \A f \in File \ (written \cup meddled) : disk[f] \cap Fix = Carried(kept, f)
    /\ pc \in Busy => \A f \in File \ meddled : snap[f] \cap Fix = Carried(kept, f)
    /\ pc \in InFlight =>
          /\ written \subseteq BatchFiles
          /\ removed \subseteq BatchDirs
          /\ \A f \in written \ meddled : disk[f] \cap Fix = Carried(kept \cup batch, f)
    /\ \A d \in Dir \ (removed \cup meddled) :
          dirs[d] = "absent" => \E x \in kept : d \in Prunes[x]
    /\ AtRest => RolledBack
    /\ pc = "verifying" => Applied

\* Another program may have put back a path of the batch while it was on disk.
Spoiled == AtStake \subseteq meddled

\* Every plan of a batch changes something, so a batch left on disk fails the checks of
\* apply_changes when retain tries its first plan again, unless it is spoiled.
Fresh(x) == Prunes[x] # {} \/ \E f \in Writes[x] : x \notin snap[f]

Stuck == \E x \in batch :
            \/ \E f \in Writes[x] : x \in disk[f] /\ x \notin snap[f]
            \/ \E d \in Prunes[x] : dirs[d] # "empty"

RetryInv ==
    /\ pc \in Busy => batch # {} /\ \A x \in batch : Fresh(x)
    /\ pc \in InFlight =>
          \/ Spoiled
          \/ /\ \A f \in written : Carried(batch, f) \subseteq disk[f]
             /\ \A d \in removed : dirs[d] # "empty"
    /\ pc = "check" =>
          \/ RolledBack
          \/ /\ retrying /\ disturbed
             /\ BatchFiles \subseteq written /\ BatchDirs \subseteq removed
             /\ Spoiled \/ Stuck

\* Until somebody interferes, what was written and removed is as the writer left it.
QuietInv ==
    ~disturbed =>
        /\ pc \in InFlight =>
              /\ \A f \in written : disk[f] = Revised(f)
              /\ \A d \in removed : dirs[d] = "absent"
        /\ pc = "raised" => RolledBack

IInv == TypeOK /\ TreeInv /\ RetryInv /\ QuietInv

\* While the writer replaces files, the foreign edits its staleness check has not seen
\* are those that landed since: the invariant behind ForeignEditsSurvive.
Replacing == {"writing", "undoing", "restoring"}

SeenInv ==
    pc \in Replacing =>
        \A f \in BatchFiles, e \in Edit :
            (e \in disk[f] /\ e \notin snap[f]) => landed[e] \in Replacing
=============================================================================
