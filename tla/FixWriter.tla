----------------------------- MODULE FixWriter -----------------------------
(***************************************************************************)
(* The atomic fix writer of presentation/fixes/application/writer.py: the  *)
(* files and directories of a repository, and the operations that put one  *)
(* batch of rendered fixes on disk and take it off again.  Each operation  *)
(* is one system call that either happens or raises; FixSession schedules  *)
(* them, and lets editors, OS errors and a kill fall between any two.      *)
(*                                                                         *)
(* The bytes of a file are abstracted to the set of edits they carry: the  *)
(* fixes written into it and the edits of other programs.  Two byte        *)
(* strings are equal exactly when they carry the same edits, which is all  *)
(* the staleness checks of the code ask about.                             *)
(***************************************************************************)
EXTENDS Naturals, FiniteSets

CONSTANTS Fix,      \* repairs of the requested safety, numbered in report order
          File,     \* source files
          Dir,      \* directories a fix may remove
          Edit,     \* edits other programs may make to files meanwhile
          Writes,   \* files one fix rewrites
          Prunes    \* directories one fix removes

ASSUME FixAssumption ==
    /\ Fix \subseteq Nat /\ IsFiniteSet(Fix)
    /\ Edit \cap Fix = {}
    /\ File \cap Dir = {}
    /\ Writes \in [Fix -> SUBSET File]
    /\ Prunes \in [Fix -> SUBSET Dir]

VARIABLES disk,     \* what each file carries
          dirs,     \* whether each directory is empty, filled or absent
          batch,    \* the fixes being applied together
          snap,     \* each file as the batch was rendered from it (RenderedFile.original)
          written,  \* files of the batch replaced on disk and not restored
          removed   \* directories of the batch removed on disk and not recreated

writerVars == <<disk, dirs, batch, snap, written, removed>>

DirState == {"empty", "filled", "absent"}

WriterTypeOK ==
    /\ disk \in [File -> SUBSET (Fix \cup Edit)]
    /\ dirs \in [Dir -> DirState]
    /\ batch \subseteq Fix
    /\ snap \in [File -> SUBSET (Fix \cup Edit)]
    /\ written \subseteq File
    /\ removed \subseteq Dir

WriterInit ==
    /\ disk = [f \in File |-> {}]
    /\ dirs = [d \in Dir |-> "empty"]
    /\ batch = {}
    /\ snap = disk
    /\ written = {}
    /\ removed = {}

-----------------------------------------------------------------------------
BatchFiles == UNION {Writes[x] : x \in batch}
BatchDirs == UNION {Prunes[x] : x \in batch}

\* RenderedFile.revised of a merged batch.
Revised(f) == snap[f] \cup {x \in batch : f \in Writes[x]}

\* The checks of apply_changes before it writes anything.
Appliable ==
    /\ \A f \in BatchFiles : disk[f] = snap[f]
    /\ \A d \in BatchDirs : dirs[d] = "empty"

\* Bug form: restore_changes puts the originals back without looking at the files.
RestorableUnchecked == \A d \in BatchDirs : dirs[d] = "absent"

\* The checks of restore_changes before it restores anything.
Restorable ==
    /\ \A f \in BatchFiles : disk[f] = Revised(f)
    /\ \A d \in BatchDirs : dirs[d] = "absent"

\* _write: one file goes through a temporary and os.replace, then counts as written.
WriteFile(f) ==
    /\ f \in BatchFiles \ written
    /\ disk' = [disk EXCEPT ![f] = Revised(f)]
    /\ written' = written \cup {f}
    /\ UNCHANGED <<dirs, batch, snap, removed>>

\* _remove_directories: rmdir, after every file is written.
RemoveDirectory(d) ==
    /\ written = BatchFiles
    /\ d \in BatchDirs \ removed
    /\ dirs[d] = "empty"
    /\ dirs' = [dirs EXCEPT ![d] = "absent"]
    /\ removed' = removed \cup {d}
    /\ UNCHANGED <<disk, batch, snap, written>>

\* rmdir of a directory that is gone or filled since _require_empty saw it raises OSError.
RemovalBlocked ==
    /\ written = BatchFiles
    /\ \E d \in BatchDirs \ removed : dirs[d] # "empty"

\* Both rollbacks recreate the directories first, then put the original bytes back.
RestoreDirectory(d) ==
    /\ d \in removed
    /\ dirs[d] = "absent"
    /\ dirs' = [dirs EXCEPT ![d] = "empty"]
    /\ removed' = removed \ {d}
    /\ UNCHANGED <<disk, batch, snap, written>>

RestoreFile(f) ==
    /\ removed = {}
    /\ f \in written
    /\ disk' = [disk EXCEPT ![f] = snap[f]]
    /\ written' = written \ {f}
    /\ UNCHANGED <<dirs, batch, snap, removed>>

\* mkdir of a directory somebody else recreated raises FileExistsError.
RestoreBlocked == \E d \in removed : dirs[d] # "absent"

\* Bug form: the restore loop stops one file early.
RolledBackButOne == Cardinality(written) <= 1 /\ removed = {}

\* What the batch in flight has touched or may touch.
AtStake == BatchFiles \cup written \cup BatchDirs \cup removed

Applied == written = BatchFiles /\ removed = BatchDirs
RolledBack == written = {} /\ removed = {}
=============================================================================
