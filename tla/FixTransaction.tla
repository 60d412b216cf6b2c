-------------------------- MODULE FixTransaction ---------------------------
(***************************************************************************)
(* What docs/autofix.md promises of applying fixes, with no word of how:   *)
(* at rest the source carries exactly the fixes that were kept, each in    *)
(* every file it rewrites.  A transaction is open while some trial set of  *)
(* fixes is being written, judged or taken back; each file then carries    *)
(* the kept fixes or the kept and the tried ones.  The transaction closes  *)
(* by keeping the whole trial or by leaving nothing of it.  A transaction  *)
(* that neither commits nor aborts halts, and the source stays as it is.   *)
(*                                                                         *)
(* The transaction answers for the files of its tree.  A file that another *)
(* program puts back leaves the tree, and with it every file of the open   *)
(* transaction if it was one of those: nothing is promised of them.        *)
(***************************************************************************)
CONSTANTS Fix, File, Writes

VARIABLES tree,    \* the fixes each source file carries
          kept,    \* the fixes committed so far
          trial,   \* the fixes of the open transaction
          touched, \* the files that carry them already
          mode

vars == <<tree, kept, trial, touched, mode>>

\* A tree that carries the fixes S and nothing else.
Image(S) == [f \in DOMAIN tree |-> {x \in S : f \in Writes[x]}]

TypeOK ==
    /\ DOMAIN tree \subseteq File
    /\ \A f \in DOMAIN tree : tree[f] \subseteq Fix
    /\ kept \subseteq Fix
    /\ trial \subseteq Fix
    /\ touched \subseteq DOMAIN tree
    /\ mode \in {"rest", "open", "halted"}

Init ==
    /\ tree = [f \in File |-> {}]
    /\ kept = {}
    /\ trial = {}
    /\ touched = {}
    /\ mode = "rest"

Begin(b) ==
    /\ mode = "rest"
    /\ trial' = b
    /\ mode' = "open"
    /\ UNCHANGED <<tree, kept, touched>>

\* A smaller trial replaces the one that failed.
Narrow(b) ==
    /\ mode = "open"
    /\ trial' = b
    /\ UNCHANGED <<tree, kept, touched, mode>>

Swap(f) ==
    /\ mode = "open"
    /\ f \in DOMAIN tree
    /\ tree' = [tree EXCEPT ![f] = Image(kept \cup trial)[f]]
    /\ touched' = touched \cup {f}
    /\ UNCHANGED <<kept, trial, mode>>

Undo(f) ==
    /\ mode = "open"
    /\ f \in DOMAIN tree
    /\ tree' = [tree EXCEPT ![f] = Image(kept)[f]]
    /\ touched' = touched \ {f}
    /\ UNCHANGED <<kept, trial, mode>>

Commit ==
    /\ mode = "open"
    /\ tree = Image(kept \cup trial)
    /\ kept' = kept \cup trial
    /\ trial' = {}
    /\ touched' = {}
    /\ mode' = "rest"
    /\ UNCHANGED tree

Abort ==
    /\ mode = "open"
    /\ tree = Image(kept)
    /\ touched = {}
    /\ trial' = {}
    /\ mode' = "rest"
    /\ UNCHANGED <<tree, kept, touched>>

Halt ==
    /\ mode # "halted"
    /\ mode' = "halted"
    /\ trial' = {}
    /\ UNCHANGED <<tree, kept, touched>>

Lose(files) ==
    /\ tree' = [f \in DOMAIN tree \ files |-> tree[f]]
    /\ touched' = touched \ files
    /\ UNCHANGED <<kept, trial, mode>>

\* Another program puts a file back, or one of those the open transaction has touched.
Meddle ==
    \/ \E f \in File : Lose({f})
    \/ mode = "open" /\ Lose(touched \cup UNION {Writes[x] : x \in trial})

Next ==
    \/ \E b \in SUBSET Fix : Begin(b) \/ Narrow(b)
    \/ \E f \in File : Swap(f) \/ Undo(f)
    \/ Commit \/ Abort \/ Halt \/ Meddle

Spec == Init /\ [][Next]_vars
=============================================================================
