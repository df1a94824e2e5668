---------------------------- MODULE MCMergeGate ----------------------------
(***************************************************************************)
(* One batch for TLC: two files, the one that may be bound and the other,  *)
(* one criterion to encode and one test of the repository's own.           *)
(***************************************************************************)
EXTENDS MergeGate

CONSTANTS app, util, ours, theirs

\* Each file is the only one under its path.
Files == {app, util}
Alone == [p \in Files |-> {p}]

\* One constraint, bound to a file.
Register == {[zero |-> FALSE, global |-> FALSE, bound |-> {util}]}
=============================================================================
