---------------------------- MODULE MCWorkspace ----------------------------
(***************************************************************************)
(* A program of one file and a module the batch may add, for TLC: the      *)
(* criterion asks for one name, `run` is the program's own.                *)
(***************************************************************************)
EXTENDS Workspace, TLC

CONSTANTS prog, extra, built, test, run, asked, old, new

Defs(r, a) == (run :> r) @@ (asked :> a)
Plain(r, a, entry) ==
    [defs |-> Defs(r, a), guard |-> entry, reach |-> FALSE, uses |-> {}, faults |-> {}]

Program == Plain(old, NoDef, TRUE)
Asks    == Plain(NoDef, old, FALSE)
Made    == Plain(NoDef, NoDef, FALSE)
MCFirst == (prog :> Program) @@ (extra :> Gone) @@ (built :> Made) @@ (test :> Gone)

\* For the program: the change asked for, a rewrite of `run` with it, the change
\* alone, and the change with each fault the doors know.  For the module: the
\* change, one that reads stdin, and a reach nobody asked for.
MCDraft ==
    (prog  :> {Plain(old, new, TRUE), Plain(new, new, TRUE), Plain(NoDef, new, TRUE)}
              \cup {[Plain(old, new, TRUE) EXCEPT !.faults = {x}] : x \in Fault})
 @@ (extra :> {Plain(NoDef, new, FALSE), Asks, [Plain(NoDef, new, FALSE) EXCEPT !.reach = TRUE]})
 @@ (built :> {})

Calls == [Plain(NoDef, NoDef, FALSE) EXCEPT !.uses = {<<prog, asked>>}]
MCTestText == {Calls}
\* Either story: what the project had stays, or some of it goes, before any test is
\* written, with a commit to spare and no module added.
Stays   == slipped = {} /\ \A tree \in Branches \cup {Project} : tree[built] # Gone
MCStory == Stays \/ (claimed = {} /\ Len(log) < MaxCommit /\ wt[extra] = Gone)

MCUnanswerable == {<<Asks, Calls>>}
=============================================================================
