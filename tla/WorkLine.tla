----------------------------- MODULE WorkLine ------------------------------
(***************************************************************************)
(* What the scheduler promises about batches, without how: one desk, work  *)
(* taken to it and finished at it only while the principal's approval      *)
(* stands, put back at will, and ended once.                               *)
(***************************************************************************)
CONSTANT Batch

VARIABLES
    queue,      \* batches waiting for the desk, new or put back
    desk,       \* the batch being worked on, if any
    done,       \* delivered
    gone,       \* dropped
    licensed    \* batches whose item is approved as it now reads

vars == <<queue, desk, done, gone, licensed>>

Init == queue = {} /\ desk = {} /\ done = {} /\ gone = {} /\ licensed \subseteq Batch

Submit(b) ==
    /\ b \notin queue \cup desk \cup done \cup gone
    /\ queue' = queue \cup {b}
    /\ UNCHANGED <<desk, done, gone, licensed>>

Take(b) ==
    /\ desk = {} /\ b \in queue /\ b \in licensed
    /\ queue' = queue \ {b} /\ desk' = {b}
    /\ UNCHANGED <<done, gone, licensed>>

PutBack(b) ==
    /\ b \in desk
    /\ queue' = queue \cup {b} /\ desk' = desk \ {b}
    /\ UNCHANGED <<done, gone, licensed>>

Finish(b) ==
    /\ b \in desk /\ b \in licensed
    /\ desk' = desk \ {b} /\ done' = done \cup {b}
    /\ UNCHANGED <<queue, gone, licensed>>

\* Only unlicensed work is dropped.
Drop(b) ==
    /\ b \in queue \cup desk /\ b \notin licensed
    /\ queue' = queue \ {b} /\ desk' = desk \ {b} /\ gone' = gone \cup {b}
    /\ UNCHANGED <<done, licensed>>

License ==
    /\ licensed' \subseteq Batch
    /\ UNCHANGED <<queue, desk, done, gone>>

Next == License \/ \E b \in Batch : Submit(b) \/ Take(b) \/ PutBack(b) \/ Finish(b) \/ Drop(b)

Spec == Init /\ [][Next]_vars
=============================================================================
