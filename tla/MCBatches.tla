----------------------------- MODULE MCBatches -----------------------------
(***************************************************************************)
(* Small teams for TLC.  Batch ids are naturals; an item has as many       *)
(* batches as it may be regrouped or delivered again.                      *)
(***************************************************************************)
EXTENDS Batches

CONSTANTS i1, i2

\* Either story: two items compete, one batch each, with no commit but the base and
\* no collision; or the first is delivered, cancelled and regrouped alone, with a
\* commit and a collision on its first batch.
MCTeamBatch  == 1 .. 3
MCTeamItemOf == [b \in MCTeamBatch |-> IF b = 2 THEN i2 ELSE i1]
MCStory ==
    \/ /\ status[3] = "none" /\ \A i \in Item : version[i] = 1
       /\ \A b \in Batch : git[b] <= 1
       /\ collided = {}
    \/ /\ version[i2] = 1 /\ approvedAt[i2] = 0 /\ tickets[i2] = "none"
       /\ \A i \in Item : priority[i] = 0
       /\ collided \subseteq {1} /\ git[3] <= 1
=============================================================================
