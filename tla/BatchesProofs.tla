---------------------------- MODULE BatchesProofs ---------------------------
(***************************************************************************)
(* Theorems about Batches, for every set of batches and items and every    *)
(* bound.  The argument has two halves.  TypeOK is inductive; its one      *)
(* interesting step is that a port range is always left to reserve, a      *)
(* pigeonhole over the batches.  Then two lemmas, StatusMoves and          *)
(* PortMoves, say all a step can do to batches.status and to               *)
(* batches.port_base, and every theorem below follows from one of them.    *)
(***************************************************************************)
EXTENDS Batches, FiniteSetTheorems, TLAPS

-----------------------------------------------------------------------------
(***************************************************************************)
(* The helpers.                                                            *)
(***************************************************************************)

\* The lowest id of a set of ids exists: the intervals below its members are
\* well-founded under inclusion.
LEMMA LeastOfNaturals ==
    ASSUME NEW S, S \subseteq Nat, S # {}
    PROVE  Least(S) \in S /\ \A c \in S : Least(S) <= c
<1> DEFINE below == {0 .. c : c \in S}
<1>1. below \subseteq FiniteSubsetsOf(Nat)
  <2>1. \A c \in S : 0 .. c \in SUBSET Nat /\ IsFiniteSet(0 .. c)
    BY FS_Interval
  <2> QED
    BY <2>1 DEF FiniteSubsetsOf
<1>2. below # {}
    OBVIOUS
<1> HIDE DEF below
<1>3. PICK B \in below : \A C \in below : ~(<<C, B>> \in StrictSubsetOrdering(Nat))
    BY <1>1, <1>2, WFMin, FS_StrictSubsetOrderingWellFounded
<1> USE DEF below
<1>4. PICK b \in S : B = 0 .. b
    BY <1>3
<1>5. \A c \in S : b <= c
  <2>1. SUFFICES ASSUME NEW c \in S, c < b PROVE FALSE
    OBVIOUS
  <2>2. 0 .. c \subseteq 0 .. b /\ b \in 0 .. b /\ b \notin 0 .. c
    BY <2>1
  <2>3. <<0 .. c, 0 .. b>> \in StrictSubsetOrdering(Nat)
    BY <2>2 DEF StrictSubsetOrdering
  <2> QED
    BY <1>3, <1>4, <2>3
<1> QED
    BY <1>5 DEF Least

\* While a batch holds no range, the others cannot hold them all: reserve's
\* loop over base stays within as many ranges as there are batches.
LEMMA SlotLeft ==
    ASSUME NEW b \in Batch, port[b] = 0
    PROVE  Slot \ {port[c] : c \in Batch} # {}
<1>1. IsFiniteSet(Batch \ {b}) /\ Cardinality(Batch \ {b}) = Cardinality(Batch) - 1
    BY BatchesAssumption, FS_RemoveElement
<1>2. Cardinality(Batch) \in Nat
    BY BatchesAssumption, FS_CardinalityType
<1>3. IsFiniteSet(Slot) /\ Cardinality(Slot) = Cardinality(Batch)
    BY <1>2, FS_Interval DEF Slot
<1>4. SUFFICES ASSUME Slot \subseteq {port[c] : c \in Batch} PROVE FALSE
    OBVIOUS
<1> DEFINE holder == [s \in Slot |-> CHOOSE c \in Batch \ {b} : port[c] = s]
<1>5. \A s \in Slot : s # 0
    BY <1>2 DEF Slot
<1>6. \A s \in Slot : \E c \in Batch \ {b} : port[c] = s
    BY <1>4, <1>5
<1>7. \A s \in Slot : holder[s] \in Batch \ {b} /\ port[holder[s]] = s
    BY <1>6
<1>8. holder \in [Slot -> Batch \ {b}]
    BY <1>7
<1> HIDE DEF holder
<1>9. PICK x, y \in Slot : x # y /\ holder[x] = holder[y]
    BY <1>1, <1>2, <1>3, <1>8, FS_PigeonHole
<1> QED
    BY <1>7, <1>9

\* What environments.reserve returns: the range held, or one nobody holds.
LEMMA ReserveInSlot ==
    ASSUME TypeOK, NEW b \in Batch
    PROVE  /\ Reserve(b) \in Slot
           /\ port[b] # 0 => Reserve(b) = port[b]
           /\ port[b] = 0 => Reserve(b) \notin {port[c] : c \in Batch}
<1>1. CASE port[b] # 0
    BY <1>1 DEF TypeOK, Reserve
<1>2. CASE port[b] = 0
  <2> DEFINE free == Slot \ {port[c] : c \in Batch}
  <2>1. free \subseteq Nat /\ free # {}
    BY <1>2, SlotLeft DEF Slot
  <2> HIDE DEF free
  <2>2. Least(free) \in free
    BY <2>1, LeastOfNaturals
  <2> QED
    BY <1>2, <2>2 DEF Reserve, free
<1> QED
    BY <1>1, <1>2

-----------------------------------------------------------------------------
(***************************************************************************)
(* Type correctness, one lemma per group of actions.                       *)
(***************************************************************************)

\* The empty database is well typed.
LEMMA TypeInit == Init => TypeOK
    BY BatchesAssumption DEF Init, TypeOK, Statuses, NoSession

\* A session begins with nothing made.
LEMMA WokenTyped ==
    ASSUME TypeOK, NEW b \in Batch, NEW start \in BOOLEAN
    PROVE  Woken(b, start) \in [on : {{}} \cup {{c} : c \in Batch}, start : BOOLEAN,
                                made : 0 .. MaxCommit, stood : BOOLEAN]
    BY BatchesAssumption DEF Woken, Schedulable

\* A start is lifecycle.start up to some statement.
LEMMA StartedUpTo ==
    ASSUME NEW b \in Batch, BatchStart(b)
    PROVE  \E last \in 1 .. 3 : StartUpTo(b, last)
<1>1. (\E last \in 1 .. 2 : StartUpTo(b, last)) \/ StartUpTo(b, 3)
    BY DEF BatchStart
<1>2. 3 \in 1 .. 3 /\ 1 .. 2 \subseteq 1 .. 3
    OBVIOUS
<1> QED
    BY <1>1, <1>2

\* lifecycle.start, and the session it is followed by.
LEMMA TypeBatchStart ==
    ASSUME TypeOK, NEW b \in Batch, BatchStart(b)
    PROVE  TypeOK'
<1>1. Reserve(b) \in Slot
    BY ReserveInSlot
<1>2. /\ status' \in [Batch -> Statuses]
      /\ port' \in [Batch -> Slot \cup {0}]
      /\ tree' \in [Batch -> BOOLEAN]
  <2>1. PICK last \in 1 .. 3 : StartUpTo(b, last)
    BY StartedUpTo
  <2>2. status' \in [Batch -> Statuses]
    BY <2>1 DEF TypeOK, StartUpTo, Statuses
  <2>3. port' \in [Batch -> Slot \cup {0}]
    BY <1>1, <2>1 DEF TypeOK, StartUpTo
  <2>4. tree' = tree \/ tree' = [tree EXCEPT ![b] = TRUE]
    BY <2>1 DEF StartUpTo
  <2> QED
    BY <2>2, <2>3, <2>4 DEF TypeOK
<1>3. git' \in [Batch -> 0 .. MaxCommit]
  <2>1. git' = git \/ git' = [git EXCEPT ![b] = 1]
    BY DEF BatchStart
  <2>2. 1 \in 0 .. MaxCommit
    BY BatchesAssumption
  <2> QED
    BY <2>1, <2>2 DEF TypeOK
<1>4. session' \in [on : {{}} \cup {{c} : c \in Batch}, start : BOOLEAN,
                    made : 0 .. MaxCommit, stood : BOOLEAN]
  <2>1. session' = session \/ session' = Woken(b, TRUE)
    BY DEF BatchStart
  <2>2. Woken(b, TRUE) \in [on : {{}} \cup {{c} : c \in Batch}, start : BOOLEAN,
                            made : 0 .. MaxCommit, stood : BOOLEAN]
    BY WokenTyped
  <2>3. CASE session' = session
    BY <2>3 DEF TypeOK
  <2> QED
    BY <2>1, <2>2, <2>3
<1>5. UNCHANGED <<head, cleared, opened, collided, itemVars>>
    BY DEF BatchStart
<1> QED
    BY <1>2, <1>3, <1>4, <1>5 DEF TypeOK, itemVars

\* A later session of the Developer, and what a session leaves.
LEMMA TypeSession ==
    ASSUME TypeOK, NEW b \in Batch, DeveloperWakes(b) \/ Commits(b) \/ SessionEnds(b)
    PROVE  TypeOK'
<1>1. CASE DeveloperWakes(b)
    BY <1>1, WokenTyped DEF DeveloperWakes, TypeOK, itemVars
<1>2. CASE Commits(b)
  <2>1. git[b] + 1 \in 0 .. MaxCommit
    BY <1>2, BatchesAssumption DEF Commits, TypeOK
  <2>2. git' \in [Batch -> 0 .. MaxCommit] /\ git'[b] = git[b] + 1
    BY <1>2, <2>1 DEF Commits, TypeOK
  <2>3. session' = [session EXCEPT !.made = git[b] + 1]
    BY <1>2, <2>2 DEF Commits
  <2> QED
    BY <1>2, <2>1, <2>2, <2>3 DEF Commits, TypeOK, itemVars
<1>3. CASE SessionEnds(b)
  <2>1. head' \in [Batch -> 0 .. MaxCommit] /\ opened' \subseteq Batch
    BY <1>3 DEF SessionEnds, TypeOK
  <2>2. session' \in [on : {{}} \cup {{c} : c \in Batch}, start : BOOLEAN,
                     made : 0 .. MaxCommit, stood : BOOLEAN]
    BY <1>3, BatchesAssumption DEF SessionEnds, NoSession
  <2> QED
    BY <1>3, <2>1, <2>2 DEF SessionEnds, TypeOK, itemVars
<1> QED
    BY <1>1, <1>2, <1>3

\* lifecycle.merge, whole, cut short or in conflict.
LEMMA TypeMerge ==
    ASSUME TypeOK, NEW b \in Batch, Merge(b)
    PROVE  TypeOK'
<1>1. /\ status' \in [Batch -> Statuses]
      /\ port' \in [Batch -> Slot \cup {0}]
      /\ tree' \in [Batch -> BOOLEAN]
      /\ delivered' \in [Item -> 0 .. MaxVersion]
  <2>1. ItemOf[b] \in Item /\ version[ItemOf[b]] \in 0 .. MaxVersion
    BY BatchesAssumption DEF TypeOK
  <2>2. CASE \E last \in 1 .. 4 : MergeUpTo(b, last)
    BY <2>1, <2>2 DEF MergeUpTo, TypeOK, Statuses
  <2>3. CASE /\ status' \in {status, [status EXCEPT ![b] = "deferred"]}
             /\ UNCHANGED <<port, tree, delivered>>
    BY <2>3 DEF TypeOK, Statuses
  <2> QED
    BY <2>2, <2>3 DEF Merge
<1>2. git' \in [Batch -> 0 .. MaxCommit]
    BY BatchesAssumption DEF Merge, TypeOK
<1> QED
    BY <1>1, <1>2 DEF Merge, TypeOK

\* lifecycle.defer and lifecycle.abandon.
LEMMA TypeHandlers ==
    ASSUME TypeOK, NEW b \in Batch, Preempt(b) \/ Interrupt(b) \/ Cancel(b)
    PROVE  TypeOK'
<1>1. ItemOf[b] \in Item
    BY BatchesAssumption
<1> QED
    BY <1>1 DEF Preempt, Interrupt, Cancel, TypeOK, Statuses, itemVars

\* Grouping, the gates and a collision.
LEMMA TypeRoles ==
    ASSUME TypeOK, NEW b \in Batch, Group(b) \/ Gate(b) \/ Collide(b)
    PROVE  TypeOK'
<1>1. CASE Group(b)
  <2>1. ItemOf[b] \in Item
    BY BatchesAssumption
  <2> QED
    BY <1>1, <2>1 DEF Group, TypeOK, Statuses
<1>2. CASE Gate(b)
    BY <1>2, BatchesAssumption DEF Gate, TypeOK, itemVars
<1>3. CASE Collide(b)
    BY <1>3 DEF Collide, TypeOK, itemVars
<1> QED
    BY <1>1, <1>2, <1>3

\* boot.reconcile_worktrees.
LEMMA TypeBoot == TypeOK /\ Boot => TypeOK'
    BY DEF Boot, TypeOK, itemVars

\* What the Vision Keeper, the principal and the Engineer write of an item.
LEMMA TypeItems ==
    ASSUME TypeOK, NEW i \in Item,
           \/ Assert(i) \/ SetApproval(i) \/ Rule(i) \/ Slice(i)
           \/ \E p \in Priorities : Prioritize(i, p)
    PROVE  TypeOK'
<1>1. version[i] \in 1 .. MaxVersion /\ MaxVersion \in Nat
    BY BatchesAssumption DEF TypeOK
<1>2. CASE Assert(i)
    BY <1>1, <1>2 DEF Assert, TypeOK, batchVars
<1>3. CASE SetApproval(i)
    BY <1>1, <1>3 DEF SetApproval, TypeOK, batchVars
<1>4. CASE Rule(i)
    BY <1>1, <1>4 DEF Rule, TypeOK, batchVars
<1>5. CASE Slice(i)
    BY <1>5 DEF Slice, TypeOK, batchVars
<1>6. CASE \E p \in Priorities : Prioritize(i, p)
    BY <1>6 DEF Prioritize, TypeOK, batchVars
<1> QED
    BY <1>2, <1>3, <1>4, <1>5, <1>6

\* Every reachable state is well typed: in particular a batch holds one of as
\* many port ranges as there are batches.
THEOREM TypeCorrect == Spec => []TypeOK
<1>1. Init => TypeOK
    BY TypeInit
<1>2. TypeOK /\ [Next]_vars => TypeOK'
  <2> SUFFICES ASSUME TypeOK, [Next]_vars PROVE TypeOK'
    OBVIOUS
  <2>1. CASE UNCHANGED vars
    BY <2>1 DEF TypeOK, vars, batchVars, itemVars
  <2>2. CASE Next
    BY <2>2, TypeBatchStart, TypeSession, TypeMerge, TypeHandlers,
       TypeRoles, TypeBoot, TypeItems DEF Next
  <2> QED
    BY <2>1, <2>2
<1> QED
    BY <1>1, <1>2, PTL DEF Spec

-----------------------------------------------------------------------------
(***************************************************************************)
(* All that a step can do to batches.status.                               *)
(***************************************************************************)

\* Only an idle Developer is given a batch, an approved one.
Takes(b) ==
    /\ Running = {} /\ status[b] \in Waiting /\ Schedulable(ItemOf[b])
    /\ status' = [status EXCEPT ![b] = "running"]

Groups(b) ==
    /\ status[b] = "none"
    /\ \A c \in Batch : ItemOf[c] = ItemOf[b] => status[c] \notin Open
    /\ status' = [status EXCEPT ![b] = "pending"]

Defers(b) ==
    /\ status[b] = "running"
    /\ status' = [status EXCEPT ![b] = "deferred"]

Delivers(b) ==
    /\ status[b] = "running" /\ Schedulable(ItemOf[b])
    /\ status' = [status EXCEPT ![b] = "merged"]

Drops(b) ==
    /\ status[b] \in Open /\ ~Schedulable(ItemOf[b])
    /\ status' = [status EXCEPT ![b] = "abandoned"]

Moves(b) == Takes(b) \/ Groups(b) \/ Defers(b) \/ Delivers(b) \/ Drops(b)

\* A start takes a waiting batch up, or finds the running one running.
LEMMA BatchStartMoves ==
    ASSUME TypeOK, NEW b \in Batch, BatchStart(b)
    PROVE  status' = status \/ Takes(b)
<1>1. status' = [status EXCEPT ![b] = "running"]
    BY DEF BatchStart, StartUpTo
<1>2. CASE Running = {}
  <2>1. b \in Candidates
    BY <1>2 DEF BatchStart, StartWakes, Unfiltered
  <2> QED
    BY <1>1, <1>2, <2>1 DEF Takes, Candidates
<1>3. CASE Running # {}
  <2>1. b \in Running
    BY <1>3 DEF BatchStart, StartWakes, Unfiltered
  <2> QED
    BY <1>1, <2>1 DEF Running, TypeOK
<1> QED
    BY <1>2, <1>3

\* A merge delivers or defers, and what it delivers is approved: the batch is
\* uncollided, so a missing approval would have been a cancellation, first.
LEMMA MergeMoves ==
    ASSUME TypeOK, NEW b \in Batch, Merge(b)
    PROVE  status' = status \/ Delivers(b) \/ Defers(b)
<1> USE DEF Merge, MergeTurn
<1>1. status[b] = "running" /\ b \notin collided /\ CancelWakes = {}
  <2>1. MergeWakes \subseteq Nat
    BY BatchesAssumption DEF MergeWakes, Unfiltered, Running
  <2>2. b \in MergeWakes
    BY <2>1, LeastOfNaturals
  <2> QED
    BY <2>2 DEF MergeWakes, Unfiltered, Running
<1>2. Schedulable(ItemOf[b])
    BY <1>1 DEF CancelWakes, Unfiltered, Open
<1> QED
    BY <1>1, <1>2 DEF MergeUpTo, Delivers, Defers

\* A step leaves every status alone, or makes one of the five moves, and then no
\* version or approval changes.
LEMMA StatusMoves ==
    ASSUME TypeOK, [Next]_vars
    PROVE  \/ status' = status
           \/ UNCHANGED <<version, approvedAt>> /\ \E b \in Batch : Moves(b)
<1>1. CASE UNCHANGED vars
    BY <1>1 DEF vars, batchVars
<1>2. ASSUME NEW b \in Batch, BatchStart(b)
      PROVE  status' = status \/ (UNCHANGED <<version, approvedAt>> /\ Moves(b))
    BY <1>2, BatchStartMoves DEF BatchStart, itemVars, Moves
<1>3. ASSUME NEW b \in Batch,
             \/ DeveloperWakes(b) \/ Commits(b) \/ SessionEnds(b)
             \/ Gate(b) \/ Collide(b)
      PROVE  status' = status
    BY <1>3 DEF DeveloperWakes, Commits, SessionEnds, Gate, Collide
<1>4. ASSUME NEW b \in Batch, Preempt(b) \/ Interrupt(b)
      PROVE  UNCHANGED <<version, approvedAt>> /\ Moves(b)
    BY <1>4 DEF Interrupt, Preempt, PreemptTurn, PreemptWakes, Unfiltered, Running, Defers, Moves, itemVars
<1>5. ASSUME NEW b \in Batch, Cancel(b)
      PROVE  UNCHANGED <<version, approvedAt>> /\ Moves(b)
  <2>1. CancelWakes \subseteq Nat
    BY BatchesAssumption DEF CancelWakes, Unfiltered
  <2>2. b \in CancelWakes
    BY <1>5, <2>1, LeastOfNaturals DEF Cancel, CancelTurn
  <2> QED
    BY <1>5, <2>2 DEF Cancel, CancelWakes, Unfiltered, Drops, Moves
<1>6. ASSUME NEW b \in Batch, Merge(b)
      PROVE  status' = status \/ (UNCHANGED <<version, approvedAt>> /\ Moves(b))
    BY <1>6, MergeMoves DEF Merge, Moves
<1>7. ASSUME NEW b \in Batch, Group(b)
      PROVE  UNCHANGED <<version, approvedAt>> /\ Moves(b)
    BY <1>7 DEF Group, Groups, Moves
<1>8. CASE Boot
    BY <1>8 DEF Boot
<1>9. ASSUME NEW i \in Item,
             \/ Assert(i) \/ SetApproval(i) \/ Rule(i) \/ Slice(i)
             \/ \E p \in Priorities : Prioritize(i, p)
      PROVE  status' = status
    BY <1>9 DEF Assert, SetApproval, Rule, Slice, Prioritize, batchVars
<1> QED
    BY <1>1, <1>2, <1>3, <1>4, <1>5, <1>6, <1>7, <1>8, <1>9 DEF Next

-----------------------------------------------------------------------------
(***************************************************************************)
(* The safety properties of the line.                                      *)
(***************************************************************************)

\* At most one batch is ever running, whatever is killed, deferred or restarted.
THEOREM DeveloperIsSingle == Spec => []OneRunning
<1>1. Init => OneRunning
    BY DEF Init, OneRunning
<1>2. TypeOK /\ OneRunning /\ [Next]_vars => OneRunning'
  <2> SUFFICES ASSUME TypeOK, OneRunning, [Next]_vars PROVE OneRunning'
    OBVIOUS
  <2>1. CASE status' = status
    BY <2>1 DEF OneRunning
  <2>2. ASSUME NEW b \in Batch, Takes(b) PROVE OneRunning'
    BY <2>2 DEF Takes, Running, OneRunning, TypeOK
  <2>3. ASSUME NEW b \in Batch, Groups(b) \/ Defers(b) \/ Delivers(b) \/ Drops(b)
        PROVE  OneRunning'
    BY <2>3 DEF Groups, Defers, Delivers, Drops, OneRunning, TypeOK
  <2> QED
    BY <2>1, <2>2, <2>3, StatusMoves DEF Moves
<1> QED
    BY <1>1, <1>2, TypeCorrect, PTL DEF Spec

\* An item never has two open batches.
THEOREM OneBatchPerItem == Spec => []OneOpenBatch
<1>1. Init => OneOpenBatch
    BY DEF Init, OneOpenBatch, Open
<1>2. TypeOK /\ OneOpenBatch /\ [Next]_vars => OneOpenBatch'
  <2> SUFFICES ASSUME TypeOK, OneOpenBatch, [Next]_vars PROVE OneOpenBatch'
    OBVIOUS
  <2>1. CASE status' = status
    BY <2>1 DEF OneOpenBatch
  <2>2. ASSUME NEW b \in Batch, Groups(b) PROVE OneOpenBatch'
    BY <2>2 DEF Groups, OneOpenBatch, Open, TypeOK
  <2>3. ASSUME NEW b \in Batch, Takes(b) \/ Defers(b) \/ Delivers(b) \/ Drops(b)
        PROVE  OneOpenBatch'
    <3>1. status[b] \in Open
      BY <2>3 DEF Takes, Defers, Delivers, Drops, Open, Waiting
    <3>2. \A c \in Batch \ {b} : status'[c] = status[c]
      BY <2>3 DEF Takes, Defers, Delivers, Drops, TypeOK
    <3> QED
      BY <3>1, <3>2 DEF OneOpenBatch
  <2> QED
    BY <2>1, <2>2, <2>3, StatusMoves DEF Moves
<1> QED
    BY <1>1, <1>2, TypeCorrect, PTL DEF Spec

\* No step brings a merged or an abandoned batch back.
LEMMA EndsStay ==
    ASSUME TypeOK, [Next]_vars, NEW b \in Batch, status[b] \in {"merged", "abandoned"}
    PROVE  status'[b] = status[b]
<1>1. ASSUME NEW c \in Batch, Moves(c) PROVE status'[b] = status[b]
    BY <1>1 DEF Moves, Takes, Groups, Defers, Delivers, Drops, Open, Waiting, TypeOK
<1> QED
    BY <1>1, StatusMoves

\* Nothing brings a merged or an abandoned batch back.
THEOREM EndsAreFinal == Spec => EndIsFinal
<1> DEFINE Final == \A b \in Batch : status[b] \in {"merged", "abandoned"}
                        => status'[b] = status[b]
<1>1. TypeOK /\ [Next]_vars => Final
    BY EndsStay
<1> QED
    BY <1>1, TypeCorrect, PTL DEF Spec, EndIsFinal

\* What merges is approved at its current version, in that very state.
THEOREM MergesAreApproved == Spec => MergesApproved
<1> DEFINE Licensed == \A b \in Batch : status[b] # "merged" /\ status'[b] = "merged"
                          => Schedulable(ItemOf[b])
<1>1. TypeOK /\ [Next]_vars => Licensed
  <2> SUFFICES ASSUME TypeOK, [Next]_vars PROVE Licensed
    OBVIOUS
  <2>1. ASSUME NEW b \in Batch, Moves(b) PROVE Licensed
    BY <2>1 DEF Moves, Takes, Groups, Defers, Delivers, Drops, TypeOK
  <2> QED
    BY <2>1, StatusMoves
<1> QED
    BY <1>1, TypeCorrect, PTL DEF Spec, MergesApproved

-----------------------------------------------------------------------------
(***************************************************************************)
(* All that a step can do to batches.port_base.                            *)
(***************************************************************************)

\* An open batch without a range is given one.
Reserves(b) ==
    /\ port[b] = 0 /\ status[b] \in Open
    /\ port' = [port EXCEPT ![b] = Reserve(b)]

\* A range goes back only as its batch ends.
Releases(b) == port' = [port EXCEPT ![b] = 0] /\ status'[b] \in {"merged", "abandoned"}

\* A step leaves the ranges alone, reserves one or releases one.
LEMMA PortMoves ==
    ASSUME TypeOK, [Next]_vars
    PROVE  \/ port' = port
           \/ \E b \in Batch : Reserves(b) \/ Releases(b)
<1>1. ASSUME NEW b \in Batch, BatchStart(b)
      PROVE  port' = port \/ Reserves(b)
  <2>1. port' = port \/ port' = [port EXCEPT ![b] = Reserve(b)]
    BY <1>1 DEF BatchStart, StartUpTo
  <2>2. status[b] \in Open
    BY <1>1 DEF BatchStart, StartWakes, Unfiltered, Candidates, Running, Waiting, Open
  <2>3. port[b] # 0 => [port EXCEPT ![b] = Reserve(b)] = port
    BY ReserveInSlot DEF TypeOK
  <2> QED
    BY <2>1, <2>2, <2>3 DEF Reserves
<1>2. ASSUME NEW b \in Batch, Cancel(b)
      PROVE  port' = port \/ Releases(b)
    BY <1>2 DEF Cancel, Releases, TypeOK
<1>3. ASSUME NEW b \in Batch, Merge(b)
      PROVE  port' = port \/ Releases(b)
    BY <1>3 DEF Merge, MergeUpTo, Releases, TypeOK
<1>4. ASSUME NEW b \in Batch,
             \/ DeveloperWakes(b) \/ Commits(b) \/ SessionEnds(b)
             \/ Preempt(b) \/ Interrupt(b) \/ Group(b) \/ Gate(b) \/ Collide(b)
      PROVE  port' = port
    BY <1>4 DEF DeveloperWakes, Commits, SessionEnds, Preempt, Interrupt, Group, Gate, Collide
<1>5. ASSUME NEW i \in Item,
             \/ Assert(i) \/ SetApproval(i) \/ Rule(i) \/ Slice(i)
             \/ \E p \in Priorities : Prioritize(i, p)
      PROVE  port' = port
    BY <1>5 DEF Assert, SetApproval, Rule, Slice, Prioritize, batchVars
<1>6. CASE Boot \/ UNCHANGED vars
    BY <1>6 DEF Boot, vars, batchVars
<1> QED
    BY <1>1, <1>2, <1>3, <1>4, <1>5, <1>6 DEF Next

\* No two batches ever hold one port range.
THEOREM RangesAreDisjoint == Spec => []RangesDisjoint
<1>1. Init => RangesDisjoint
    BY DEF Init, RangesDisjoint
<1>2. TypeOK /\ RangesDisjoint /\ [Next]_vars => RangesDisjoint'
  <2> SUFFICES ASSUME TypeOK, RangesDisjoint, [Next]_vars PROVE RangesDisjoint'
    OBVIOUS
  <2>1. CASE port' = port
    BY <2>1 DEF RangesDisjoint
  <2>2. ASSUME NEW b \in Batch, Reserves(b) PROVE RangesDisjoint'
    <3>1. \A c \in Batch : Reserve(b) # port[c]
      BY <2>2, ReserveInSlot DEF Reserves
    <3> QED
      BY <2>2, <3>1 DEF Reserves, RangesDisjoint, TypeOK
  <2>3. ASSUME NEW b \in Batch, Releases(b) PROVE RangesDisjoint'
    BY <2>3 DEF Releases, RangesDisjoint, TypeOK
  <2> QED
    BY <2>1, <2>2, <2>3, PortMoves
<1> QED
    BY <1>1, <1>2, TypeCorrect, PTL DEF Spec

\* A range reserved is kept until its batch ends.
THEOREM RangesAreKept == Spec => RangeKept
<1> DEFINE Kept == \A b \in Batch : port[b] # 0 =>
                      port'[b] = port[b] \/ status'[b] \in {"merged", "abandoned"}
<1>1. TypeOK /\ [Next]_vars => Kept
  <2> SUFFICES ASSUME TypeOK, [Next]_vars PROVE Kept
    OBVIOUS
  <2>1. ASSUME NEW b \in Batch, Reserves(b) \/ Releases(b) PROVE Kept
    BY <2>1 DEF Reserves, Releases, TypeOK
  <2> QED
    BY <2>1, PortMoves
<1> QED
    BY <1>1, TypeCorrect, PTL DEF Spec, RangeKept

\* A session offered without the approval is on a batch that has ended: whatever is
\* open and unapproved is cancelled before any role is woken.
OnlyForTheEnded ==
    ~session.stood => \A b \in session.on : status[b] \in {"merged", "abandoned"}

\* A session that begins.
LEMMA WokenOnlyForTheEnded ==
    ASSUME TypeOK, NEW b \in Batch, NEW start \in BOOLEAN, RoleTurn,
           status[b] \in Open \cup {"abandoned"},
           session' = Woken(b, start), status' = status \/ status[b] \in Open
    PROVE  OnlyForTheEnded'
<1>1. status[b] \in Open => Schedulable(ItemOf[b]) \/ b \in collided
    BY DEF RoleTurn, CancelWakes, Unfiltered
<1> QED
    BY <1>1 DEF OnlyForTheEnded, Woken

\* Every step keeps it: an end is final.
LEMMA OnlyForTheEndedStep ==
    ASSUME TypeOK, OnlyForTheEnded, [Next]_vars
    PROVE  OnlyForTheEnded'
<1>1. ASSUME session'.on \subseteq session.on, session'.stood = session.stood
      PROVE  OnlyForTheEnded'
  <2>1. session.on \subseteq Batch
    BY DEF TypeOK
  <2> QED
    BY <1>1, <2>1, EndsStay DEF OnlyForTheEnded
<1>2. ASSUME NEW b \in Batch, BatchStart(b)
      PROVE  OnlyForTheEnded'
  <2>1. status[b] \in Open
    BY <1>2 DEF BatchStart, StartWakes, Unfiltered, Candidates, Running, Waiting, Open
  <2>2. CASE session' = session
    BY <1>1, <2>2
  <2>3. CASE session' = Woken(b, TRUE)
    BY <1>2, <2>1, <2>3, WokenOnlyForTheEnded DEF BatchStart
  <2> QED
    BY <1>2, <2>2, <2>3 DEF BatchStart
<1>3. ASSUME NEW b \in Batch, DeveloperWakes(b)
      PROVE  OnlyForTheEnded'
    BY <1>3, WokenOnlyForTheEnded DEF DeveloperWakes, Open
<1>4. ASSUME NEW b \in Batch, Commits(b)
      PROVE  OnlyForTheEnded'
  <2>1. session'.on = session.on /\ session'.stood = session.stood
    BY <1>4 DEF Commits, TypeOK
  <2> QED
    BY <1>1, <2>1
<1>5. ASSUME NEW b \in Batch, SessionEnds(b)
      PROVE  OnlyForTheEnded'
    BY <1>5 DEF SessionEnds, NoSession, OnlyForTheEnded
<1>6. ASSUME NEW b \in Batch,
             \/ Preempt(b) \/ Interrupt(b) \/ Cancel(b) \/ Merge(b)
             \/ Group(b) \/ Gate(b) \/ Collide(b)
      PROVE  OnlyForTheEnded'
    BY <1>1, <1>6 DEF Preempt, Interrupt, Cancel, Merge, Group, Gate, Collide
<1>7. ASSUME NEW i \in Item,
             \/ Assert(i) \/ SetApproval(i) \/ Rule(i) \/ Slice(i)
             \/ \E p \in Priorities : Prioritize(i, p)
      PROVE  OnlyForTheEnded'
    BY <1>1, <1>7 DEF Assert, SetApproval, Rule, Slice, Prioritize, batchVars
<1>8. CASE Boot \/ UNCHANGED vars
    BY <1>1, <1>8 DEF Boot, vars, batchVars
<1> QED
    BY <1>2, <1>3, <1>4, <1>5, <1>6, <1>7, <1>8 DEF Next

\* A commit lands in a running batch whose approval is gone only from a session the
\* frontier offered while it stood, unless a collided word hides its cancellation.
THEOREM RevocationStopsTheWork == Spec => WorkStopsAtRevocation
<1> DEFINE Stops == \A b \in Batch : status[b] = "running" /\ git'[b] # git[b]
                       => \/ Schedulable(ItemOf[b]) \/ b \in collided
                          \/ b \in session.on /\ session.stood
<1>1. Init => OnlyForTheEnded
    BY DEF Init, NoSession, OnlyForTheEnded
<1>2. TypeOK /\ OnlyForTheEnded /\ [Next]_vars => OnlyForTheEnded'
    BY OnlyForTheEndedStep
<1>3. TypeOK /\ OnlyForTheEnded /\ [Next]_vars => Stops
  <2> SUFFICES ASSUME TypeOK, OnlyForTheEnded, [Next]_vars,
                      NEW b \in Batch, status[b] = "running", git'[b] # git[b]
               PROVE  \/ Schedulable(ItemOf[b]) \/ b \in collided
                      \/ b \in session.on /\ session.stood
    OBVIOUS
  <2>1. CancelWakes = {} => Schedulable(ItemOf[b]) \/ b \in collided
    BY DEF CancelWakes, Unfiltered, Open
  <2>2. ASSUME NEW c \in Batch, BatchStart(c) \/ Merge(c)
        PROVE  CancelWakes = {}
    BY <2>2 DEF BatchStart, Merge, MergeTurn, RoleTurn
  <2>3. ASSUME NEW c \in Batch, Commits(c)
        PROVE  b \in session.on /\ session.stood
    <3>1. b = c
      BY <2>3 DEF Commits, TypeOK
    <3> QED
      BY <2>3, <3>1 DEF Commits, OnlyForTheEnded
  <2>4. ASSUME NEW c \in Batch,
               \/ DeveloperWakes(c) \/ SessionEnds(c) \/ Preempt(c) \/ Interrupt(c)
               \/ Cancel(c) \/ Group(c) \/ Gate(c) \/ Collide(c)
        PROVE  git' = git
    BY <2>4 DEF DeveloperWakes, SessionEnds, Preempt, Interrupt, Cancel, Group, Gate, Collide
  <2>5. ASSUME NEW i \in Item,
               \/ Assert(i) \/ SetApproval(i) \/ Rule(i) \/ Slice(i)
               \/ \E p \in Priorities : Prioritize(i, p)
        PROVE  git' = git
    BY <2>5 DEF Assert, SetApproval, Rule, Slice, Prioritize, batchVars
  <2>6. CASE Boot \/ UNCHANGED vars
    BY <2>6 DEF Boot, vars, batchVars
  <2> QED
    BY <2>1, <2>2, <2>3, <2>4, <2>5, <2>6 DEF Next
<1> QED
    BY <1>1, <1>2, <1>3, TypeCorrect, PTL DEF Spec, WorkStopsAtRevocation

-----------------------------------------------------------------------------
(***************************************************************************)
(* The scheduler implements WorkLine.                                      *)
(***************************************************************************)

\* The initial states map to initial states.
LEMMA LineInit == Init => Line!Init
    BY BatchesAssumption DEF Init, Line!Init, Running, Waiting

\* Each of the five moves is the action of WorkLine of its kind; every other
\* step can only change who is licensed.
LEMMA LineStep ==
    ASSUME TypeOK, TypeOK', [Next]_vars
    PROVE  [Line!Next]_(Line!vars)
<1> USE DEF Waiting, Running
<1>1. CASE status' = status
  <2>1. UNCHANGED <<{b \in Batch : status[b] \in Waiting}, Running,
                    {b \in Batch : status[b] = "merged"},
                    {b \in Batch : status[b] = "abandoned"}>>
    BY <1>1
  <2> QED
    BY <2>1 DEF Line!Next, Line!License
<1>2. ASSUME UNCHANGED <<version, approvedAt>>, NEW b \in Batch, Moves(b)
      PROVE  Line!Next
  <2>1. UNCHANGED {c \in Batch : Schedulable(ItemOf[c])}
    BY <1>2 DEF Schedulable
  <2>2. CASE Takes(b)
    BY <2>1, <2>2 DEF Takes, TypeOK, Line!Next, Line!Take
  <2>3. CASE Groups(b)
    BY <2>1, <2>3 DEF Groups, TypeOK, Line!Next, Line!Submit
  <2>4. CASE Defers(b)
    BY <2>1, <2>4 DEF Defers, TypeOK, Line!Next, Line!PutBack
  <2>5. CASE Delivers(b)
    BY <2>1, <2>5 DEF Delivers, TypeOK, Line!Next, Line!Finish
  <2>6. CASE Drops(b)
    BY <2>1, <2>6 DEF Drops, Open, TypeOK, Line!Next, Line!Drop
  <2> QED
    BY <1>2, <2>2, <2>3, <2>4, <2>5, <2>6 DEF Moves
<1> QED
    BY <1>1, <1>2, StatusMoves

\* One desk, only approved work on it and out of it, every end final: the
\* refinement mapping Line holds of every behaviour.
THEOREM SchedulerKeepsTheLine == Spec => KeepsTheLine
<1>1. TypeOK /\ TypeOK' /\ [Next]_vars => [Line!Next]_(Line!vars)
    BY LineStep
<1> QED
    BY LineInit, <1>1, TypeCorrect, PTL DEF Spec, KeepsTheLine, Line!Spec
=============================================================================
