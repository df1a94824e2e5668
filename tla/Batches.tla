------------------------------ MODULE Batches ------------------------------
(***************************************************************************)
(* The life of batches under the scheduler: src/rota/core/lifecycle.py,    *)
(* the scheduling half of src/rota/core/scheduler.py and predicates.py,    *)
(* and the dispatch order of src/rota/core/loop.py.                        *)
(*                                                                         *)
(* A step of the loop computes the frontier, performs the first scheduler  *)
(* action it finds (cancel, preempt, merge) and otherwise wakes one role,  *)
(* whose session commits in one transaction.  A session takes its time:    *)
(* meanwhile the principal rules at a console, another process interrupts, *)
(* and a second loop on the same database acts and wakes the other roles.  *)
(* The lifecycle handlers are not in a transaction: the connection is in   *)
(* autocommit, so each of their statements is durable on its own and a     *)
(* kill leaves a prefix of them.  Git is outside every transaction: a      *)
(* session's commits stay when its rows do not.                            *)
(*                                                                         *)
(* Batch ids are naturals, in the order SQLite's ORDER BY id gives them.   *)
(* Nothing under src/ writes batch_dep_facts, so that is also the order    *)
(* schedule_order returns.                                                 *)
(***************************************************************************)
EXTENDS Integers, FiniteSets

CONSTANTS
    Batch,        \* batch ids the Architect may use, each at most once
    Item,         \* the in-scope items of the problem
    ItemOf,       \* the item each batch delivers
    Priorities,   \* values problem.prioritize may set
    MaxVersion,   \* bound: amendments of an item
    MaxCommit     \* bound: commits on a batch's branch, its base included

ASSUME BatchesAssumption ==
    /\ Batch \subseteq Nat /\ IsFiniteSet(Batch)
    /\ ItemOf \in [Batch -> Item]
    /\ Priorities \subseteq Int /\ 0 \in Priorities
    /\ MaxVersion \in Nat \ {0}
    /\ MaxCommit \in Nat \ {0}

VARIABLES
    status,       \* batches.status; "none" before the row exists
    port,         \* batches.port_base as a slot number; 0 is NULL
    tree,         \* batches.worktree is recorded
    git,          \* commits on the batch's branch: 1 is the base, 0 no branch
    head,         \* batches.head_commit, as the commit's number; 0 is NULL
    cleared,      \* the head at which every gate before the merge is open
    opened,       \* batches with a committed developer tick:batch_start session
    collided,     \* batches with a criterion on a word with two live senses
    session,      \* the Developer's session: the batch it is on, if any, whether
                  \* tick:batch_start woke it, the last commit it made; history:
                  \* whether the work stood approved when it was woken
    version,      \* items.version
    approvedAt,   \* items.approval_ver while items.approval is 'approved', else 0
    priority,     \* items.priority
    tickets,      \* the item's tickets: "loose" while one is in no live batch
    delivered     \* config delivered:<item>; 0 is no row

batchVars == <<status, port, tree, git, head, cleared, opened, collided, session>>
itemVars  == <<version, approvedAt, priority, tickets, delivered>>
vars      == <<batchVars, itemVars>>

Statuses  == {"none", "pending", "running", "deferred", "merged", "abandoned"}
Open      == {"pending", "running", "deferred"}
Waiting   == {"pending", "deferred"}

NoSession == [on |-> {}, start |-> FALSE, made |-> 0, stood |-> TRUE]

\* As many port ranges as batches: FIRST_PORT + PORTS_PER_BATCH * (slot - 1).
Slot == 1 .. Cardinality(Batch)

Init ==
    /\ status = [b \in Batch |-> "none"]
    /\ port = [b \in Batch |-> 0]
    /\ tree = [b \in Batch |-> FALSE]
    /\ git = [b \in Batch |-> 0]
    /\ head = [b \in Batch |-> 0]
    /\ cleared = [b \in Batch |-> 0]
    /\ opened = {}
    /\ collided = {}
    /\ session = NoSession
    /\ version = [i \in Item |-> 1]
    /\ approvedAt = [i \in Item |-> 0]
    /\ priority = [i \in Item |-> 0]
    /\ tickets = [i \in Item |-> "none"]
    /\ delivered = [i \in Item |-> 0]

-----------------------------------------------------------------------------
(***************************************************************************)
(* The frontier.                                                           *)
(***************************************************************************)

Least(S) == CHOOSE b \in S : \A c \in S : b <= c

\* The revocation predicate: approved, and the approval is of this version.
Schedulable(i) == approvedAt[i] >= version[i]

Running    == {b \in Batch : status[b] = "running"}
Candidates == {b \in Batch : status[b] \in Waiting /\ Schedulable(ItemOf[b])}
Pri(b)     == priority[ItemOf[b]]

\* waiting_filter: a wake whose first ref is a collided batch is not offered.
Unfiltered(S) == S \ collided

\* predicates.cancel.
CancelWakes ==
    Unfiltered({b \in Batch : status[b] \in Open /\ ~Schedulable(ItemOf[b])})

\* predicates.preempt: the highest priority, then the lowest id.
Challenger ==
    Least({b \in Candidates : \A c \in Candidates : Pri(c) <= Pri(b)})

PreemptWakes ==
    Unfiltered({b \in Running : /\ b = Least(Running)
                                /\ Candidates # {}
                                /\ Pri(Challenger) > Pri(b)})

\* predicates.merge; `cleared` stands for the gates lifecycle.mergeable reads.
MergeWakes ==
    Unfiltered({b \in Running : head[b] # 0 /\ cleared[b] = head[b]})

\* (Faulty: a start is offered while another batch runs.)
StartWakesWhileRunning ==
    Unfiltered({b \in Candidates : b = Least(Candidates)})

\* tick_batch_start: a running batch is offered again only when a committed
\* session has already opened it and left nothing committed; with nothing
\* running, the candidates sorted by priority are sorted again by the schedule.
StartWakes ==
    LET stalled == {b \in Running : head[b] = 0 /\ b \in opened}
        offered == IF Running # {} THEN stalled ELSE Candidates
    IN  Unfiltered({b \in offered : b = Least(offered)})

\* (Faulty: the gate band sorted before the fix band.)
MergeTurnBeforeCancel(b) == MergeWakes # {} /\ b = Least(MergeWakes)

\* loop.step performs the scheduler's own wakes before it wakes a role, the
\* first one on the list: cancel, then preempt, then merge, each by id.
CancelTurn(b)  == CancelWakes # {} /\ b = Least(CancelWakes)
PreemptTurn(b) == CancelWakes = {} /\ b \in PreemptWakes
MergeTurn(b)   == /\ CancelWakes = {} /\ PreemptWakes = {}
                  /\ MergeWakes # {} /\ b = Least(MergeWakes)

\* (Faulty: a due cancellation does not hold the roles back.)
RoleTurnBesideCancel == PreemptWakes = {} /\ MergeWakes = {}

RoleTurn       == CancelWakes = {} /\ PreemptWakes = {} /\ MergeWakes = {}

-----------------------------------------------------------------------------
(***************************************************************************)
(* The lifecycle handlers.  `last` is the last statement that took effect: *)
(* short of the whole, the process was killed there.                       *)
(***************************************************************************)

\* (Faulty: only running batches are taken to hold a range.)
ReserveOverDeferred(b) ==
    IF port[b] # 0 THEN port[b]
    ELSE Least(Slot \ {port[c] : c \in Running})

\* environments.reserve: keep the range held, else the lowest that is free.
Reserve(b) ==
    IF port[b] # 0 THEN port[b]
    ELSE Least(Slot \ {port[c] : c \in Batch})

\* lifecycle.start: status, ports, worktree; the worktree is best effort, and
\* its branch, once made, is kept.
StartUpTo(b, last) ==
    /\ status' = [status EXCEPT ![b] = "running"]
    /\ port' = IF last >= 2 THEN [port EXCEPT ![b] = Reserve(b)] ELSE port
    /\ tree' \in {tree} \cup {[tree EXCEPT ![b] = TRUE] : made \in 3 .. last}

\* The Developer is woken on b.
Woken(b, start) ==
    [on |-> {b}, start |-> start, made |-> 0,
     stood |-> Schedulable(ItemOf[b]) \/ b \in collided]

\* loop.step on tick:batch_start, while nobody holds the Developer's claim:
\* lifecycle.start, then the session, which finds the branch at its base.
BatchStart(b) ==
    /\ RoleTurn /\ session.on = {} /\ b \in StartWakes
    /\ \/ \E last \in 1 .. 2 : StartUpTo(b, last) /\ UNCHANGED <<git, session>>
       \/ /\ StartUpTo(b, 3)
          /\ git' = IF tree'[b] /\ git[b] = 0 THEN [git EXCEPT ![b] = 1] ELSE git
          /\ session' = Woken(b, TRUE)
    /\ UNCHANGED <<head, cleared, opened, collided, itemVars>>

\* Any other wake of the Developer.  tests_failing and a message reach a batch
\* whose worktree still stands, whatever its status.
DeveloperWakes(b) ==
    /\ RoleTurn /\ session.on = {}
    /\ tree[b]
    /\ status[b] = "running" \/ (status[b] \in {"deferred", "abandoned"} /\ head[b] # 0)
    /\ session' = Woken(b, FALSE)
    /\ UNCHANGED <<status, port, tree, git, head, cleared, opened, collided, itemVars>>

\* code.commit: git has it at once, the row is the session's until it commits.
Commits(b) ==
    /\ b \in session.on /\ tree[b] /\ git[b] < MaxCommit
    /\ git' = [git EXCEPT ![b] = @ + 1]
    /\ session' = [session EXCEPT !.made = git'[b]]
    /\ UNCHANGED <<status, port, tree, head, cleared, opened, collided, itemVars>>

\* The session commits, or is lost with its rows.
SessionEnds(b) ==
    /\ b \in session.on /\ session' = NoSession
    /\ \E lost \in BOOLEAN :
          /\ head' = IF session.made = 0 \/ lost THEN head ELSE [head EXCEPT ![b] = session.made]
          /\ opened' = IF session.start /\ ~lost THEN opened \cup {b} ELSE opened
    /\ UNCHANGED <<status, port, tree, git, cleared, collided, itemVars>>

\* boot.reconcile_worktrees, when a driver boots: the database follows git.
Boot ==
    /\ head' = [b \in Batch |-> IF tree[b] /\ status[b] \in {"running", "deferred"}
                                THEN git[b] ELSE head[b]]
    /\ UNCHANGED <<status, port, tree, git, cleared, opened, collided, session, itemVars>>

\* do:preempt, lifecycle.defer: the range and the worktree stay.
Preempt(b) ==
    /\ PreemptTurn(b)
    /\ status' = [status EXCEPT ![b] = "deferred"]
    /\ UNCHANGED <<port, tree, git, head, cleared, opened, collided, session, itemVars>>

\* cmd_interrupt: another process defers what runs, whatever the loop is at.
Interrupt(b) ==
    /\ status[b] = "running" /\ b = Least(Running)
    /\ status' = [status EXCEPT ![b] = "deferred"]
    /\ UNCHANGED <<port, tree, git, head, cleared, opened, collided, session, itemVars>>

\* do:cancel, lifecycle.abandon: the worktree stays, the range goes.  The
\* tickets no longer belong to a batch (predicates.grouping).
Cancel(b) ==
    /\ CancelTurn(b)
    /\ status' = [status EXCEPT ![b] = "abandoned"]
    /\ tickets' = [tickets EXCEPT ![ItemOf[b]] = "loose"]
    /\ port' \in {port, [port EXCEPT ![b] = 0]}
    /\ UNCHANGED <<tree, git, head, cleared, opened, collided, session>>
    /\ UNCHANGED <<version, approvedAt, priority, delivered>>

\* lifecycle.merge, a clean integration or none to make: status, the delivered
\* version, ports, worktree.
MergeUpTo(b, last) ==
    /\ status' = [status EXCEPT ![b] = "merged"]
    /\ delivered' = IF last >= 2
                    THEN [delivered EXCEPT ![ItemOf[b]] = version[ItemOf[b]]]
                    ELSE delivered
    /\ port' = IF last >= 3 THEN [port EXCEPT ![b] = 0] ELSE port
    /\ tree' = IF last >= 4 THEN [tree EXCEPT ![b] = FALSE] ELSE tree

\* do:merge.  The tests are committed on the branch first.  A conflict defers
\* the batch and raises out of the loop; a kill may come before any of this.
Merge(b) ==
    /\ MergeTurn(b)
    /\ \/ \E last \in 1 .. 4 : MergeUpTo(b, last)
       \/ /\ status' \in {status, [status EXCEPT ![b] = "deferred"]}
          /\ UNCHANGED <<port, tree, delivered>>
    /\ \E top \in git[b] .. git[b] + 1 :
          /\ top > git[b] => tree[b] /\ top <= MaxCommit
          /\ git' = [git EXCEPT ![b] = top]
    /\ UNCHANGED <<head, cleared, opened, collided, session>>
    /\ UNCHANGED <<version, approvedAt, priority, tickets>>

-----------------------------------------------------------------------------
(***************************************************************************)
(* What the other roles' sessions and the principal write.  The frontier   *)
(* that woke a session may be long past when it commits, so no turn of the *)
(* loop's is asked for.                                                    *)
(***************************************************************************)

\* problem.assert amends: the version moves and the approval goes.  A
\* set_approval staged after it in one session read the version before it.
Assert(i) ==
    /\ version[i] < MaxVersion
    /\ version' = [version EXCEPT ![i] = @ + 1]
    /\ \E at \in {0, version[i]} : approvedAt' = [approvedAt EXCEPT ![i] = at]
    /\ UNCHANGED <<batchVars, priority, tickets, delivered>>

\* (Faulty: stamped with the version the commit is taken to bump to.)
SetApprovalAhead(i) ==
    /\ \E at \in {0, version[i] + 1} : approvedAt' = [approvedAt EXCEPT ![i] = at]
    /\ UNCHANGED <<batchVars, version, priority, tickets, delivered>>

\* problem.set_approval, stamped with the version the session reads.
SetApproval(i) ==
    /\ \E at \in {0, version[i]} : approvedAt' = [approvedAt EXCEPT ![i] = at]
    /\ UNCHANGED <<batchVars, version, priority, tickets, delivered>>

\* principal.land: the ruling lands at the keypress, at any moment (cmd_sign is a
\* process of its own), and only where it changes the approval.
Rule(i) ==
    /\ approvedAt' = [approvedAt EXCEPT ![i] = IF @ = 0 THEN version[i] ELSE 0]
    /\ UNCHANGED <<batchVars, version, priority, tickets, delivered>>

\* problem.prioritize: no amendment, no revocation.
Prioritize(i, p) ==
    /\ p # priority[i]
    /\ priority' = [priority EXCEPT ![i] = p]
    /\ UNCHANGED <<batchVars, version, approvedAt, tickets, delivered>>

\* tick_slicing and tickets.slice: an item with no ticket, or one amended and
\* approved again since its delivery with no batch still open.
Slice(i) ==
    /\ Schedulable(i)
    /\ \/ tickets[i] = "none"
       \/ /\ tickets[i] = "batched"
          /\ delivered[i] # 0 /\ version[i] > delivered[i]
          /\ \A b \in Batch : ItemOf[b] = i => status[b] \notin Open
    /\ tickets' = [tickets EXCEPT ![i] = "loose"]
    /\ UNCHANGED <<batchVars, version, approvedAt, priority, delivered>>

\* (Faulty: only the running twin is looked for.)
GroupBesideWaiting(b) ==
    /\ status[b] = "none" /\ tickets[ItemOf[b]] = "loose"
    /\ \A c \in Batch : ItemOf[c] = ItemOf[b] => status[c] # "running"
    /\ status' = [status EXCEPT ![b] = "pending"]
    /\ \E rest \in {"loose", "batched"} : tickets' = [tickets EXCEPT ![ItemOf[b]] = rest]
    /\ UNCHANGED <<port, tree, git, head, cleared, opened, collided, session>>
    /\ UNCHANGED <<version, approvedAt, priority, delivered>>

\* batches.group: a fresh id, no open batch of the same item, and all or some
\* of its loose tickets.
Group(b) ==
    /\ status[b] = "none" /\ tickets[ItemOf[b]] = "loose"
    /\ \A c \in Batch : ItemOf[c] = ItemOf[b] => status[c] \notin Open
    /\ status' = [status EXCEPT ![b] = "pending"]
    /\ \E rest \in {"loose", "batched"} : tickets' = [tickets EXCEPT ![ItemOf[b]] = rest]
    /\ UNCHANGED <<port, tree, git, head, cleared, opened, collided, session>>
    /\ UNCHANGED <<version, approvedAt, priority, delivered>>

\* The harness, the Critic and the Architect open the gates on the head, or a
\* re-encoded test closes them (module MergeGate).
Gate(b) ==
    /\ status[b] = "running" /\ head[b] # 0
    /\ cleared' = [cleared EXCEPT ![b] = IF @ = head[b] THEN 0 ELSE head[b]]
    /\ UNCHANGED <<status, port, tree, git, head, opened, collided, session, itemVars>>

\* A word of the batch's criteria gains a second live sense, or is ruled on.
Collide(b) ==
    /\ status[b] \in Open
    /\ collided' = IF b \in collided THEN collided \ {b} ELSE collided \cup {b}
    /\ UNCHANGED <<status, port, tree, git, head, cleared, opened, session, itemVars>>

Next ==
    \/ \E b \in Batch : \/ BatchStart(b) \/ DeveloperWakes(b) \/ Commits(b) \/ SessionEnds(b)
                       \/ Preempt(b) \/ Interrupt(b) \/ Cancel(b) \/ Merge(b)
                       \/ Group(b) \/ Gate(b) \/ Collide(b)
    \/ Boot
    \/ \E i \in Item : \/ Assert(i) \/ SetApproval(i) \/ Rule(i) \/ Slice(i)
                      \/ \E p \in Priorities : Prioritize(i, p)

Spec == Init /\ [][Next]_vars
-----------------------------------------------------------------------------
(***************************************************************************)
(* What has to hold.                                                       *)
(***************************************************************************)

\* Every column holds a value the schema and its writers allow.
TypeOK ==
    /\ status \in [Batch -> Statuses]
    /\ port \in [Batch -> Slot \cup {0}]
    /\ tree \in [Batch -> BOOLEAN]
    /\ git \in [Batch -> 0 .. MaxCommit]
    /\ head \in [Batch -> 0 .. MaxCommit]
    /\ cleared \in [Batch -> 0 .. MaxCommit]
    /\ opened \subseteq Batch
    /\ collided \subseteq Batch
    /\ session \in [on : {{}} \cup {{b} : b \in Batch}, start : BOOLEAN,
                   made : 0 .. MaxCommit, stood : BOOLEAN]
    /\ version \in [Item -> 1 .. MaxVersion]
    /\ approvedAt \in [Item -> 0 .. MaxVersion]
    /\ priority \in [Item -> Priorities]
    /\ tickets \in [Item -> {"none", "loose", "batched"}]
    /\ delivered \in [Item -> 0 .. MaxVersion]

\* The Developer is single-instance: at most one batch is running, through
\* preemption, conflict, restart and a kill in the middle of a start.
OneRunning == \A b, c \in Batch : b # c => ~(status[b] = "running" /\ status[c] = "running")

\* Two batches never hold the same port range, the deferred and the half-ended
\* ones included (environments.reserve).
RangesDisjoint == \A b, c \in Batch : b # c /\ port[b] # 0 => port[b] # port[c]

\* An item's open work is one batch, across revocation, regrouping and a second
\* delivery (batches.group).
OneOpenBatch ==
    \A b, c \in Batch : b # c /\ ItemOf[b] = ItemOf[c]
        => ~(status[b] \in Open /\ status[c] \in Open)

\* Resuming is continuing: a range once reserved is kept through every deferral
\* and every kill, until the batch ends (environments.release).
RangeKept ==
    [][\A b \in Batch : port[b] # 0 =>
          port'[b] = port[b] \/ status'[b] \in {"merged", "abandoned"}]_vars

\* An ended batch is out of the game: no later start, preemption, grouping or
\* re-approval brings it back (lifecycle.abandon, batches.group).
EndIsFinal ==
    [][\A b \in Batch : status[b] \in {"merged", "abandoned"}
          => status'[b] = status[b]]_vars

\* Law 9 at the end of the line: what merges is approved at its current version
\* at that moment, though lifecycle.mergeable never looks at the item.  It holds
\* only because the frontier offers the cancellation before the merge.
MergesApproved ==
    [][\A b \in Batch : status[b] # "merged" /\ status'[b] = "merged"
          => Schedulable(ItemOf[b])]_vars

\* Revocation stops the work: a commit lands in a running batch whose approval is
\* gone only from a session that the frontier offered while it stood, through any
\* deferral, regrouping and restart, unless a collided word hides the cancellation.
WorkStopsAtRevocation ==
    [][\A b \in Batch : status[b] = "running" /\ git'[b] # git[b]
          => \/ Schedulable(ItemOf[b]) \/ b \in collided
             \/ b \in session.on /\ session.stood]_vars

\* At once it does not: a ruling at a console, or a second loop, finds the session
\* at work, and code.commit does not ask.
WorkStopsAtOnce ==
    [][\A b \in Batch : status[b] = "running" /\ git'[b] # git[b]
          => Schedulable(ItemOf[b]) \/ b \in collided]_vars

\* The scheduler keeps the promise of WorkLine: one desk, only approved work on
\* it and out of it, every end final.
Line == INSTANCE WorkLine WITH
            queue    <- {b \in Batch : status[b] \in Waiting},
            desk     <- Running,
            done     <- {b \in Batch : status[b] = "merged"},
            gone     <- {b \in Batch : status[b] = "abandoned"},
            licensed <- {b \in Batch : Schedulable(ItemOf[b])}

KeepsTheLine == Line!Spec

-----------------------------------------------------------------------------
(***************************************************************************)
(* What the code says of itself and does not do.                           *)
(***************************************************************************)

\* scheduler.py:315: "The start is owed until a commit exists."  A running
\* batch with nothing committed would be offered to the Developer again; it is
\* not when the session lost was the first.
StartIsOwed ==
    \A b \in Running : head[b] = 0 /\ b \notin collided => b \in StartWakes

\* loop.py:295: after a preemption "the next `batch_start` pass offers the batch
\* that won the reorder".  So once only the scheduler and the Developer move,
\* an approved batch that outranks every other open one, with no word left to
\* rule on, is taken up.
Outranks(b) ==
    /\ b \in Candidates /\ collided = {}
    /\ \A c \in Batch \ {b} : status[c] \in Open => Pri(b) > Pri(c)

OnlyWork == \E b \in Batch : \/ BatchStart(b) \/ DeveloperWakes(b)
                             \/ Commits(b) \/ SessionEnds(b)
                             \/ Preempt(b) \/ Cancel(b) \/ Merge(b)

OutrankingRuns == <>[][OnlyWork]_vars => \A b \in Batch : []<>~Outranks(b)

\* The loop keeps stepping: a scheduler action that stays due is performed, and
\* a start that stays offered is dispatched, and a session ends.
FairSpec ==
    /\ Spec
    /\ \A b \in Batch : WF_vars(Cancel(b) \/ Preempt(b) \/ Merge(b))
    /\ \A b \in Batch : WF_vars(BatchStart(b)) /\ WF_vars(SessionEnds(b))
=============================================================================
