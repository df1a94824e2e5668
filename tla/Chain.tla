------------------------------- MODULE Chain -------------------------------
(***************************************************************************)
(* From an approved item to its delivery: the Vision Keeper slices it into *)
(* tickets, the Terminologist writes their criteria, the Architect groups  *)
(* them, the Developer commits, the Tester turns each criterion into a     *)
(* test or asks why it cannot, and the batch merges.  Every link is a      *)
(* predicate of src/rota/core/ that reads the rows of the link before it,  *)
(* and a door of src/rota/roles/api.py that refuses or stages a row.       *)
(*                                                                         *)
(* Modules Batches and MergeGate hold what a batch and its gates do in     *)
(* detail; here a verdict passes, and the merge loses nothing.  A session  *)
(* makes one call: the doors read staged rows like committed ones.         *)
(***************************************************************************)
EXTENDS Naturals, FiniteSets, Functions

CONSTANTS
    Item,         \* items of the problem statement
    Found,        \* those observed in the code, and the account of it
    Handle,       \* ticket ids a Vision Keeper invents
    Criterion,    \* criterion ids a Terminologist invents
    Test,         \* test ids a Tester invents
    Inherited,    \* tests the repository already had, named by their path
    Path,         \* paths a Tester gives its tests
    Clear,        \* sentences a test can be written from
    Vague,        \* sentences it cannot
    OfTests,      \* sentences about the tests themselves
    MaxBatch,     \* bound: batches
    MaxVersion,   \* bound: versions of an item
    MaxCommit,    \* bound: commits of a batch; the last one is green
    PerTicket,    \* criteria a ticket may have
    MaxSlice,     \* bound: tickets one session slices
    MaxSpare,     \* bound: calls beyond the ones the wakes need
    None

TicketId == Handle \cup (Handle \X Item)   \* <<id, item>> is f"{id}_{item}"
Batch    == 1 .. MaxBatch
Words    == Clear \cup Vague \cup OfTests
AnyTest  == Test \cup Inherited
AnyPath  == Path \cup Inherited

\* An invented id is never one that tickets.slice derives.
ASSUME ChainAssumption ==
    /\ IsFiniteSet(Item) /\ Found \subseteq Item
    /\ Handle \cap (TicketId \X Item) = {}
    /\ Clear \cap Vague = {} /\ (Clear \cup Vague) \cap OfTests = {}
    /\ Test \cap Inherited = {} /\ Path \cap Inherited = {}
    /\ {MaxBatch, MaxVersion, MaxCommit, PerTicket, MaxSlice} \subseteq Nat \ {0}
    /\ MaxSpare \in Nat
    /\ None \notin TicketId \cup Criterion \cup Words \cup Batch \cup Item

VARIABLES
    version,      \* items.version; 0 is no row
    approved,     \* approved, and the approval is of this version
    delivered,    \* config delivered:<item>; 0 is no row
    ticket,       \* per id its item and how often its words changed
    criterion,    \* per id its ticket and its words
    batch,        \* per id its status, its item and its tickets
    head,         \* batches.head_commit; 0 is NULL
    test,         \* per id its batch, its criterion and its path
    run,          \* per test its last run: batch, commit, passed
    judged,       \* the commit the Critic last passed
    question,     \* per criterion, the Tester's question about it
    spare         \* bound: extra calls left

itemVars  == <<version, approved, delivered>>
workVars  == <<ticket, criterion>>
batchVars == <<batch, head, judged>>
testVars  == <<test, run>>
vars      == <<itemVars, workVars, batchVars, testVars, question, spare>>

NoTicket    == [item |-> None, words |-> 0]
NoCriterion == [ticket |-> None, words |-> None]
NoBatch     == [status |-> "none", item |-> None, tickets |-> {}]
NoTest      == [batch |-> None, criterion |-> None, path |-> None]
NoRun       == [batch |-> None, at |-> 0, passed |-> FALSE]

\* The account of the code is written; nothing has been asked for yet.
Init ==
    /\ version = [i \in Item |-> IF i \in Found THEN 1 ELSE 0]
    /\ approved = [i \in Item |-> FALSE]
    /\ delivered = [i \in Item |-> 0]
    /\ ticket = [t \in TicketId |-> NoTicket]
    /\ criterion = [c \in Criterion |-> NoCriterion]
    /\ batch = [b \in Batch |-> NoBatch]
    /\ head = [b \in Batch |-> 0]
    /\ judged = [b \in Batch |-> 0]
    /\ test = [x \in AnyTest |-> NoTest]
    /\ run = [x \in AnyTest |-> NoRun]
    /\ question = [c \in Criterion |-> "none"]
    /\ spare = MaxSpare

-----------------------------------------------------------------------------
(***************************************************************************)
(* What the rows say.                                                      *)
(***************************************************************************)

\* The ids in use and one that is new: what is invented is alike to the code.
Usable(ids, used) ==
    used \cup {new \in ids \ used : new = CHOOSE x \in ids \ used : TRUE}

\* The one a wake names first; in which order is all alike.
First(S) == CHOOSE x \in S : TRUE

Tickets(i)   == {t \in TicketId : ticket[t].item = i}
Criteria(t)  == {c \in Criterion : criterion[c].ticket = t}
Written      == {c \in Criterion : criterion[c] # NoCriterion}
Filed        == {x \in AnyTest : test[x] # NoTest}
Grouped(S)   == {b \in Batch : batch[b].status \in S}
Open         == {"pending", "running"}
Running      == Grouped({"running"})
In(t, S)     == \E b \in Grouped(S) : t \in batch[b].tickets
Promised(b)  == UNION {Criteria(t) : t \in batch[b].tickets}
TestsOf(b)   == {x \in AnyTest : test[x].batch = b}
Tested(c)    == \E x \in AnyTest : test[x].criterion = c
AtHead(b)    == {x \in AnyTest : run[x].batch = b /\ run[x].at = head[b] /\ head[b] # 0}
Red(b)       == {x \in AtHead(b) : ~run[x].passed}

\* api._batch_of_criterion: the one batch the criterion's ticket is in.
BatchOfCriterion(c) ==
    LET of == {b \in Batch : criterion[c].ticket \in batch[b].tickets}
    IN  IF Cardinality(of) = 1 THEN CHOOSE b \in of : TRUE ELSE None

-----------------------------------------------------------------------------
(***************************************************************************)
(* The predicates.                                                         *)
(***************************************************************************)

\* scheduler.tick_slicing: no ticket yet, or amended since it was delivered
\* and approved again, with no batch of it open.
SlicingDue(i) ==
    /\ i \notin Found /\ approved[i]
    /\ \/ Tickets(i) = {}
       \/ /\ delivered[i] # 0 /\ version[i] > delivered[i]
          /\ \A t \in Tickets(i) : ~In(t, Open)

\* scheduler.tick_criteria, per item.
Undefined(i)   == {t \in Tickets(i) : Criteria(t) = {}}
CriteriaDue(i) == Undefined(i) # {}

\* predicates.grouping: tickets with criteria and no batch that still stands.
Owed == {t \in TicketId : Criteria(t) # {} /\ ~In(t, Open \cup {"merged"})}

\* predicates.tests_missing: no test, and no question about it on the way.
Missing(b) ==
    IF b \in Running /\ head[b] # 0
    THEN {c \in Promised(b) : ~Tested(c) /\ question[c] \notin {"open", "unresolved", "repaired"}}
    ELSE {}

\* The scheduler's own acts, which loop.step performs before it wakes a role.
CancelDue(b)  == b \in Grouped(Open) /\ ~approved[batch[b].item]
HarnessDue(b) == b \in Running /\ head[b] # 0 /\ TestsOf(b) \ AtHead(b) # {}

\* (Faulty: a green harness is enough.)
CoveredByAny(b) == TestsOf(b) # {}

\* Every criterion has its test: asked by predicates.review and by mergeable.
Covered(b) == \A c \in Promised(b) : Tested(c)

ReviewDue(b) ==
    /\ b \in Running /\ head[b] # 0 /\ judged[b] # head[b]
    /\ AtHead(b) # {} /\ Red(b) = {} /\ Covered(b)

\* lifecycle.mergeable, the findings and the strays left to MergeGate.
Mergeable(b) ==
    /\ b \in Running /\ head[b] # 0 /\ judged[b] = head[b]
    /\ TestsOf(b) # {} => Covered(b)
    /\ Red(b) = {}

MergeTurn(b) ==
    Mergeable(b) /\ ~HarnessDue(b) /\ \A c \in Batch : ~CancelDue(c)
RoleTurn ==
    \A b \in Batch : ~CancelDue(b) /\ ~HarnessDue(b) /\ ~Mergeable(b)

\* predicates.ORDER: the frontier is offered traffic, fix, gate, start.
TrafficDue == \E c \in Criterion : question[c] \in {"open", "answered"}
FixDue     == \/ \E c \in Criterion : question[c] \in {"unresolved", "repaired"}
              \/ \E b \in Running : Red(b) # {}
GateDue    == \E b \in Running : ReviewDue(b)
FixTurn    == RoleTurn /\ ~TrafficDue
GateTurn   == FixTurn /\ ~FixDue
StartTurn  == GateTurn /\ ~GateDue

-----------------------------------------------------------------------------
(***************************************************************************)
(* The principal and the Vision Keeper.                                    *)
(***************************************************************************)

\* A call the wake asked for is free; any other is one of the extra ones.
Pays(asked) == IF asked THEN spare' = spare ELSE spare > 0 /\ spare' = spare - 1

\* problem.assert, a new item or other words for one: the version moves, the
\* approval goes.  What was found is not reworded into something to build.
Assert(i) ==
    /\ RoleTurn /\ i \notin Found /\ version[i] < MaxVersion
    /\ version' = [version EXCEPT ![i] = @ + 1]
    /\ approved' = [approved EXCEPT ![i] = FALSE]
    /\ UNCHANGED <<delivered, workVars, batchVars, testVars, question, spare>>

\* principal.land: the ruling approves the version that was put.
Approve(i) ==
    /\ version[i] # 0 /\ ~approved[i]
    /\ approved' = [approved EXCEPT ![i] = TRUE]
    /\ UNCHANGED <<version, delivered, workVars, batchVars, testVars, question, spare>>

\* (Faulty: the id is taken as it is given.)
OwnIdAsGiven(id, i) == id

\* tickets.slice: an id that is another item's takes this item's name on.
OwnId(id, i) == IF ticket[id].item \in {None, i} THEN id ELSE <<id, i>>

\* tickets.slice: the ticket went out in a batch that is over.
Spent(t) == In(t, {"merged", "abandoned"})

\* tickets.slice, in a session woken for any item: one ticket of the item or
\* more, asked for when they are new, the item is due and nothing else of it
\* waits to be grouped.
Slice(ids, i) ==
    LET mine == {OwnId(id, i) : id \in ids}
    IN  /\ \E j \in Item : SlicingDue(j)
        /\ version[i] # 0 /\ i \notin Found
        /\ mine \subseteq TicketId /\ \A t \in mine : ~Spent(t)
        /\ Pays(/\ SlicingDue(i) /\ \A t \in mine : ticket[t] = NoTicket
                /\ \A u \in Tickets(i) : In(u, Open \cup {"merged", "abandoned"}))
        /\ ticket' = [t \in TicketId |->
                        IF t \in mine THEN [item |-> i, words |-> ticket[t].words + 1]
                        ELSE ticket[t]]
        /\ UNCHANGED <<itemVars, criterion, batchVars, testVars, question>>

-----------------------------------------------------------------------------
(***************************************************************************)
(* The Terminologist.                                                      *)
(***************************************************************************)

Twin(t, words) == \E c \in Criteria(t) : criterion[c].words = words

\* (Faulty: the id of another ticket's criterion is taken over.)
SpecifiableAnywhere(c, t, words) ==
    /\ words \notin OfTests /\ ~Twin(t, words)
    /\ criterion[c].ticket = t \/ Cardinality(Criteria(t)) < PerTicket

\* criteria.specify: an id is its ticket's once, the same words are the same
\* criterion, and a ticket has only so many.
Specifiable(c, t, words) ==
    /\ words \notin OfTests /\ ~Twin(t, words)
    /\ \/ criterion[c].ticket = t
       \/ criterion[c] = NoCriterion /\ Cardinality(Criteria(t)) < PerTicket

\* criteria.specify for a ticket of the item the session was woken for.
Specify(c, t, words) ==
    /\ ticket[t].item # None /\ CriteriaDue(ticket[t].item)
    /\ Specifiable(c, t, words)
    /\ Pays(t = First(Undefined(ticket[t].item)) /\ criterion[c] = NoCriterion)
    /\ criterion' = [criterion EXCEPT ![c] = [ticket |-> t, words |-> words]]
    /\ UNCHANGED <<itemVars, ticket, batchVars, testVars, question>>

\* criteria.respecify: other words, the ticket stays; a twin is not looked for.
Respecified(c, words) ==
    /\ words \notin OfTests /\ words # criterion[c].words
    /\ criterion' = [criterion EXCEPT ![c].words = words]

\* predicates.criterion_repair, once per question: the criterion asked about
\* is reworded, or another one, or none.
Repair(q) ==
    /\ question[q] = "unresolved"
    /\ question' = [question EXCEPT ![q] = "repaired"]
    /\ \/ \E c \in Written, words \in Words :
             Respecified(c, words) /\ Pays(c = q /\ words \in Clear)
       \/ UNCHANGED criterion /\ Pays(criterion[q].words \in Clear)
    /\ UNCHANGED <<itemVars, ticket, batchVars, testVars>>

-----------------------------------------------------------------------------
(***************************************************************************)
(* The Architect and the scheduler.                                        *)
(***************************************************************************)

HasOpenBatch(i) == \E b \in Grouped(Open) : batch[b].item = i

\* batches.group for one item, of tickets the wake named of which one is the
\* item's: the others may be another item's.
Groupable(i, ts) ==
    /\ \E t \in ts : ticket[t].item = i
    /\ ~HasOpenBatch(i)

\* The ids the new batches get, one per item grouped for, the lowest first.
NewBatches(items) ==
    LET free    == Grouped({"none"})
        rank(b) == Cardinality({c \in free : c <= b})
        named   == CHOOSE of \in Bijection(1 .. Cardinality(items), items) : TRUE
    IN  [b \in {c \in free : rank(c) <= Cardinality(items)} |-> named[rank(b)]]

\* One session on tick:grouping: for each item tickets, or none.
Group ==
    LET due == {ticket[t].item : t \in Owed}
    IN  \E ts \in [due -> SUBSET Owed] :
          LET items == {i \in due : ts[i] # {}}
              of    == NewBatches(items)
          IN  /\ items # {} /\ Cardinality(items) <= Cardinality(Grouped({"none"}))
              /\ \A i \in items : Groupable(i, ts[i])
              /\ Pays(\A i \in items : \A t \in ts[i] : ticket[t].item = i)
              /\ batch' = [b \in Batch |->
                    IF b \in DOMAIN of
                    THEN [status |-> "pending", item |-> of[b], tickets |-> ts[of[b]]]
                    ELSE batch[b]]
              /\ UNCHANGED <<itemVars, workVars, head, judged, testVars, question>>

\* harness.inherit: the repository's tests become tests of the batch, but for
\* the paths the Tester's own tests of it have.
Joined(b) ==
    [x \in AnyTest |->
        IF x \in Inherited /\ \A y \in TestsOf(b) : test[y].path # x
        THEN [batch |-> b, criterion |-> None, path |-> x] ELSE test[x]]

\* tick_batch_start and lifecycle.start.
Start(b) ==
    /\ Running = {}
    /\ batch[b].status = "pending" /\ approved[batch[b].item]
    /\ batch' = [batch EXCEPT ![b].status = "running"]
    /\ test' = Joined(b)
    /\ UNCHANGED <<itemVars, workVars, head, judged, run, question, spare>>

\* code.commit, on tick:batch_start or tick:tests_failing.
Develop(b) ==
    /\ b \in Running /\ head[b] < MaxCommit
    /\ head[b] = 0 \/ Red(b) # {}
    /\ head' = [head EXCEPT ![b] = @ + 1]
    /\ UNCHANGED <<itemVars, workVars, batch, judged, testVars, question, spare>>

\* do:harness: every test of the batch at its head.
Harness(b) ==
    /\ HarnessDue(b) /\ \A c \in Batch : ~CancelDue(c)
    /\ \E green \in SUBSET TestsOf(b) :
          /\ head[b] = MaxCommit => green = TestsOf(b)
          /\ run' = [x \in AnyTest |->
                       IF x \in TestsOf(b)
                       THEN [batch |-> b, at |-> head[b], passed |-> x \in green]
                       ELSE run[x]]
    /\ UNCHANGED <<itemVars, workVars, batchVars, test, question, spare>>

\* verdicts.emit, a pass.
Judge(b) ==
    /\ ReviewDue(b)
    /\ judged' = [judged EXCEPT ![b] = head[b]]
    /\ UNCHANGED <<itemVars, workVars, batch, head, testVars, question, spare>>

\* do:merge and its delivered: record, for the batch's own item.
Merge(b) ==
    /\ MergeTurn(b)
    /\ batch' = [batch EXCEPT ![b].status = "merged"]
    /\ delivered' = [delivered EXCEPT ![batch[b].item] = version[batch[b].item]]
    /\ UNCHANGED <<version, approved, workVars, head, judged, testVars, question, spare>>

\* do:cancel: the tickets are owed again; the tests keep their batch.
Cancel(b) ==
    /\ CancelDue(b)
    /\ batch' = [batch EXCEPT ![b].status = "abandoned"]
    /\ UNCHANGED <<itemVars, workVars, head, judged, testVars, question, spare>>

-----------------------------------------------------------------------------
(***************************************************************************)
(* The Tester.                                                             *)
(***************************************************************************)

\* The bodies tests.encode refuses because they could pass against no code, in
\* the order it looks: each refusal is an api.Wall.
NotATest     == {"not Python", "nothing pytest collects"}
ReadsStdin   == {"calls input()", "closes stdin", "calls what reads input()"}
UnboundName  == {"uses a name it never binds"}
NoFixture    == {"takes a fixture the harness lacks"}
ChecksNothing == {"asserts on a constant", "asserts on print", "asserts on a mock's invention"}
NoSuchModule == {"imports a module the tree lacks", "imports a name nobody defines"}
MissesSurface == {"imports the surface from elsewhere", "never calls the surface"}
Copied       == {"the criterion's own words"}
Walls == NotATest \cup ReadsStdin \cup UnboundName \cup NoFixture \cup ChecksNothing
           \cup NoSuchModule \cup MissesSurface \cup Copied

\* Refused too, but as a choice of the Tester's: a second program; what nobody
\* said, until a ledger row of the session says it.
SecondProgram == {"imports another module than its siblings"}
Unsaid        == {"uses a result the criterion says is printed"}
Assumed       == {"a literal the material never said"}
Bodies == Walls \cup SecondProgram \cup Unsaid \cup Assumed \cup {"sound"}

\* The bodies a session can write from a criterion's words, and those staged.
BodiesFor(c) == IF criterion[c].words \in Clear THEN Bodies ELSE Walls
Lands(c)     == \E body \in BodiesFor(c) : body \in {"sound"} \cup Assumed
MeetsWall(c) == \E body \in BodiesFor(c) : body \in Walls

SomeTest == (Inherited \cap Filed) \cup Usable(Test, Filed \ Inherited)
UsedPaths == {test[x].path : x \in Filed} \cup Inherited
SomePath  == Usable(AnyPath, UsedPaths)

\* (Faulty: only another test of the same criterion is a clash.)
FreePathOfCriterion(x, c, p, b) ==
    \A y \in TestsOf(b) \ {x} : test[y].criterion = c => test[y].path # p

\* tests.encode: one file per test of a batch.
FreePath(x, c, p, b) == \A y \in TestsOf(b) \ {x} : test[y].path # p

\* tests.encode stages the row whole, whoever's the id was; the runs of an
\* older body go with it.
Encoded(x, c, p, b) ==
    /\ Lands(c) /\ b \in Batch /\ batch[b] # NoBatch /\ FreePath(x, c, p, b)
    /\ test' = [test EXCEPT ![x] = [batch |-> b, criterion |-> c, path |-> p]]
    /\ run' = [run EXCEPT ![x] = NoRun]

\* tick:tests_missing: the batch is the wake's unless the call names another,
\* and the criterion any that exists.
Encode(b) ==
    /\ Missing(b) # {}
    /\ \E x \in SomeTest, c \in Written, p \in SomePath, to \in Batch :
          /\ Encoded(x, c, p, to)
          /\ Pays(c = First(Missing(b)) /\ test[x] = NoTest /\ to = b /\ p \notin UsedPaths)
    /\ UNCHANGED <<itemVars, workVars, batchVars, question>>

\* tests.triage `cannot`: the criterion is asked about.
Ask(b) ==
    /\ \E c \in Missing(b) :
          /\ question' = [question EXCEPT ![c] = "open"]
          /\ Pays(c = First(Missing(b)) /\ criterion[c].words \in Vague)
    /\ UNCHANGED <<itemVars, workVars, batchVars, testVars>>

\* Whoever the question stands with answers it: the first desk, or after the
\* repair the ladder's next (module Inquiry).
Answer(c) ==
    /\ question[c] \in {"open", "repaired"}
    /\ question' = [question EXCEPT ![c] = "answered"]
    /\ UNCHANGED <<itemVars, workVars, batchVars, testVars, spare>>

\* (Faulty: a session that wrote no test settles the question.)
ReadAnswerSettling(c) ==
    /\ question[c] = "answered"
    /\ \/ /\ \E x \in SomeTest, p \in SomePath : Encoded(x, c, p, BatchOfCriterion(c))
          /\ question' = [question EXCEPT ![c] = "none"]
          /\ spare' = spare
       \/ /\ question' = [question EXCEPT ![c] = "none"]
          /\ Pays(criterion[c].words \in Vague)
          /\ UNCHANGED testVars
    /\ UNCHANGED <<itemVars, workVars, batchVars>>

\* The answer wakes the Tester: it encodes the criterion, in the batch its
\* ticket is in; or meets a wall, or says the answer did not help, and the
\* question is unresolved; or leaves it.
ReadAnswer(c) ==
    /\ question[c] = "answered"
    /\ \/ /\ \E x \in SomeTest, p \in SomePath :
                /\ Encoded(x, c, p, BatchOfCriterion(c))
                /\ Pays(test[x] = NoTest /\ ~Tested(c) /\ p \notin UsedPaths)
          /\ question' = [question EXCEPT ![c] = "none"]
       \/ /\ MeetsWall(c)
          /\ question' = [question EXCEPT ![c] = "unresolved"]
          /\ Pays(criterion[c].words \in Vague)
          /\ UNCHANGED testVars
       \/ /\ question' = [question EXCEPT ![c] = "none"]
          /\ Pays(criterion[c].words \in Clear)
          /\ UNCHANGED testVars
    /\ UNCHANGED <<itemVars, workVars, batchVars>>

-----------------------------------------------------------------------------
\* The sets of ticket ids a session slices with, the new ones alike.
HeldIds == {h \in Handle : \E t \in {h} \cup ({h} \X Item) : ticket[t] # NoTicket}
Derived == {t \in Handle \X Item : ticket[t] # NoTicket}
Slices ==
    LET held == HeldIds \cup Derived
        new(ids) == CHOOSE S \in SUBSET (Handle \ held) : Cardinality(S) = Cardinality(ids \ held)
    IN  {ids \in SUBSET (Handle \cup held) :
            ids # {} /\ Cardinality(ids) <= MaxSlice /\ ids \ held = new(ids)}

TrafficBand == \E c \in Criterion : (question[c] = "open" /\ Answer(c)) \/ ReadAnswer(c)
FixBand ==
    \/ \E c \in Criterion : Repair(c) \/ (question[c] = "repaired" /\ Answer(c))
    \/ \E b \in Running : Red(b) # {} /\ Develop(b)
GateBand == \E b \in Running : Judge(b)
StartBand ==
    \/ \E ids \in Slices, i \in Item : Slice(ids, i)
    \/ \E c \in Usable(Criterion, Written), t \in TicketId, w \in Words : Specify(c, t, w)
    \/ Group
    \/ \E b \in Batch : Start(b) \/ Encode(b) \/ Ask(b)
    \/ \E b \in Running : head[b] = 0 /\ Develop(b)
Roles ==
    \/ RoleTurn /\ TrafficBand
    \/ FixTurn /\ FixBand
    \/ GateTurn /\ GateBand
    \/ StartTurn /\ StartBand
Chores == \E b \in Batch : Harness(b) \/ Merge(b) \/ Cancel(b)

Next == Roles \/ Chores \/ \E i \in Item : Assert(i) \/ Approve(i)

Spec == Init /\ [][Next]_vars

\* The loop dispatches what is due until it is done: a session makes the call
\* its wake asks for in the end, a quarantine set aside (module Dispatch).  The
\* principal rules on what is put to them.
Asked == spare' = spare
FairSpec ==
    /\ Spec
    /\ \A i \in Item : WF_vars(Approve(i))
    /\ WF_vars(Roles /\ Asked) /\ WF_vars(Chores)

-----------------------------------------------------------------------------
(***************************************************************************)
(* Properties.                                                             *)
(***************************************************************************)

TicketRow    == [item : Item \cup {None}, words : Nat]
CriterionRow == [ticket : TicketId \cup {None}, words : Words \cup {None}]
BatchRow     == [status : {"none", "pending", "running", "merged", "abandoned"},
                 item : Item \cup {None}, tickets : SUBSET TicketId]
TestRow      == [batch : Batch \cup {None}, criterion : Criterion \cup {None},
                 path : AnyPath \cup {None}]
RunRow       == [batch : Batch \cup {None}, at : 0 .. MaxCommit, passed : BOOLEAN]

\* Every row is well formed.
TypeOK ==
    /\ version \in [Item -> 0 .. MaxVersion] /\ approved \in [Item -> BOOLEAN]
    /\ delivered \in [Item -> 0 .. MaxVersion]
    /\ ticket \in [TicketId -> TicketRow] /\ criterion \in [Criterion -> CriterionRow]
    /\ batch \in [Batch -> BatchRow]
    /\ head \in [Batch -> 0 .. MaxCommit] /\ judged \in [Batch -> 0 .. MaxCommit]
    /\ test \in [AnyTest -> TestRow] /\ run \in [AnyTest -> RunRow]
    /\ question \in [Criterion -> {"none", "open", "answered", "unresolved", "repaired"}]
    /\ spare \in 0 .. MaxSpare

\* A ticket stays its item's and a criterion its ticket's, whatever ids later
\* sessions invent, and the words a batch went out with are never written over
\* (the id doors of tickets.slice and criteria.specify).
WorkKeepsItsPlace ==
    [][/\ \A t \in TicketId : ticket[t].item # None => ticket'[t].item = ticket[t].item
       /\ \A t \in TicketId : Spent(t) => ticket'[t] = ticket[t]
       /\ \A c \in Written : criterion'[c].ticket = criterion[c].ticket]_vars

\* Two tests of one batch never share a file, wherever a session filed them
\* and whatever the repository brought (tests.encode, harness.inherit).
OneTestPerFile ==
    \A b \in Batch : \A x, y \in TestsOf(b) : test[x].path = test[y].path => x = y

\* A batch merges on tests of its own: a criterion all of whose tests are the
\* batch's has one that passed at the head (predicates.review, mergeable).
Passed(c, b) == \E x \in AtHead(b) : test[x].criterion = c /\ run[x].passed
Native(c, b) == \A x \in AnyTest : test[x].criterion = c => test[x].batch = b
MergesOnItsOwnTests ==
    [][\A b \in Running : batch'[b].status = "merged" =>
          \A c \in Promised(b) : Native(c, b) => Passed(c, b)]_vars

\* Nothing is missing between two links: unless a batch is abandoned, takes in
\* another item's ticket, or has a test of its criteria filed under another,
\* every item that is to be built is delivered at its last version.
Astray ==
    \E b \in Batch :
        \/ batch[b].status = "abandoned"
        \/ \E t \in batch[b].tickets : ticket[t].item # batch[b].item
        \/ \E x \in TestsOf(b) : test[x].criterion \notin Promised(b) \cup {None}
ChainDelivers ==
    <>Astray \/ \A i \in Item \ Found : <>[](delivered[i] = version[i])

=============================================================================
