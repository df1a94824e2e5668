----------------------------- MODULE Workspace -----------------------------
(***************************************************************************)
(* The files of one batch: its worktree and branch, the project's branch   *)
(* they come from and go back to, the code index, and what the doors       *)
(* code.write and code.commit of src/rota/roles/api.py let a Developer do  *)
(* to them; src/rota/core/worktrees.py, lifecycle.py and harness.py move   *)
(* the trees, src/rota/onboarding/indexer.py reads them.                   *)
(*                                                                         *)
(* A tree gives every path its text.  Of a text the doors read what it     *)
(* defines and with which source, whether it is a program's entry point,   *)
(* what it imports, what it reaches outside the project, and its faults.   *)
(* The worktree, the branches and their commits are outside the database:  *)
(* a session that dies leaves them as they are.                            *)
(***************************************************************************)
EXTENDS Integers, Sequences, FiniteSets, SequencesExt

CONSTANTS
    Source,       \* paths of modules that are no tests
    TestFile,     \* paths pytest collects
    Name,         \* top-level names
    Body,         \* sources a definition can have
    Draft,        \* texts a Developer may send, by file
    TestText,     \* texts a Tester may send
    TestPath,     \* and the paths, any that ends in .py
    First,        \* the tree of the project when it was onboarded
    Bare,         \* criteria.surface_refs without a file
    SurfaceIn,    \* and with one: <<file, name>>
    NamedFile,    \* files the words of a criterion name
    Private,      \* names that begin with an underscore or test
    Misplaced,    \* paths code.write refuses for the path alone
    Unindexed,    \* paths the indexer passes over: built, generated, minified,
                  \* or over MAX_BYTES (taken to stay so)
    ReachAsked,   \* a criterion names what the drafts reach
    Unanswerable, \* <<text, test>>: the test calls what reads stdin in the text
    NoDef, Gone,  \* no definition; no file, no row
    MaxCommit,    \* bound: commits of the batch's branch, the project's included
    MaxMain       \* bound: commits of the project's branch before the merge

Path  == Source \cup TestFile
Fault == {"unparsed", "twice", "stdin at import", "constant", "own package"}
Text  == [defs: [Name -> Body \cup {NoDef}], guard: BOOLEAN, reach: BOOLEAN,
          uses: SUBSET (Source \X Name), faults: SUBSET Fault]
Tree  == [Path -> Text \cup {Gone}]

ASSUME WorkspaceAssumption ==
    /\ Source \cap TestFile = {} /\ NoDef \notin Body /\ Gone \notin Text
    /\ Draft \in [Source -> SUBSET Text] /\ TestText \subseteq Text /\ TestPath \subseteq Path
    /\ First \in Tree
    /\ \A N \in SUBSET Name : N # Gone
    /\ Bare \subseteq Name /\ SurfaceIn \subseteq Source \X Name
    /\ NamedFile \subseteq Path /\ Private \subseteq Name /\ Misplaced \subseteq Source
    /\ Unindexed \subseteq Path
    /\ ReachAsked \in BOOLEAN
    /\ MaxCommit \in Nat /\ MaxMain \in Nat \ {0}

VARIABLES
    main,         \* the trees of the project's branch, oldest first
    status,       \* batches.status
    made,         \* batches.worktree names a worktree
    base,         \* how many commits the project had when it was made
    log,          \* the trees of the batch's branch, the project's included
    wt,           \* the files of the worktree
    head,         \* batches.head_commit, a place in log; 0 is NULL
    session,      \* a Developer works in the worktree
    newHead,      \* the head_commit that session will write; 0 is none
    index,        \* code_index: what each indexed path defines
    tests,        \* the rows of tests, by path
    own,          \* the path of the row that encodes a criterion
    claimed,      \* history: every path a test was encoded at
    slipped       \* history: paths taken out though the index knew them

repo == <<main, base, log>>
rows == <<tests, own, claimed, slipped>>
wsVars == <<repo, status, made, wt, head, session, newHead, index, rows>>

Empty == [p \in Path |-> Gone]
Defined(t) == IF t = Gone THEN {} ELSE {n \in Name : t.defs[n] # NoDef}

\* What indexer.build makes of a tree: of every file it walks, what it defines.
Grains(tree) ==
    [p \in Path |-> IF tree[p] = Gone \/ p \in Unindexed THEN Gone ELSE Defined(tree[p])]

WsInit ==
    /\ main = <<First>> /\ status = "pending" /\ made = FALSE /\ base = 0
    /\ log = << >> /\ wt = Empty /\ head = 0 /\ session = FALSE /\ newHead = 0
    /\ index = Grains(First)
    /\ tests = Empty /\ own = Gone /\ claimed = {} /\ slipped = {}

Project == Last(main)
Tip     == Last(log)
Asked   == Bare \cup {s[2] : s \in SurfaceIn}
Owned   == {p \in Path : tests[p] # Gone}

\* (Faulty: the swap is no transaction, and a kill leaves half of it.)
RefreshInPlace(tree) ==
    index' \in {Grains(tree), index}
              \cup {[p \in Path |-> IF p \in S THEN Gone ELSE index[p]] : S \in SUBSET Path}

\* indexer.refresh, best effort: what fails keeps the index it had.
Refresh(tree) == index' \in {Grains(tree), index}

\* Every way out of running has the index describe the project again.
ReindexMain(delivered) == Refresh(Last(delivered))

-----------------------------------------------------------------------------
(***************************************************************************)
(* What code.write asks of a text t for the path f.                        *)
(***************************************************************************)

\* It parses, and defines no name twice.
Reads(t) == t.faults \cap {"unparsed", "twice"} = {}

\* What indexed or present files other than f define n, tests aside.
Elsewhere(f, n) ==
    {g \in Source \ {f} : n \in Defined(wt[g]) \/ (index[g] # Gone /\ n \in index[g])}

\* One name, one definition: a name new to the file, which exactly one other
\* file defines, is a copy, unless a criterion names this file.
NoCopy(f, t) ==
    f \in NamedFile \/ \A n \in Defined(t) \ (Defined(wt[f]) \cup Private) :
        Cardinality(Elsewhere(f, n)) # 1

\* (Faulty: the reaches of a file that exists are its own.)
FencedIfNew(f, t) == t.reach => ReachAsked \/ wt[f] # Gone

\* fence.check: a reach the file had, or that a criterion names.
Fenced(f, t) == t.reach => ReachAsked \/ (wt[f] # Gone /\ wt[f].reach)

\* The tests are the Tester's, and an entry point stays one, with every
\* definition its main block calls.
StaysEntry(f, t) == f \notin TestFile /\ (wt[f] # Gone /\ wt[f].guard => t.guard)

\* The module runs under pytest: nothing read at import, nothing a test of the
\* batch calls unshielded.
Collects(t) ==
    /\ "stdin at import" \notin t.faults
    /\ \A p \in Owned : <<t, tests[p]>> \notin Unanswerable

\* A value a criterion takes from the user is no constant.
Varies(t) == "constant" \notin t.faults

\* What the batch's tests, its criteria and the other files use of f.
Used(f) ==
    {n \in Name : \/ <<f, n>> \in SurfaceIn
                  \/ \E p \in Owned : <<f, n>> \in tests[p].uses
                  \/ \E g \in Path \ {f} : wt[g] # Gone /\ <<f, n>> \in wt[g].uses}

\* (Faulty: only what is used is kept, of an entry point too.)
KeepsUsed(f, t) == (Defined(wt[f]) \cap Used(f)) \subseteq Defined(t)

\* An entry point keeps every definition, another file what is used of it.
KeepsDefinitions(f, t) ==
    LET had == Defined(wt[f])
    IN  (IF wt[f] # Gone /\ wt[f].guard THEN had ELSE had \cap Used(f)) \subseteq Defined(t)

\* A definition no criterion names keeps its source, or gets the project's back.
KeepsUnnamed(f, t) ==
    Asked # {} => \A n \in (Defined(wt[f]) \cap Defined(t)) \ Asked :
        \/ t.defs[n] = wt[f].defs[n]
        \/ Project[f] # Gone /\ Project[f].defs[n] # NoDef /\ t.defs[n] = Project[f].defs[n]

\* Its package is not imported from a module the package imports.
NoCycle(t) == "own package" \notin t.faults

\* While a module the tests import is missing, no other new one is written.
Wanted  == {f \in Source : \E p \in Owned, n \in Name : <<f, n>> \in tests[p].uses}
Missing == {f \in Wanted : wt[f] = Gone}
NewIsWanted(f) == wt[f] = Gone /\ Missing # {} => f \in Wanted

Allowed(f, t) ==
    /\ Reads(t) /\ NoCopy(f, t) /\ Fenced(f, t) /\ StaysEntry(f, t)
    /\ Collects(t) /\ Varies(t) /\ KeepsDefinitions(f, t) /\ KeepsUnnamed(f, t)
    /\ NoCycle(t) /\ NewIsWanted(f)

-----------------------------------------------------------------------------
(***************************************************************************)
(* A Developer's session.  It has the process to itself; killed, it leaves *)
(* its files and its commits.                                              *)
(***************************************************************************)

\* Woken for the batch: tests_failing asks no status of it.
Wake ==
    /\ status # "pending" /\ status # "merged" /\ ~session
    /\ session' = TRUE
    /\ UNCHANGED <<repo, status, made, wt, head, newHead, index, rows>>

\* code.write, the whole file or a span of one: the doors read the merged text.
CodeWrite(f, t) ==
    /\ session /\ made /\ f \notin Misplaced
    /\ Allowed(f, t)
    /\ wt' = [wt EXCEPT ![f] = t]
    /\ UNCHANGED <<repo, status, made, head, session, newHead, index, rows>>

\* code.write resolves the path it is sent ("./f" is f) and asks the index for
\* the words it was sent.
Spelling == {"as indexed", "another way"}
InTree(f, spelt) == spelt = "as indexed" /\ index[f] # Gone

\* code.write with no text: a file the index does not hold is taken for one the
\* batch added.
TakeOut(f, spelt) ==
    /\ session /\ made /\ wt[f] # Gone /\ ~InTree(f, spelt)
    /\ wt' = [wt EXCEPT ![f] = Gone]
    /\ slipped' = IF index[f] = Gone THEN slipped ELSE slipped \cup {f}
    /\ UNCHANGED <<repo, status, made, head, session, newHead, index, tests, own, claimed>>

\* A bare name is defined somewhere, a file's own name in that file if it is there.
SurfacesDefined ==
    /\ \A n \in Bare : \E f \in Source : n \in Defined(wt[f])
    /\ \A s \in SurfaceIn : wt[s[1]] # Gone => s[2] \in Defined(wt[s[1]])

\* The commit would restore the tree before the last: git diff reads the files
\* git tracks, so a file the last commit took out does not count.
Flips ==
    /\ Len(log) > 1
    /\ LET before == log[Len(log) - 1]
       IN  /\ \A p \in Path : before[p] = IF Tip[p] = Gone THEN Gone ELSE wt[p]
           /\ \E p \in Path : Tip[p] # Gone /\ wt[p] # Tip[p]

\* worktrees.commit, the paths of the test rows left out.
Committed == [p \in Path |-> IF p \in Owned THEN Tip[p] ELSE wt[p]]

\* code.commit; with nothing changed there is no commit.
Commit ==
    /\ session /\ made /\ SurfacesDefined /\ ~Flips
    /\ Committed # Tip /\ Len(log) < MaxCommit
    /\ log' = Append(log, Committed)
    /\ newHead' = Len(log')
    /\ UNCHANGED <<main, base, status, made, wt, head, session, index, rows>>

\* The session's writes land, and the index is rebuilt from the worktree.
Land ==
    /\ session /\ session' = FALSE /\ newHead' = 0
    /\ IF newHead = 0 THEN UNCHANGED <<head, index>> ELSE head' = newHead /\ Refresh(wt)
    /\ UNCHANGED <<repo, status, made, wt, rows>>

\* It fails: nothing it staged is written.
Fail ==
    /\ session /\ session' = FALSE /\ newHead' = 0
    /\ UNCHANGED <<repo, status, made, wt, head, index, rows>>

\* Killed and restarted: the recorded head follows git's.
Boot ==
    /\ session' = FALSE /\ newHead' = 0
    /\ head' = IF made /\ status \in {"running", "deferred"} THEN Len(log) ELSE head
    /\ UNCHANGED <<repo, status, made, wt, index, rows>>

-----------------------------------------------------------------------------
(***************************************************************************)
(* The Tester's rows and the harness.                                      *)
(***************************************************************************)

\* The test calls nothing that reads stdin where it will run.
Answerable(t) ==
    \A f \in Source : <<IF made THEN wt[f] ELSE Project[f], t>> \notin Unanswerable

\* tests.encode: any path with no other row; the row moves, the file stays.
Encode(p, t) ==
    /\ status = "running" /\ ~session /\ Answerable(t)
    /\ tests[p] = Gone \/ own = p
    /\ tests' = [q \in Path |-> IF q = p THEN t ELSE IF q = own THEN Gone ELSE tests[q]]
    /\ own' = p /\ claimed' = claimed \cup {p}
    /\ UNCHANGED <<repo, status, made, wt, head, session, newHead, index, slipped>>

\* (Faulty: a file that is there is left as it is.)
FilledIn == [p \in Path |-> IF p \in Owned /\ wt[p] = Gone THEN tests[p] ELSE wt[p]]

\* harness.materialise.
Materialised == [p \in Path |-> IF p \in Owned THEN tests[p] ELSE wt[p]]

\* harness.run writes the rows out before it runs them.
Harness ==
    /\ status = "running" /\ made /\ ~session /\ Owned # {}
    /\ wt' = Materialised
    /\ UNCHANGED <<repo, status, made, head, session, newHead, index, rows>>

\* harness.inherit: the test files found, unless a row has their path.
Inherited(tree) ==
    [p \in Path |-> IF p \in TestFile \ Owned THEN tree[p] ELSE tests[p]]

-----------------------------------------------------------------------------
(***************************************************************************)
(* The life of the worktree.                                               *)
(***************************************************************************)

\* lifecycle.start where the worktree cannot be made: the batch runs without.
StartWithout ==
    /\ status \in {"pending", "deferred"} /\ ~session /\ ~made
    /\ status' = "running"
    /\ UNCHANGED <<repo, made, wt, head, session, newHead, index, rows>>

\* (Faulty: a deferred batch gets a new worktree.)
StartAnew ==
    /\ status \in {"pending", "deferred"} /\ ~session
    /\ status' = "running" /\ made' = TRUE
    /\ base' = Len(main) /\ log' = main /\ wt' = Project
    /\ tests' = Inherited(Project)
    /\ UNCHANGED <<main, head, session, newHead, index, own, claimed, slipped>>

\* worktrees.create from the project's branch, harness.inherit.
Start ==
    /\ status \in {"pending", "deferred"} /\ ~session /\ ~made
    /\ status' = "running" /\ made' = TRUE
    /\ base' = Len(main) /\ log' = main /\ wt' = Project
    /\ tests' = Inherited(Project)
    /\ UNCHANGED <<main, head, session, newHead, index, own, claimed, slipped>>

\* A deferred batch keeps its worktree, and the index goes back to it.
Resume ==
    /\ status = "deferred" /\ ~session /\ made
    /\ status' = "running"
    /\ tests' = Inherited(wt)
    /\ IF head = 0 THEN UNCHANGED index ELSE Refresh(wt)
    /\ UNCHANGED <<repo, made, wt, head, session, newHead, own, claimed, slipped>>

\* lifecycle.defer and abandon.
Stop(to) ==
    /\ status = "running" /\ ~session
    /\ status' = to /\ ReindexMain(main)
    /\ UNCHANGED <<repo, made, wt, head, session, newHead, rows>>

\* Another batch delivers while this one does not run: a text its own doors let
\* through, a test wherever its Tester put it, or a file's removal.
OtherMerges(f, t) ==
    /\ status # "running" /\ ~session /\ Len(main) < MaxMain
    /\ \/ /\ f \in Source /\ t \in Draft[f] /\ t.faults = {}
          /\ Project[f] # Gone /\ Project[f].guard =>
                 t.guard /\ Defined(Project[f]) \subseteq Defined(t)
          /\ UNCHANGED <<claimed, slipped>>
       \/ /\ f \in TestPath /\ t \in TestText
          /\ claimed' = claimed \cup {f} /\ UNCHANGED slipped
       \/ /\ t = Gone /\ Project[f] # Gone
          /\ slipped' = slipped \cup {f} /\ UNCHANGED claimed
    /\ main' = Append(main, [Project EXCEPT ![f] = t])
    /\ ReindexMain(main')
    /\ UNCHANGED <<base, log, status, made, wt, head, session, newHead, tests, own>>

Side(b, ours, theirs) == IF theirs = b THEN ours ELSE theirs
Agree(b, ours, theirs) == theirs = b \/ ours = b \/ ours = theirs

\* git's three-way merge of one text, by definition.
MergedText(b, ours, theirs) ==
    IF Gone \in {b, ours, theirs} THEN Side(b, ours, theirs)
    ELSE [defs   |-> [n \in Name |-> Side(b.defs[n], ours.defs[n], theirs.defs[n])],
          guard  |-> Side(b.guard, ours.guard, theirs.guard),
          reach  |-> Side(b.reach, ours.reach, theirs.reach),
          uses   |-> Side(b.uses, ours.uses, theirs.uses),
          faults |-> Side(b.faults, ours.faults, theirs.faults)]

\* It may be clean where no definition was changed both ways.
MayBeClean(b, ours, theirs) ==
    IF Gone \in {b, ours, theirs} THEN Agree(b, ours, theirs)
    ELSE \A n \in Name : Agree(b.defs[n], ours.defs[n], theirs.defs[n])

\* lifecycle.merge first commits the tests as they are on record, and with them
\* whatever the worktree holds that no commit does.
Delivered == IF Owned = {} THEN wt ELSE Materialised
Branch    == IF Owned = {} \/ Delivered = Tip THEN log ELSE Append(log, Delivered)

Deliverable ==
    status = "running" /\ made /\ ~session /\ head # 0 /\ Len(Branch) <= MaxCommit

\* worktrees.integrate is clean: the worktree goes, the branch stays.
MergeClean ==
    /\ Deliverable
    /\ \A p \in Path : MayBeClean(main[base][p], Project[p], Last(Branch)[p])
    /\ log' = Branch
    /\ main' = IF Len(Branch) = base THEN main
               ELSE Append(main, [p \in Path |->
                        MergedText(main[base][p], Project[p], Last(Branch)[p])])
    /\ status' = "merged" /\ made' = FALSE /\ wt' = Empty
    /\ ReindexMain(main')
    /\ UNCHANGED <<base, head, session, newHead, rows>>

\* It is not, where both sides changed a file: the batch is deferred.
MergeConflicts ==
    /\ Deliverable
    /\ \E p \in Path : /\ Project[p] # main[base][p] /\ Last(Branch)[p] # main[base][p]
                       /\ Project[p] # Last(Branch)[p]
    /\ log' = Branch /\ wt' = Delivered
    /\ status' = "deferred" /\ ReindexMain(main)
    /\ UNCHANGED <<main, base, made, head, session, newHead, rows>>

WsNext ==
    \/ Wake \/ Commit \/ Land \/ Fail \/ Boot
    \/ \E f \in Path, spelt \in Spelling : TakeOut(f, spelt)
    \/ \E f \in Source : \E t \in Draft[f] : CodeWrite(f, t)
    \/ \E p \in TestPath, t \in TestText : Encode(p, t)
    \/ Harness \/ StartWithout \/ Start \/ Resume
    \/ Stop("deferred") \/ Stop("abandoned")
    \/ \E f \in Path : \E t \in TestText \cup UNION Range(Draft) \cup {Gone} : OtherMerges(f, t)
    \/ MergeClean \/ MergeConflicts

WsSpec == WsInit /\ [][WsNext]_wsVars

-----------------------------------------------------------------------------
WsTypeOK ==
    /\ main \in Seq(Tree) /\ log \in Seq(Tree) /\ base \in 0 .. Len(main)
    /\ status \in {"pending", "running", "deferred", "abandoned", "merged"}
    /\ made \in BOOLEAN /\ session \in BOOLEAN
    /\ head \in 0 .. Len(log) /\ newHead \in 0 .. Len(log)
    /\ wt \in Tree /\ tests \in Tree
    /\ index \in [Path -> (SUBSET Name) \cup {Gone}]
    /\ own \in Path \cup {Gone} /\ claimed \subseteq Path /\ slipped \subseteq Path

Branches == Range(log) \cup (IF made THEN {wt} ELSE {})

\* Of an entry point the project was onboarded with, a tree keeps the main
\* block and every definition, those no criterion names with a source the
\* project's own branch has had.
KeepsEntry(tree, f) ==
    /\ tree[f].guard
    /\ Defined(First[f]) \subseteq Defined(tree[f])
    /\ \A n \in Defined(First[f]) \ Asked :
          \E i \in DOMAIN main : tree[f].defs[n] = main[i][f].defs[n]

\* The project's program survives the batch, as far as the index is asked for it.
\* However many sessions write, commit, fail and are killed, however often the
\* index was not refreshed and whatever was merged meanwhile, no file that the
\* indexer reads leaves the worktree, the branch or what is delivered, and an entry
\* point keeps its main block and its definitions, those outside the criteria as
\* the project has them.  Excepted are a path the Tester wrote a test to, and one
\* that an empty write had under another spelling than the index.
ProgramStands ==
    Asked # {} =>
        \A f \in Source \ (claimed \cup slipped \cup Unindexed), tree \in Branches \cup Range(main) :
            First[f] # Gone =>
                /\ tree[f] # Gone
                /\ First[f].guard => KeepsEntry(tree, f)

\* What no criterion asks for is reached by no file of the batch that did not
\* reach it on the project's branch: the fence reads the file as it stood, so
\* removing, rewriting and committing it in turn opens nothing.
FenceHolds ==
    ~ReachAsked => \A f \in Source \ claimed, tree \in Branches :
        tree[f] # Gone /\ tree[f].reach =>
            \E i \in DOMAIN main : main[i][f] # Gone /\ main[i][f].reach

\* "An empty write is a removal of a file this batch added" (api.py:7777): such a
\* file, which the Architect may judge a mistake, can be taken out by its path.
AddedCanGo ==
    \A f \in Source : session /\ made /\ wt[f] # Gone
        /\ (\A i \in DOMAIN main : main[i][f] = Gone) => ~InTree(f, "as indexed")

\* "and nothing else": no file the project's branch ever had goes that way.
OnlyAddedGoes ==
    [][\A f \in Path, spelt \in Spelling :
          TakeOut(f, spelt) => \A i \in DOMAIN main : main[i][f] = Gone]_wsVars

\* A merge delivers the test the Tester has on record, not the body the
\* worktree happened to hold when a commit or the last run caught it.
DeliversTheTest ==
    [][status' = "merged" /\ status # "merged" /\ own # Gone /\ main[base][own] = Gone
          => Last(main')[own] = tests[own]]_wsVars
=============================================================================
