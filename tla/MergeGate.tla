----------------------------- MODULE MergeGate -----------------------------
(***************************************************************************)
(* The evidence one started batch gathers before it merges: the gates of   *)
(* src/rota/core/lifecycle.py, the predicates that ask for each of them,   *)
(* src/rota/core/harness.py, and the doors of src/rota/roles/api.py that   *)
(* write the verdicts, the findings, the tests and the stray rows.         *)
(*                                                                         *)
(* Every judgement is stamped with the commit in batches.head_commit.  Git *)
(* and the files in the worktree are outside the database's transactions:  *)
(* a lost session leaves its commits and its edits there.                  *)
(***************************************************************************)
EXTENDS Integers, FiniteSets

CONSTANTS
    Path,         \* files of the project that are not tests
    Grain,        \* what a prediction or a binding can name: paths, symbols
    Ground,       \* the grains that are a place: paths, symbols with a file
    Covers,       \* the files at or beneath one
    Rules,        \* the forms the constraints of the register take
    Criteria,     \* tests that encode a criterion; a grouped ticket has some
    Inherited,    \* tests the repository already had
    LoopCap,      \* config loop_cap, as finding_violated reads it
    MaxCommit,    \* bound: commits on the branch, 1 being its base
    MaxBody       \* bound: encodings of one test

Test   == Criteria \cup Inherited
Commit == 1 .. MaxCommit

\* A constraint: whether it is constraint zero, constraints.is_global, and the
\* grains it binds.
Rule == [zero : BOOLEAN, global : BOOLEAN, bound : SUBSET Grain]

ASSUME MergeGateAssumption ==
    /\ Path \subseteq Ground /\ Ground \subseteq Grain
    /\ Covers \in [Ground -> SUBSET Path] /\ \A p \in Path : p \in Covers[p]
    /\ Rules \subseteq Rule
    /\ Criteria # {} /\ Criteria \cap Inherited = {}
    /\ LoopCap \in Nat /\ MaxCommit \in Nat \ {0} /\ MaxBody \in Nat \ {0}

VARIABLES
    status,       \* batches.status
    tip,          \* the last commit on the batch's branch
    head,         \* batches.head_commit; 0 is NULL
    dirty,        \* files changed in the worktree since the tip
    carried,      \* files that differ from the base, at the tip
    touch,        \* batch_touch: the grains the batch is expected to touch
    rules,        \* the constraints on the register
    stray,        \* touch_strays.status per commit and file; "none" is no row
    body,         \* the encoding tests.body holds; 0 is no row
    run,          \* per test, its latest row in test_runs
    verdict,      \* verdicts.result per commit; "none" is no row
    finding,      \* the worst findings.status per commit
    held          \* config merge_gate = 'review'

code     == <<tip, head, dirty, carried>>
evidence == <<run, verdict, finding, stray>>
ground   == <<touch, rules>>
vars     == <<status, code, body, evidence, ground, held>>

NoRun == [at |-> 0, body |-> 0, result |-> "none"]

\* lifecycle.start has just made the worktree; harness.inherit read the tests.
Init ==
    /\ status = "running"
    /\ tip = 1 /\ head = 0 /\ dirty = {} /\ carried = {}
    /\ stray = [c \in Commit |-> [p \in Path |-> "none"]]
    /\ body = [t \in Test |-> IF t \in Inherited THEN 1 ELSE 0]
    /\ run = [t \in Test |-> NoRun]
    /\ verdict = [c \in Commit |-> "none"]
    /\ finding = [c \in Commit |-> "none"]
    /\ touch \in SUBSET Grain /\ rules \in SUBSET Rules /\ held \in BOOLEAN

-----------------------------------------------------------------------------
(***************************************************************************)
(* The predicates of the frontier that read this evidence.                 *)
(***************************************************************************)

Encoded   == {t \in Test : body[t] # 0}
Untested  == Criteria \ Encoded
Started   == status = "running" /\ head # 0
RunAtHead(t) == run[t].at = head /\ run[t].result # "none"
NotPassed == {t \in Test : RunAtHead(t) /\ run[t].result # "pass"}

StraysAtHead(judged) == {p \in Path : stray[head][p] = judged}

\* (Faulty: one run at this commit is taken for all of them.)
HarnessPerBatch == Started /\ Encoded # {} /\ ~\E t \in Encoded : RunAtHead(t)

\* predicates.harness: a test with no run at the head commit is owed one.
HarnessDue == Started /\ \E t \in Encoded : ~RunAtHead(t)

\* (Faulty: a batch is reviewed once.)
ReviewPerBatch ==
    /\ Started /\ Untested = {} /\ \A c \in Commit : verdict[c] = "none"
    /\ NotPassed = {} /\ \E t \in Test : RunAtHead(t)

\* predicates.review: green, fully encoded, not judged at this commit.
ReviewDue ==
    /\ Started /\ verdict[head] = "none" /\ Untested = {}
    /\ NotPassed = {} /\ \E t \in Test : RunAtHead(t)

\* lifecycle.needs_structural_review: a constraint that binds nothing is global,
\* and a batch nobody predicted may touch anything.
NeedsReview ==
    \E r \in rules :
        r.global \/ r.bound = {} \/ touch = {} \/ r.bound \cap touch # {}

\* predicates.structural_review.
StructuralDue == Started /\ verdict[head] = "pass" /\ finding[head] = "none" /\ NeedsReview

\* lifecycle.mergeable, every question about the head commit.
Mergeable ==
    /\ head # 0
    /\ Encoded # {} => Untested = {}
    /\ verdict[head] = "pass"
    /\ StraysAtHead("open") = {} /\ StraysAtHead("mistake") = {}
    /\ NotPassed = {}
    /\ finding[head] = "none" => ~NeedsReview
    /\ finding[head] # "violated"
    /\ ~held

\* predicates.merge; loop.step performs a due harness first.
MergeDue  == status = "running" /\ Mergeable
MergeTurn == MergeDue /\ ~HarnessDue
RoleTurn  == ~MergeDue /\ ~HarnessDue

\* predicates.tests_failing: by test, whatever became of the batch.
TestsFailing == \E t \in Test : run[t].result = "fail"

\* predicates.verdict_failed.
VerdictFailed == status = "running" /\ \E c \in Commit : verdict[c] = "fail"

\* predicates.finding_violated, capped by the commits already found violated.
BelowCap == Cardinality({c \in Commit : finding[c] = "violated"}) < LoopCap
FindingViolated == Started /\ finding[head] = "violated" /\ BelowCap

\* predicates.touch_strayed, touch_mistaken and tests_missing.
TouchStrayed  == Started /\ StraysAtHead("open") # {}
TouchMistaken == Started /\ StraysAtHead("mistake") # {}
TestsMissing  == Started /\ Untested # {}

-----------------------------------------------------------------------------
(***************************************************************************)
(* The Developer.                                                          *)
(***************************************************************************)

Judged(p) == \E c \in Commit : stray[c][p] \in {"foreseen", "mistake"}

\* `touched` committed on the branch: a file it carries may be put back.
Committed(touched) ==
    /\ tip < MaxCommit /\ tip' = tip + 1
    /\ \E back \in SUBSET (touched \cap carried) : carried' = (carried \cup touched) \ back

\* divergence.stray_paths: what no predicted ground covers; where no ground is
\* predicted there is nothing to stray from.
Unforeseen(touched) ==
    IF touch \cap Ground = {} THEN {}
    ELSE touched \ UNION {Covers[g] : g \in touch \cap Ground}

\* code.commit's stray rows: not predicted, never judged before.
StraysRecorded(touched) ==
    stray' = [stray EXCEPT ![tip'] = [p \in Path |->
                 IF p \in Unforeseen(touched) /\ ~Judged(p) THEN "open" ELSE @[p]]]

\* A Developer session writes files and may commit once, with everything that
\* lay uncommitted.  head_commit and the stray rows are rows of the session; a
\* lost session leaves only the branch and the files.
DeveloperWorks ==
    /\ RoleTurn /\ status # "merged"
    /\ \E wrote \in SUBSET Path :
          \/ /\ dirty' = dirty \cup wrote
             /\ UNCHANGED <<tip, head, carried, stray>>
          \/ /\ dirty \cup wrote # {} /\ Committed(dirty \cup wrote)
             /\ dirty' \in SUBSET wrote
             /\ \/ head' = tip' /\ StraysRecorded(dirty \cup wrote)
                \/ UNCHANGED <<head, stray>>
    /\ UNCHANGED <<status, body, run, verdict, finding, ground, held>>

-----------------------------------------------------------------------------
(***************************************************************************)
(* The gates.                                                              *)
(***************************************************************************)

\* (Faulty: the runs of the old body are kept.)
EncodeKeepingRuns(t) ==
    /\ RoleTurn /\ status = "running" /\ head # 0 /\ body[t] < MaxBody
    /\ body' = [body EXCEPT ![t] = @ + 1]
    /\ UNCHANGED <<status, code, run, verdict, finding, stray, ground, held>>

\* tests.encode by the Tester; a new body deletes the runs of the old one
\* (db._lift_quarantines).
Encode(t) ==
    /\ RoleTurn /\ status = "running" /\ head # 0 /\ body[t] < MaxBody
    /\ body' = [body EXCEPT ![t] = @ + 1]
    /\ run' = [run EXCEPT ![t] = NoRun]
    /\ UNCHANGED <<status, code, verdict, finding, stray, ground, held>>

\* do:harness: every test of the batch, run in the worktree as it lies and
\* stamped with the head.
Harness ==
    /\ HarnessDue
    /\ \E passed \in SUBSET Encoded :
          run' = [t \in Test |->
                    IF t \notin Encoded THEN run[t]
                    ELSE [at |-> head, body |-> body[t],
                          result |-> IF t \in passed THEN "pass" ELSE "fail"]]
    /\ UNCHANGED <<status, code, body, verdict, finding, stray, ground, held>>

\* (Faulty: the judgement is stamped with the worktree's commit.)
JudgeAtTip ==
    /\ RoleTurn /\ head # 0 /\ Encoded # {}
    /\ \E result \in {"pass", "fail"} : verdict' = [verdict EXCEPT ![tip] = result]
    /\ UNCHANGED <<status, code, body, run, finding, stray, ground, held>>

\* verdicts.emit by the Critic, on tick:review or on the Tester's answer to a
\* challenge; the same commit judged again is the same row.
Judge ==
    /\ RoleTurn /\ head # 0 /\ Encoded # {}
    /\ \E result \in {"pass", "fail"} : verdict' = [verdict EXCEPT ![head] = result]
    /\ UNCHANGED <<status, code, body, run, finding, stray, ground, held>>

\* worktrees.batch_files: the files of the batch's diff, committed or not.
Changed == carried \cup dirty

\* What a finding may say: a violation is of a constraint other than zero, and
\* of a file the diff changed or of a bare symbol.
MayFind(worst) ==
    /\ rules # {}
    /\ worst = "violated" =>
        /\ \E r \in rules : ~r.zero
        /\ \E g \in Grain : g \in Ground => g \in Changed

\* findings.find by the Architect, on tick:structural_review or an escalation.
\* The Architect names the row: a name used again takes an older finding along.
Find ==
    /\ RoleTurn /\ head # 0
    /\ \E worst \in {"satisfied", "violated"}, moved \in SUBSET (Commit \ {head}) :
          /\ MayFind(worst)
          /\ finding' = [c \in Commit |-> IF c = head THEN worst
                                          ELSE IF c \in moved THEN "none" ELSE finding[c]]
    /\ UNCHANGED <<status, code, body, run, verdict, stray, ground, held>>

\* batches.judge_touch: every open stray on the head, one way or the other; a
\* foreseen file joins the touch set, where a binding may meet it.
JudgeTouch ==
    /\ RoleTurn /\ TouchStrayed
    /\ \E foreseen \in SUBSET StraysAtHead("open") :
          /\ stray' = [stray EXCEPT ![head] = [p \in Path |->
                          IF p \notin StraysAtHead("open") THEN @[p]
                          ELSE IF p \in foreseen THEN "foreseen" ELSE "mistake"]]
          /\ touch' = touch \cup foreseen
    /\ UNCHANGED <<status, code, body, run, verdict, finding, rules, held>>

\* batches.annotate by the Architect: the prediction grows, before the batch
\* starts as a rule, but by whatever session names the batch.
Annotate ==
    /\ RoleTurn
    /\ \E named \in SUBSET Grain : touch' = touch \cup named
    /\ UNCHANGED <<status, code, body, evidence, rules, held>>

\* The register is the project's: model.amend, a survey, the refresh of
\* constraint zero and the scan of the tree rewrite it whatever the batch does.
Amend ==
    /\ rules' \in SUBSET Rules
    /\ UNCHANGED <<status, code, body, evidence, touch, held>>

-----------------------------------------------------------------------------
(***************************************************************************)
(* The batch around its evidence.                                          *)
(***************************************************************************)

\* do:merge.  What lies in the worktree is committed with the tests and the
\* branch integrated; a conflict defers the batch, a kill may come first.
Merge ==
    /\ MergeTurn
    /\ Committed(dirty) \/ (dirty = {} /\ UNCHANGED <<tip, carried>>)
    /\ dirty' = {}
    /\ status' \in {"merged", "deferred", "running"}
    /\ UNCHANGED <<head, body, evidence, ground, held>>

\* do:preempt, do:cancel, and tick:batch_start on a deferred batch.
Move ==
    /\ \/ status = "running"  /\ status' \in {"deferred", "abandoned"}
       \/ status = "deferred" /\ status' \in {"running", "abandoned"}
    /\ UNCHANGED <<code, body, evidence, ground, held>>

\* boot.reconcile_worktrees: the database follows git.
Boot ==
    /\ status \in {"running", "deferred"}
    /\ head' = tip
    /\ UNCHANGED <<status, tip, dirty, carried, body, evidence, ground, held>>

\* The principal turns the review gate on or off.
Hold == held' = ~held /\ UNCHANGED <<status, code, body, evidence, ground>>

Next ==
    \/ DeveloperWorks \/ Harness \/ Judge \/ Find \/ JudgeTouch \/ Annotate \/ Amend
    \/ Merge \/ Move \/ Boot \/ Hold
    \/ \E t \in Criteria : Encode(t)

Spec == Init /\ [][Next]_vars
-----------------------------------------------------------------------------
(***************************************************************************)
(* What has to hold.                                                       *)
(***************************************************************************)

\* Every column holds a value the schema and its writers allow.
TypeOK ==
    /\ status \in {"running", "deferred", "merged", "abandoned"}
    /\ tip \in Commit /\ head \in 0 .. tip
    /\ dirty \subseteq Path /\ carried \subseteq Path
    /\ stray \in [Commit -> [Path -> {"none", "open", "foreseen", "mistake"}]]
    /\ body \in [Test -> 0 .. MaxBody]
    /\ run \in [Test -> [at : 0 .. MaxCommit, body : 0 .. MaxBody,
                         result : {"none", "pass", "fail"}]]
    /\ verdict \in [Commit -> {"none", "pass", "fail"}]
    /\ finding \in [Commit -> {"none", "satisfied", "violated"}]
    /\ touch \subseteq Grain /\ rules \subseteq Rules /\ held \in BOOLEAN

Merges == status # "merged" /\ status' = "merged"

\* What merges has been tested as it stands: every test of the batch passed at
\* the head, in its present encoding.  lifecycle.mergeable only counts the runs
\* that did not pass; it is the order of the frontier, and the deletion of the
\* runs of a re-encoded test, that leave no test without one.
MergesTested ==
    [][Merges => \A t \in Encoded :
          /\ run[t].at = head /\ run[t].result = "pass" /\ run[t].body = body[t]]_vars

\* A batch never starts on a commit with a judgement already on it: no sequence
\* of lost sessions, reboots and conflicts lets old evidence speak for a head.
NewHeadIsUnjudged ==
    [][head' # head => verdict[head'] = "none" /\ finding[head'] = "none"]_vars

\* The harness, the review, the fixes and the merge leave no gap: a started
\* batch that cannot merge has something on the frontier, unless the principal
\* holds it or its findings reached the cap.  lifecycle.mergeable and the ten
\* predicates are written separately and have to agree.
Offered ==
    \/ MergeDue \/ HarnessDue \/ ReviewDue \/ StructuralDue \/ TestsFailing
    \/ VerdictFailed \/ FindingViolated \/ TouchStrayed \/ TouchMistaken \/ TestsMissing

NeverStalls == Started /\ ~held /\ (finding[head] = "violated" => BelowCap) => Offered

-----------------------------------------------------------------------------
(***************************************************************************)
(* What the code says of itself and does not do.                           *)
(***************************************************************************)

\* lifecycle.py:441: a verdict against an older diff would "merge a change
\* nobody judged".  What merges is the branch and the worktree, not the head.
MergesWhatWasJudged == [][Merges => tip = head /\ dirty = {}]_vars

\* lifecycle.py:471: no merge while the Architect "said mistake and the
\* Developer has not taken it out".  A later commit leaves the judgement behind.
MistakeHolds ==
    [][Merges => \A p \in carried, c \in Commit : stray[c][p] # "mistake"]_vars

\* predicates.py:1165: "`loop_cap` commits with a violated finding on them, then
\* the batch is exhausted".  predicates.exhausted reads test runs only, so past
\* the cap a green batch with a violated finding has nothing on the frontier.
ExhaustedIsOffered ==
    Started /\ ~held /\ finding[head] = "violated" /\ ~BelowCap => Offered
=============================================================================
