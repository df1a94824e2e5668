# A model of rota's scheduler, roles and merge gate

rota runs a small organisation of language-model roles (Liaison, Vision Keeper,
Terminologist, Architect, Developer, Tester, Critic, Researcher) over one SQLite
database and one git repository. A loop computes the *frontier* (what is due),
performs the scheduler's own actions and otherwise wakes one role, whose session
reads, writes and commits. The database decides everything: no role calls another.

The models are of the code under `src/rota/`. Every definition names, in
`PROJECT.json` under `map`, the lines it stands for.

## 1. The system

| component | state it keeps | operations | talks to |
|---|---|---|---|
| Batch lifecycle (`core/lifecycle.py`) | `batches.status`, `head_commit`, `worktree`, `port_base`, `config delivered:*` | `start`, `defer`, `abandon`, `merge` | called by `loop.step`; uses environments, worktrees, harness |
| Frontier (`core/predicates.py`, `core/scheduler.py`) | none: queries | 43 predicates in the bands traffic, fix, gate, start; `waiting_filter` | read by `loop.step` |
| Loop (`core/loop.py`) | none of its own | `step`, `run`, `_perform` | pumps the principal, performs `do:` wakes, dispatches one session |
| Dispatch (`core/scheduler.py`, `core/runner.py`) | `claims`, `tick_attempts`, `messages.attempts`, `sessions` | `claim`, `release`, `note_dispatch`, three quarantines | between the frontier and `run_session` |
| Session loop (`core/runner.py`, `core/sandbox.py`, `llm/toolproto.py`) | `held_calls`, `ctx.writes`, `ctx.outbound`, refusal counts | the turns of `run_session`, standing by, `answers_given` | between a claim and a commit |
| Session commit (`core/db.py`) | every role's tables, `receipts`, `messages` | `session_commit`, `session_fail`, `_lift_quarantines` | one transaction per session |
| Messages (`core/scheduler.py`, `core/predicates.py`) | `messages.status`, threads | `open_tips`, the ladder `unresolved`, `criterion_repair`, `round_close` | what roles ask and tell each other |
| Principal's seat (`roles/principal.py`) | pages, `rulings`, `ledger`, approvals | `tick_signoff`, `tick_agenda`, `land`, `apply_rulings` | consoles, the Liaison, the Vision Keeper |
| Backlog chain (`roles/api.py`, `core/predicates.py`) | `tickets`, `criteria`, `batches`, `tests`, `test_runs` | `tickets.slice`, `criteria.specify`, `batches.group`, `tests.encode` and the predicates between them | from an approved item to a merge |
| Merge gate (`lifecycle.mergeable`, `core/harness.py`, `roles/api.py`) | `tests`, `test_runs`, `verdicts`, `findings`, `touch_strays` | `tests.encode`, harness, `verdicts.emit`, `findings.find`, `batches.judge_touch`, `code.commit` | asked by the merge predicate |
| Glossary (`roles/api.py`, `core/predicates.py`) | `glossary_terms`, `refs`, `decisions` | `glossary.amend`, `same`, `synthesise`, `term_collision`, rulings, adoption | filters and wakes |
| Onboarding (`onboarding/`, `core/scheduler.py`) | `code_index`, `area_hashes`, `survey_records`, constraint zero | `onboarding_phase`, `surveys.attest`, refresh | before any batch |
| Environments (`core/environments.py`) | `port_base`, `runtime_processes` | `reserve`, `release`, `spawn`, `teardown` | called by the lifecycle, by boot |
| Worktrees (`core/worktrees.py`, `core/fence.py`) | branches and directories on disk, `code_index` | `create`, `commit`, `integrate`, `destroy`; `code.write`, `code.commit` | called by the lifecycle and the Developer's doors |
| Boot (`core/boot.py`) | none | `reap_claims`, `reap_processes`, `reconcile_worktrees`, `quarantine_exhausted` | run when a driver boots |
| Cockpit, backends, testkit, tools | screens, caches | | drive or observe the loop |

What is hard here:

* **Ordering.** The frontier is a list and the first element wins. `mergeable`
  never looks at the approval, nor at tests that have not run; both are kept out of
  main by the band order alone. A commit is a series of `UPDATE`s over the same
  message rows, and which comes last decides who is asked next.
* **Two selections of one thing.** The challenger of a preemption and the next batch
  to start are chosen by different code.
* **Crashes.** Sessions are transactional, lifecycle handlers are not: the
  connection is in autocommit, so a kill leaves any prefix of their statements.
  Git is outside every transaction; so is the landing of what the Liaison read.
* **Staleness.** Approvals, verdicts, findings, runs, strays, surveys, rulings and
  criteria are each stamped with the version, commit, body, tree or row they were
  about, and that thing moves.
* **Long sequences.** Cancel, regroup, merge, amend, approve, slice, regroup.
* **Silence.** Every link between two components is a predicate over rows. A state
  none of them covers raises no error: the frontier is empty and the work stops.

What makes each component correct: one batch runs and only approved work is started
and merged (lifecycle, frontier); what merges is what was tested and judged, and the
gates leave nobody waiting (merge gate); no row changes owner and nothing is missing
between two links (chain); ranges are disjoint (environments); a wake is retried a
bounded number of times and never lost (dispatch); a question comes back and is
answered once (messages); a page is ruled on once and no loose end is dropped (seat);
a reading is never replaced in silence (glossary); a record vouches only for what its
session saw, and the phases end (onboarding).

## 2. The modules

| module | what it is |
|---|---|
| `WorkLine` | abstract specification: one desk, licensed work, final ends |
| `Batches` | every batch under the scheduler; implements `WorkLine` |
| `MergeGate` | the evidence of one started batch, file by file and test by test |
| `Chain` | from an approved item to its delivery: tickets, criteria, batches, tests |
| `Dispatch` | which wake is dispatched, how often, and when it is given up |
| `Inquiry` | the messages: who is asked, who is asked next, how an answer gets back |
| `Session` | one session between its claim and its commit |
| `Seat` | the principal's pages, rulings and readings |
| `Glossary` | one word and its senses, from the first reading to a ruling |
| `Onboarding` | the phases a checkout is read in |
| `Workspace` | the files of one batch: worktree, branch, index, and what the doors let through |
| `MC*` | small instances for TLC |
| `*Proofs` | theorems and proofs; `EvidenceProofs` is of `MergeGate` and `Onboarding`, `DoorsProofs` of `Session` and `Workspace`, the others of the module they are named after |

A module that extends two components needs their names apart: the specifications of
`Onboarding` and `Workspace` are `ObInit`, `ObNext`, `ObSpec` and `WsInit`, `WsNext`, `WsSpec`.

The modules meet where one leaves free what another decides. `Batches` opens and
closes its gate at will and `MergeGate` looks inside; both assume that what is due is
dispatched, and `Dispatch` counts the dispatches. `Chain` takes a verdict for granted
and follows the rows. `Inquiry`, `Seat`, `Glossary`, `Onboarding` and `Chain` take a
session as one step, free in what it sends and writes within what its mode offers, and
`Session` shows what one reply after another may stage. `Batches`, `Chain` and
`MergeGate` count commits; `Workspace` has the trees behind them. `Batches` is composed with its
abstraction `WorkLine` by a refinement mapping; the others are not composed by TLC,
since each pair already exceeds what a run can hold.

### Batches

A state is one moment between two transactions. `status`, `port`, `tree`,
`head`, `version`, `approvedAt`, `priority`, `delivered` are columns; `git` is the
length of the batch's branch; `opened` is the committed `tick:batch_start` sessions
that `tick_batch_start` looks for; `collided` is what `rests_on_a_collision` finds;
`tickets` says whether an item has none, some outside a live batch, or none outside.
`cleared` is the head at which the gates are open, and `Gate` opens and closes it at
will: `MergeGate` looks inside.

`RoleTurn`, `CancelTurn`, `PreemptTurn` and `MergeTurn` are the order of
`loop.step`: cancellations before preemptions before merges before any role. One
action is one handler with all it calls, `lifecycle.start` with the wake it is followed
by (`BatchStart`). A kill is the parameter `last`, the last statement that took effect.

The Developer's session is not one step: `BatchStart` or `DeveloperWakes` opens it
(`session`), each `Commits` is a `code.commit`, which git has at once, and `SessionEnds`
commits its rows or loses them. Between those anything else may happen: other roles'
sessions, which the frontier woke long before they commit and which therefore ask for no
turn; rulings, since `cli.cmd_sign` lands them from a process of its own and
`cockpit/tui.py:982` starts a second `loop.run` without asking whether one drives;
`Interrupt`; and the scheduler's own acts, by that second loop. `claims` keeps the
Developer's sessions apart (`NoSession`). What stays one step is the frontier with the
first write of the handler it chose: a ruling landing in between is not modelled, so
where a property says "in that very state" it means the state the frontier read.

`Boot` is an action that may or may not be taken: `boot.boot` reconciles
`head_commit` to git, and the drivers (`cockpit/tui.py`, `tools/talk.py`,
`tools/onboard_run.py`) do not call it on a database that already exists.

Batch ids are naturals because `ORDER BY id` and `schedule_order` both mean their
order: nothing under `src/` writes `batch_dep_facts`. The gates other than those of
the merge, and the text the roles exchange, are left out.

### WorkLine and the refinement

The mapping `Line` reads pending and deferred batches as the queue, the running ones
as the desk, and an approval of the current version as the licence.
`KeepsTheLine == Line!Spec` says that every step of `Batches` is a step of `WorkLine`
or a stutter: nothing is taken up, or finished, without its licence standing in that
very state (which the frontier read), and nothing is dropped while it stands.

### MergeGate

One batch with its files and tests. `tip` is git, `head` the database's idea of it,
`dirty` what lies uncommitted, `carried` the files that differ from the base. `run[t]`
is the latest run of a test: the commit and the encoding it was of. `verdict` and
`finding` are per commit (the worst finding; the Architect names the rows and may take
an old one along). The review gate `held` is a switch. `lifecycle.mergeable` and ten
predicates are operators of the same name in capitals; a role that has asked a question
is on the frontier through the message it waits for, which this module leaves out. So
are the checks each door makes of the words it is given, and criteria that change while
their batch runs.

What the batch is expected to touch is `touch`, a set of grains (paths and symbols, each
name with its kind); a grain that is a place covers files (`Covers`). `Unforeseen` is
`divergence.stray_paths`: what no predicted place covers, and nothing where no place is
predicted. A stray the Architect foresees joins `touch` (`JudgeTouch`), which is how a
file nobody predicted may come to need a review; `Annotate` is `batches.annotate`.
`rules` is the register of constraints, each with the grains it binds; `Amend` rewrites
it at any moment, since surveys, `model.amend` and the refresh of constraint zero do not
wait for a batch. A binding counts as one that resolves: nothing under `src/` clears
`constraint_bindings.resolves`. `NeedsReview` is `needs_structural_review`, where a
constraint that binds nothing is global: once every area is read, constraint zero keeps
its row with no bindings (`onboarding/boot.py:247`) and every batch is due a review
(`lifecycle.py:323`). `MayFind` is what `findings.find` accepts: a violation is of a
constraint other than zero, and of a changed file or a bare symbol.

### Chain

Rows and the predicates that read them. `ticket`, `criterion`, `batch`, `test` are the
tables with the columns that say whose a row is; `run` and `judged` are the latest run
of a test and the commit the Critic last passed; `question` is the Tester's question
about a criterion, through its answer, its unresolved state and the one repair the
Terminologist may make. The bands are `TrafficBand` to `StartBand`, in the order of
`all_wakes`. A door is an action whose guard is its first refusal: `Slice` with the
derived id `<<id, item>>`, `Specify`, `Group`, `Encode` with the path it is given or the
next free one.

The call a wake asks for is free of charge and made in a canonical order of ids; a call
nobody asked for costs one `spare`. Sessions make one call, slicing and grouping apart,
because the doors read staged rows like committed ones. Surfaces, near-duplicate
wording, contests, priorities, deferrals, failing verdicts and findings are left out
(`Batches` and `MergeGate` have them).

### Dispatch

`Batches` and `MergeGate` assume that what is due is dispatched; this one counts. A tick
is a key (role, kind, refs), an element of `Work`, whose predicate holds when it is in
`due`; the report of abandoned work is keyed by the payload it names, so there is one
`Report` for each set of subjects. A message is its edge (`from -> to : verb`), with
its own attempts and the edges of its causes (`walk`). `tries`, `gone` and `told` are
the columns of `tick_attempts`; `claims` is the table.

`frontier` writes before it answers, so the operators `GoneNow`, `OpenNow`, `DeadNow`
and `TriesNow` are the tables after `quarantine_overrun`, `quarantine_looping` and
`quarantine_stalled`, and every action of the loop starts from them. `Chores`, `Tips`
and `Ticks` are what is left to choose from, in that order. A session commits, fails
or is killed (`Session`); what it writes is a set of subjects (`receipts`), which is
what `_lift_quarantines` reads. It compares them with the key's text by `LIKE`, so a row
lifts what is about it and also what merely looks like it, a row `tip` a tick about
`tip_percent`; `Matches` is the first with `Like`, a constant, for the second. `World` is
whatever else changes what is due, `Say` the words of the principal, `Boot` the reaping
nothing in the loop does. The scheduler's own acts may make other wakes due, and so may
`lifecycle.start`, which stands although the session after it fails (`Starts`, `Begun`);
`stirred` remembers that the last step did.

One open message per edge, and one message kept per session, are bounds of the model.
Tips that are harvested instead of delivered, messages to the principal, checkpointed
sessions, `run_state` and the barren guard of `loop.run` are left out.

### Inquiry

`mail` is the messages in the order of their `seq`, `status` the one column that
changes. `Grant` is what the `.tools` files of the roles' modes offer, as
`<<role, mode, verb, to>>`; a session sends one message of its mode's, a fan-out to the
owners, or nothing. `Tips` is `open_tips` with the reports and answers that wait for
their siblings; `Climbs` is the ladder of `predicates.unresolved`, `Repairs` the
criterion repair it cedes to, `Harvests` is `round_close`. `Committed` is
`session_commit`'s blocks in their order, one operator each: what is staged, the sweep
of a thread somebody else spoke in, the trigger, the composed round, what reached the
principal, a wall, and last what an owner disowned.

`quiet` is history: the threads where a session had nothing to say, or that were given
up. The properties that ask where a question went say "or the thread is quiet", since
the code lets a session end in silence. One loop runs, a session sends one kind of
message, and the onboarding's hold on messages is left out.

### Session

One action is one reply of the model, one call, or one of the loop's own steps. `held`
is the calls behind a read whose answer is not in yet; a reply that ends without
revising them stands by them. `told` holds the reminders, each given once; `refused`
counts the turns a refusal was repeated in. What a door decides of the words it is given
is free; which calls exist, and which replies `answers_given` counts as an answer to the
principal, is not.

### Seat

Pages, replies, rulings and readings of one principal at several consoles. A ruling at a
console (`Sign`) and the Liaison's reading of typed words (`ApplyRuling`; `readings` land
one by one after the session has committed, `applying` says the loop is at it) both go
through `land`, whose statements are each committed by themselves. `landing` holds how far
every process has come: the page closes if it is open (`Claims`), each open assumption of
the ruling is closed in the ledger and, overruled, puts its item among the rows to write
(`ClosesEntry`), each item is written (`WritesItem`), the verdict goes out
(`SendsVerdict`, which fails when another process has taken the id meanwhile,
`principal.py:635` against `:726`), and the readings of the page are marked (`Done`).
Everything else goes on between them, and `Killed` leaves any prefix; `cut` and `owed`
are histories, of the pages whose landing was killed and of the overruled assumptions
whose item is not contested yet. Joined in one step: the select, the decision and the
ledger of one assumption; the verdict with its `config` rows, which no property reads; an
id, its row and the reading for words typed at a page or a question. A second
`loop.run` (`tui.py:982`) is in `Batches`, not here. `SignoffWakes` and `AgendaWakes` are the ticks
that turn loose ends into pages. `Displayed` tells the cockpit, which marks a reply
shown, from the command line, which does not.

### Glossary

One word: a row of the whole program and one per area. `Target` is the place
`glossary.amend` writes to, with its rule for a second area; `Collision` is
`predicates.term_collision`; a collision session composes, merges (`glossary.same`),
puts the senses to the principal or leaves them; `Rule` is the answer and `Unaddressed`
what is parked when the answer did not speak of a row. `rests` is the view
`term_provenance` as a rank. Named senses, spelling kin and the version cascade of
`core/divergence.py` are left out.

### Onboarding

A tick's key is its phase, role and subject. `Phases` is the set of phases a run performs,
taken in the code's order; `Phase` is computed from the rows, as `onboarding_phase` does. A session takes note of the area's hash when it is woken and
its record carries that one. The order of subjects within a phase is one fixed choice;
only areas in `Moving` change.

What a session has read decides what its doors take. `Pushed` is what the working set
shows before the first turn, by phase (`AreaView` is `code.area`, `FrontView`
`code.front`, `TermView` `code.concordance`, `ProseView` `code.prose`, `BoundaryView`
`code.boundary`, `ClaimView` `challenge.load`; `code.tree` and `code.gaps` open no
file); `Openings` adds what it opens with `code.source`. A session's deeds (`Deeds`: what
it opened, what it wrote of the artefact it owes, how often it attested and as what) are
folded into its commit, `Ends`. `Legal` is what the writing doors let through: a word of
an area is one that something read says (`Says`), a constraint has its text and binds an
opened file (`Constrains`, `Binds`), and `problem.assert` and `ledger.log` take an empty
text (`MayBeBlank`). `Records` is `surveys.attest` with its two refusals that are said
once, its title rule and its evidence (`Evidenced`), or the Critic's verdict, or the
record derived from the frame's rulings; `Outcome` is what it derives from the writes.
Whatever a session writes, the ids of its rows may match the keys of ticks given up: an
area that was described, a term, an item, or what merely looks like one. Such a row
revives those ticks, the session's own excepted (`Names`, `Revived`). The files of a budget, the wording of a view, the ledger rows of
`reconcile` and `blindspots` and what a reading is worth are left out.

### Workspace

A tree gives every path its text, and of a text only what the doors read of it: what it
defines and with which source, whether it has a main block, what it reaches outside the
project, what it imports, and its faults (one for each check that looks at the text
alone). `main` and `log` are the two branches as sequences of trees, `wt` the files of
the worktree, `index` what `code_index` knows of them, which is nothing of the paths the
indexer passes over (`Unindexed`: `build`, `dist`, `target`, lockfiles, minified names,
files over a megabyte, tracked or not; the path is taken to stay on one side); `tests`
and `own` are the rows of the Tester and the one that moves among them, `claimed` and
`slipped` remember the paths it has had and the files an empty write has taken out
though the index knew them. None of the files is in the database: `Fail` and `Boot`
leave them as they are.

`CodeWrite` is `code.write` with its refusals in the order of the code, one operator for
each (`Reads`, `NoCopy`, `Fenced`, `StaysEntry`, `Collects`, `Varies`,
`KeepsDefinitions`, `KeepsUnnamed`, `NoCycle`, `NewIsWanted`); `TakeOut` is the empty
write, which resolves the path it is sent and asks the index for it as it was spelt
(`InTree`), `Commit` is `code.commit` with `worktrees.commit`, `Land` the session's commit
with the refresh of the index. `Start` and `Resume` are the two halves of
`worktrees.create` with `harness.inherit`, `Harness` is `harness.materialise`, and
`MergeClean` and `MergeConflicts` are `lifecycle.merge` with `worktrees.integrate`. git's
merge is taken by definition, and may conflict wherever a file was changed both ways.
`OtherMerges` is another batch's delivery, a removal included.

Over-approximated: what a main block that is added calls, and every refresh, which may
fail. A constant: the paths refused for the path alone (`Misplaced`). Left out: spans,
since the doors read the merged text; a second spelling in a write that has a text, whose
doors read the file it resolves to and compare names with other files; and other sessions
while a Developer works.

### Faulty variants

Each module has operators marked *Faulty*, the definition below them with one
plausible mistake (a kept run, a released range, a swapped order). They take no part
in the specification. `PROJECT.json` lists, for each property, the variant that
breaks it.

## 3. The runs

| run | instance | shows |
|---|---|---|
| `batches` | two items, three batches, two versions, priorities 0 and 1 | `TypeOK`, `OneRunning`, `RangesDisjoint`, `OneOpenBatch`, `KeepsTheLine`, `MergesApproved`, `WorkStopsAtRevocation` through preemption, conflict, kill, restart, revocation, regrouping and a second delivery, with the Developer's session open while others write |
| `gate` | two files, a constraint that may bind one, a prediction that may name either or none, a criterion's test and an inherited one, two commits, two encodings, cap 2 | `NeverStalls`, `MergesTested`, `NewHeadIsUnjudged` |
| `chain` | two items and the account of the code, three batches, two versions, one spare call | `WorkKeepsItsPlace`, `OneTestPerFile`, `MergesOnItsOwnTests`, and under fairness `ChainDelivers` |
| `dispatch_ticks` | a survey that is skipped once abandoned, failing tests forgotten at a new head, a chore of the scheduler, the principal's words, a row whose id looks like another's; tick cap 2, message cap 1 | `TypeOK`, `AbandonmentHolds` |
| `dispatch_talk` | a question and a reply between two roles, a start that wakes one of them, the preemption that undoes it; caps 2, `loop_cap` 1, walks of 3 | `ComesToRest`, `QuestionsEnd` under fairness |
| `inquiry` | six roles, three owners; the principal asks once, or the Tester is blocked; 13 messages | `EachReplyIsNew`, `QuestionComesBack`, `RoundIsOneQuestion`, `ClimbsToSomebodyNew`, `BlockedIsCarried` |
| `session` | the modes converse, survey and tests_failing, sixteen replies, five turns | `TypeOK`, `OneAnswer` |
| `seat` | one item, one batch, two consoles of the cockpit and the loop, six messages, one landing killed | `OneVerdict`, `LooseEndsAreCarried`, `ReadingHasItsPage`, `OverruledContests` |
| `glossary` | one area and the root, two facts, one criterion | `EverySenseIsPut`, `ReadingsAreKept`, `AdoptedWasPut` |
| `onboarding` | an area of code that changes, one of prose; the phases frame, survey, challenge | `ObTypeOK`, `SurveysAreOfTheTree`, `FindingIsOnFile`, `FrontierDrains` |
| `workspace` | a program of one file, a module that may be added, a test; two names, two sources; three commits, one merge beside the batch's | `WsTypeOK`, `ProgramStands`, `FenceHolds`, `DeliversTheTest` |
| `onboarding_ends` | one area, all nine phases, attempt cap 1 | violates `OnboardingEnds` |

**Bounds.** Batches: two items are enough for every pairwise property (one running,
disjoint ranges, one open batch) and for a preemption, a third batch for a regrouping
beside it; two versions for a revocation and a redelivery; commit 1 is the base, so two
commits let a head go from none to the base (a reboot) to a commit of the Developer's,
and a branch run ahead of a head. `MCStory` is two stories, two batches that compete
with no word in collision, and one item revoked and regrouped, whose first batch may
collide. In `Dispatch` the caps are the code's, made small: two
attempts are the least with a retry, and a walk of three edges is the shortest on which
a question causes itself. In `Inquiry` thirteen messages are the principal's words, an
ask to each of three owners, a hop each, and the way back; `MCStory` takes the two
stories, the principal's and the Tester's, one at a time, the second up to nine
messages. In `Chain` `MCStory` is the sum of three stories: an item with all kinds of
words and a spare call; the item amended under way; two items sharing batches, with one
spare call only when each has one ticket; two criteria of a ticket and three
tickets are the least with a collision of files and a split of an item. In `Seat` two
consoles, one assumption per page and two versions give a stale page, a double ruling
and a page of two; `MCStory` keeps two readings, two landings under way and one killed,
and gives the sixth message to the relay of an answer, which a shorter mail does not reach. In `Glossary` an area and the root are two senses beside the
whole program's, and each counter is one. In `Onboarding` a cap of one attempt gives a
tick up the first time it fails; a program, the schema it imports and the README are the
least with an area that has an import and one that is prose; one content more makes a
record stale; the claims cite nothing and a file that is gone beside one that is there.
The ids of its rows match the area or the challenged claim (`Named`), so the two surveys
of the area can revive each other, as often as they like: `FrontierDrains` and
`OnboardingEnds` are therefore about what happens once no row revives anything. In `Workspace` three commits are the project's, one to
restore and one that would restore it; the Tester may choose the module's path for the
test, and the texts offered are the change asked for, a rewrite with it, the change
alone, and the change with each fault; one file of the project is not indexed. `MCStory`
has the removal of what the project had before any test is written, with a commit to
spare and no module added, and everything else where nothing of it is removed. The bounds are the `Max*` constants; where a theorem
states the property it holds for all their values.

Deadlock is checked in the runs in which the system cannot stop (`batches`, `gate`, `workspace`, the
two of `dispatch`); the others say `CHECK_DEADLOCK FALSE` because there is a last
message, edit, call or version, and because a session and a finished onboarding end.

**Fairness** is assumed in the `FairSpec`s alone. In `Dispatch` it is weak fairness of
`Step`: `loop.run` calls `step` until it is quiescent, and a process that is killed is
started again. It rules out a process killed for ever before it has claimed or counted
anything, and nothing else: no session need succeed, no message is preferred.
`ComesToRest` asks about behaviours in which sessions at last write nothing, nobody else
moves and the scheduler's own acts make nothing due; `QuestionsEnd` asks only the second.
The third is needed: a preemption and the start it makes due undo each other, and neither
is counted past the other (`ComesToRestAnyhow`, violated). In `Onboarding` it is weak fairness
of the loop and of the session that runs, which `loop.run` gives in the same way;
sessions may fail or claim nothing. In `Chain` it is weak fairness of the calls the
wakes ask for, of the harness and the merge, and of the principal's ruling on what is
put to them: a session that never makes the call it is woken for is set aside by the
attempt cap, which is `Dispatch`'s subject, and `ChainDelivers` is about the rows, not
about the model's diligence. `Batches` also states a `FairSpec` and `OutrankingRuns`,
which no run checks (section 5).

## 4. What is proved

Eight modules hold machine-checked proofs, for every value of the constants that
satisfies the module's assumption. Every safety property of every passing run is proved.
No proof has a step taken on trust. The type invariants of `MergeGate`, `Inquiry`,
`Seat` and `Glossary` are proved for every value of the constants (`TypeCorrect`), so no
run evaluates them on one.

The assumptions are the modules' own: the shape of the graph of roles and of ids, and
bounds that are naturals. The ones worth knowing: batch ids are finitely many naturals
(`BatchesAssumption`); the batch has a criterion, which `predicates.grouping` sees to,
no inherited test is a criterion's, and a file's path covers it (`MergeGateAssumption`);
caps are positive (`DispatchAssumption`); an id a Vision Keeper invents is not spelled
like one `tickets.slice` derives (`ChainAssumption`: `api.py:2995` does not look whose a
derived id is); the Liaison is one of the roles (`InquiryAssumption`); areas and files
are finitely many and the attempt cap is positive (`OnboardingAssumption`); no module is
a path pytest collects, and what the doors are offered are texts (`WorkspaceAssumption`,
for any number of files, names and texts). Three theorems say what else they need:
`LooseEndsCarried` that the seat is the cockpit (`Displayed`), because at the command
line it is false; `BlockedGetsThrough` that the three owners of the ladder are among the
roles, which is so in the code's `graph.json`; and `SurveysVouch` that the surveys are
among the phases a run performs, which in the code they always are.

*Batches.* `TypeOK` is inductive; the interesting step is that `Reserve` finds a
range, which is a pigeonhole (`SlotLeft`) and the existence of a least element
(`LeastOfNaturals`). `StatusMoves` then says that a step leaves every status alone or
makes one of five moves (`Takes`, `Groups`, `Defers`, `Delivers`, `Drops`), each with
what is known when it is made; that a merged batch is approved is shown there, from
the order of the frontier. `PortMoves` says the same of ranges. `OnlyForTheEnded` says
that at a wake a batch either stands approved or has ended, and `EndsStay` that it then
never runs again, which is what `WorkStopsAtRevocation` needs of a session. Each property is
inductive on top of these, and each move is the action of `WorkLine` of its kind, so
the refinement `SchedulerKeepsTheLine` follows.

*MergeGate.* The inductive invariant `IInv` adds two facts to the types.
`FutureUnjudged`: no verdict or finding is of a commit beyond the head; without it a
reboot could move the head onto judged ground. `RunsOfBody`: a kept run is of the
kept encoding; without it a green run could be of a body that is gone. `NeverStalls`
needs the types only: `OfferedOrHeld` is the case analysis that, when no predicate
offers the batch, every question of `mergeable` is answered yes.

*Dispatch.* `IInv` adds `GoneAtCap` to the types: what is abandoned is exactly at its
cap. That keeps it from being offered, hence from being counted again, and the lift
resets both columns at once. `Settled` says what the frontier's writes leave; every
end of a session is then one lemma (`CommitsInv`, `NothingLandsInv`), and the actions
are instances of `SessionInv`. `AbandonmentIsKept` is the conjunct `Holds` carried
through the same lemmas; it is about what the lift matches, not what a tick is about.

*Chain.* `IInv` adds four facts. `NoItemNoTicket` and `DerivedIsOwn` make
`WorkKeepsItsPlace` hold: the id a second slicing derives, where it is a ticket, is a
ticket of the item it names, so no door can move one. `HeadsFollow` and `JudgedStands`
carry a verdict to its merge: what the Critic passed at the head still has its tests,
run there and none red, because `RoleTurn` is false while a merge is due, so between the
verdict and the merge no role can encode, commit or slice. `NextSteps` is the step that
folds the four bands of the frontier into one. `OneTestPerFile` is inductive by itself:
both the path a test gets and the one it is moved to are free in its batch.

*Glossary.* `TypeOK` is inductive. `ReadingsAreKept` needs `AreaRows`: the row named
after an area is only ever that area's reading, on file and in what a session has staged;
without the second half a session that began before the row existed could commit over
it. `EverySenseIsPut` needs `RuledWasPut`: what is ruled, and every letter on its way to
a ruling, names rows that were put. `AdoptedWasPut` adds that a relay approves only rows
the ruling names: a session may name any row on file for adoption.

*Session.* `TypeOK` is not inductive: a refusal is counted at the end of its turn, so
`BelowInTurn` says that while calls run no count is past its bound. `OneAnswer` is about
what has landed; `StagedIsOneAnswer` says it of what is staged, whichever calls ran, in a
turn or by standing by.

*Seat.* Every step adds at most one message and answers some (`MailStep`). `Holds` says
what a process knows while it lands a ruling: its page is answered, no verdict of it is
out while rows are left, and the reading it lands is the oldest open one; `Alone` that no
two land rulings of one page, since only one found it open. With `Closes` (a verdict has
answered its page) and `StaysAnswered` (nothing opens a message again) a page is ruled on
once. `Pledges` says where an overruled assumption stands: its landing was killed, or the
item is among the rows that landing has still to contest, and stays so whatever the other
processes write; that is why a verdict never goes out with one owed. For
`ReadingHasItsPage`, `NoPageCloses` says no session of a role closes a page and
`HandsStay` that a page being landed goes on to be, was killed, or has its reading marked.
`LooseEndsAreCarried` is the case analysis of the two ticks: whatever they do not offer is
behind a page or a note, and a note is in front of the principal. It asks for no landing
to be finished, so it holds after a kill at any statement.

*Inquiry.* The largest. What a session can send is read off `Grant` (`Grants`, `Modes`,
`TradeGrants`), what a commit does to the statuses off its eight blocks (`CommitShape`);
every action is then one `Step(src, out)`, a list of named facts about what was sent and
what became of the old rows, and `StepKeeps` shows that such a step keeps `IInv`. Its
parts: `Shape` (a message is in its cause's thread; who sends what to whom; words not
taken up are alone in their thread), `OneTurn` (the same words are passed on or confirmed,
never both), `AllSpent` (what a reply was composed of is answered), `Inquest` (a thread of
an ask holds only the inquiry until the Liaison has spoken to the principal, and until then
something in it is awaited), `GivenUp`, `Trades` (a worker only asks; a question or a
challenge is raised in a broadcast or on a worker's thread) and `Errands` (a worker's
thread has one open message, and once the Liaison has spoken in it nothing is left
unresolved). `QuestionComesBack` follows because what is awaited wakes somebody
(`AwaitedWakes`: an open ask or the latest open answer is a tip; an unresolved ask has a
rung), so at rest nothing is awaited. `BlockedIsCarried` follows because an unresolved
question outside a broadcast is on a worker's thread in which the Liaison has not
spoken, and the Liaison is the last rung of its ladder (`WorkerHasARung`).

*Onboarding.* `ObInv` adds to the types: what a record says is what its session saw
(`RecordedAsRead`, since only the session that read an area writes its record);
constraint zero covers whatever is due to it (`ZeroIsBounded`); a rebinding that was
given up was of areas that stay read, so the same key is never due again
(`GivenUpIsRead`; the areas that change are the difficulty); what was deferred was on a
page until the lazy election (`DealtWasShown`). `FindingIsOnFile` is inductive with
these: a row on file is never taken away, and a record that something was found is made
only by a session that lands what it owes (`ResultsAreOfTheirKey`). `SurveysVouch` reads
it off the order of the phases: a later phase has nothing outstanding before it. Two
results no run lists are proved from the same invariant: `ZeroCoversTheUnread` (once no
binding is left to do, constraint zero binds exactly the areas with code nobody has
surveyed) and `BaselinePutOnce` (no page holds a row that was on one before).

*Workspace.* A definition is lost, or a reach let in, by a text that one door passed and
another compared with, so what is inductive is one statement about every text there is,
on both branches and in the worktree: outside the paths the Tester claimed it `Preserves`
the file as it was onboarded (`TextsKept`): it is there, keeps its main block and names,
and reaches out only where the project's branch did. A file the index does not hold may
be taken out, so the argument needs `IndexKnows`: the index, however stale, knows every
file the project was onboarded with, save the `Excused`, which are those the indexer
passes over and those asked for under another spelling; nothing is claimed of them but
that they open no reach. `BranchFromBase` ties a branch to the commits it was made
from, and `RowsAreClaimed` keeps the harness off modules. A write preserves by what its
doors refuse (`AllowedKeeps`), a commit because each of its files is an old text or the
worktree's (`TextsStep`), and a merge because what all three texts have the merged one
has (`MergeKeeps`). `ProgramStands` and `FenceHolds` are instances. `DeliversTheTest` is
about the merge alone: the rows are committed before the branch is integrated
(`BranchDelivers`), and a path the base did not have is taken from the branch.

Only model-checked:

* liveness under fairness (`ComesToRest`, `QuestionsEnd`, `ChainDelivers`,
  `FrontierDrains`), which is beyond the prover;
* that the constants of the runs are real instances (the assumptions are evaluated on
  every run) and that the faulty variants break the properties.

## 5. Where code and comments disagree

One run is a counterexample, `onboarding_ends`: an area both survey roles gave up stays
outstanding for the first of them, since `scheduler.py:842` keeps one role per area, and
no later phase comes. The modelling showed more; the properties that state these are kept
in the modules where they are named, without a run.

*Batches, Dispatch, MergeGate.*
* Revocation does not stop the session it finds at work: `code.commit` asks for neither
  the approval nor the batch's status, so a contest landed at a console meanwhile is
  followed by commits until the session ends (`WorkStopsAtOnce`, violated; `api.py:8532`).
* `predicates.grouping` and `batches.group` do not look at the approval (`api.py:3707`
  speaks of an approved item).
* A merge killed after its first statement leaves no delivery record, so the item's next
  version is never sliced (`lifecycle.py:228`). A start killed half way leaves a running
  batch whose start nobody owes (`StartIsOwed`, `loop.py:216`).
* Preemption and the next start choose differently and undo each other
  (`OutrankingRuns`, `scheduler.py:346`; `ComesToRestAnyhow`). The attempt bound does not
  rescue it: preempting is a `do:` wake, which is not counted, and while the first batch
  runs its start is not produced, so `quarantine_stalled` drops the count each time. A
  count that survived would not help either: the batch that keeps being preempted would be
  quarantined under its own key and the outranking batch still not offered. `test_steering.py:62` passes because the
  outranking batch of that test also has the lower id.
* An open stray on an earlier commit does not hold the merge (`MistakeHolds`,
  `schema.sql:332`); a rebooted head gets no stray rows and may merge what nobody judged
  (`MergesWhatWasJudged`); at the cap of violated commits nobody is offered the batch
  (`ExhaustedIsOffered`, `predicates.py:1188`).
* `verdict_failed` fires although a newer commit exists (`predicates.py:1145`);
  `tests_failing` wakes the Developer for an abandoned batch (`loop.py:287`).
* `_lift_quarantines` says it revives a tick when a session writes "a row its refs name";
  its patterns also match ids that begin alike, and `_` matches any letter (`db.py:486`,
  `AbandonmentHoldsByName`).
* The report of what was abandoned is itself abandoned once, and silences the next
  (`AbandonmentIsSaid`, `predicates.py:1365`); a session that writes its subject on its
  last attempt is still quarantined (`DrainedIsForgotten`, `db.py:487`); `edge_repeats`
  reads 40 causes, too few for a ring of four edges to pass a `loop_cap` of 10
  (`scheduler.py:1356`); a `do:` wake is not counted although `loop.py:171` says so.

*Chain.*
* The tests of a revoked batch keep its id. When its tickets are grouped again their
  criteria "have a test" (`predicates.py:698`), so the Tester is not woken for the new
  batch: it stalls in silence, or merges on inherited tests alone, which
  `lifecycle.py:443` and `predicates.py:1099` mean to exclude. `Astray` sets it aside.
* A batch may hold tickets of two items, and one session of grouping may put a ticket in
  two live batches (`api.py:3681`, where "a batch delivers exactly one approved item");
  the second item is then never recorded as delivered.
* An item amended before its delivery is rebuilt from its old tickets; the slicing wake
  goes on firing until the ticket is grouped; a reworded criterion's test is not encoded
  again; the grouping wake is offered for an item whose batch the door will not accept.
* A derived ticket id is cut to 64 characters and may equal the one it is derived from.

*Inquiry.* A broadcast may close without a harvest (`RoundIsHarvested`,
`scheduler.py:207`: any clarify of the Liaison's in the thread counts as one), and a
question may go quiet without anything sent to the principal (`UnresolvedReachesSomebody`,
`predicates.py:951`: an owner's silence ends the thread).

*Seat.*
* A page's approval lands on the item as it is, not as it was shown
  (`RulesWhatWasShown`, violated; `principal.py:574`).
* The statements of `land` are one commit each. Killed after the page has closed, the
  ruling is lost: nothing puts that page again (`RulingIsHeard`, violated), and
  `apply_rulings` marks the reading landed the next time, because its page is closed
  (`principal.py:797`), where the docstring calls such a ruling `stale`. Killed between the
  ledger and the items, an overruled assumption is resolved with its item untouched
  (`OverruledIsHeard`, violated; `principal.py:688` and `:713`): an item left approved
  wakes nobody, and the assumption is not asked again. The comment at `principal.py:646`
  has an entry resolved "in the same commit".
* `land` takes its message id before the ledger is written and inserts afterwards, so a
  session that commits in between takes the id and the ruling stops at the insert
  (`principal.py:635`, `:726`), with the items already moved.
* At the command line a reply is never marked shown, so what it held back is on nobody's
  desk (`principal.py:154`).

*Session.* A session may end on its turn bound with calls still held (`HeldIsDecided`,
`runner.py:1924`), and a malformed call that is stood by ends the session with everything
it had staged (`ToolErrorIsNotFatal`, `runner.py:1935`).

*Glossary.* Two opposite `glossary.same` calls leave no live sense (`WordKeepsASense`,
`api.py:1838`); amending a superseded row leaves it superseded (`api.py:1543`);
`synthesise` does not repoint the refs of criteria, and a session that merges twice
(`same(a, b)`, then `same(c, a)`) leaves them in the row it superseded second, since the
door reads the rows on file (`api.py:1933`); a criterion so stranded is no longer held by
`rests_on_a_collision`, which filters only while `term_collision` produces a wake.

*Onboarding.* `constraint_zero` asks for all areas while the refresh binds the coded ones
(`predicates.py:1410`); any row named after an area revives what was given up on it, by
whichever role, so two surveys that write such rows and never close can revive each other
for ever (`FrontierDrainsAnyhow`, violated; `db.py:472`);
`surveys.attest` refuses a row with no text, which `problem.assert` has staged all the
same; `boot.boot` is called by no driver, only `init_db`.

*Workspace.*
* A file the batch added is in the index once its commit has landed, so an empty write
  of it is refused from then on (`AddedCanGo`), where `api.py:7777` says "an empty write
  is a removal of a file this batch added". "And nothing else" does not hold either
  (`OnlyAddedGoes`, violated): the path is resolved (`api.py:7769`) and the index asked for
  the words that were sent (`api.py:7784`), so `./f` takes out an `f` of the project; a
  tracked file the indexer passes over (`indexer.py:31`, `:392`) goes by its own path; and
  where a refresh failed, so does a file another batch delivered.
* `code.read` and `code.diff` compare with `HEAD~1`: with two commits the Critic sees the
  last, where `api.py:7699` says "The batch diff. Critic's entire view".
* The merge commits the tests with whatever else the worktree holds, so what a Developer
  wrote and never committed is delivered (`lifecycle.py:204`).
* A test that is given another path leaves its old file in the worktree, and
  `tests.encode` takes any path that ends in `.py`, a module's included; a module so
  overwritten is outside `ProgramStands` (`claimed`).
* A definition nobody uses may be dropped and written again with another source, which
  `KeepsUnnamed` would have refused in one write.

## 6. What is not modelled, and the plan

Left for later, in this order:

1. Processes: `environments.spawn`, teardown and reaping (nothing under `src/` but tests
   calls `spawn`).
2. `Dispatch` composed with `Batches`, through the keys of `tick:batch_start` and
   `tick:tests_failing`; checkpointed claims, `run_state`, the barren guard.
3. An abstract `Line` of messages that `Inquiry` implements.

Left out for good: the indexer, lexicon and validators (text), the cockpit (screens),
the backends (language models; a session's choice is nondeterministic here), the
isolation of the sandbox and project setup (I/O), the role graph (a table with its own
checks), `core/divergence.py`'s version cascade beyond the filters it feeds, and
`sweep_checkpoints`, which nothing calls.
