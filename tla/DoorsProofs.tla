---------------------------- MODULE DoorsProofs -----------------------------
(***************************************************************************)
(* Theorems about the two components whose doors stand between a model and *)
(* the project: Session (a reply's calls, refused or staged) and Workspace *)
(* (the writes of a batch, refused or in its worktree; names of its own    *)
(* begin with Ws). They share no state: each half of this module is about  *)
(* one.                                                                    *)
(***************************************************************************)
EXTENDS Session, Workspace, FiniteSetTheorems, TLAPS

(***************************************************************************)
(* Session, for every set of plans and every bound. A refusal is counted   *)
(* when its turn ends, and the loop asks again only while no count is past *)
(* its bound; so TypeOK needs to know that within a turn none is.          *)
(* OneAnswer needs that what is staged is of one answer, whichever calls   *)
(* ran, in a turn or by standing by.                                       *)
(***************************************************************************)
\* While a reply's calls run no refusal is past its bound.
BelowInTurn == phase = "turn" => \A c \in Act : refused[c] <= MaxSame

\* What is staged is of one answer, and so is what has landed.
StagedIsOneAnswer ==
    /\ \E a : Answers(Done) \subseteq {a}
    /\ \E a : Answers(landed) \subseteq {a}

IInv == TypeOK /\ BelowInTurn /\ StagedIsOneAnswer

-----------------------------------------------------------------------------
(***************************************************************************)
(* Types.                                                                  *)
(***************************************************************************)

LEMMA ReplyType ==
    ASSUME NEW r \in Reply
    PROVE  r.calls \in Seq(Call) /\ r.says \in Prose
<1>1. <<>> \in Seq(Call)
    OBVIOUS
<1>2. CASE r \in [calls : Plan, says : {"done"}]
    BY <1>2, SessionAssumption DEF Prose
<1>3. CASE r \in [calls : {<<>>}, says : Prose]
    BY <1>1, <1>3
<1> QED
    BY <1>2, <1>3 DEF Reply

LEMMA TypeInit == Init => TypeOK /\ BelowInTurn
<1>1. Silent \in Reply
    BY DEF Silent, Reply, Prose
<1>2. MaxSame \in Nat /\ MaxIterations \in Nat
    BY SessionAssumption
<1>3. <<>> \in Seq(Call) /\ <<>> \in Seq(Act)
    OBVIOUS
<1>4. <<Silent, Silent>> \in Reply \X Reply
    BY <1>1
<1>5. [c \in Act |-> 0] \in [Act -> 0 .. MaxSame + 1]
    BY <1>2
<1>6. 0 \in 0 .. MaxIterations
    BY <1>2
<1> QED
    BY <1>3, <1>4, <1>5, <1>6 DEF Init, TypeOK, BelowInTurn

\* The reminder a reply is due is one of them.
LEMMA ReminderType ==
    ASSUME NEW r \in Reply, Reminders(r) # {}
    PROVE  Reminder(r) \in {"cut", "fence", "intent", "noop"}
    BY DEF Reminders, Reminder

LEMMA TypeReplies ==
    ASSUME TypeOK, NEW r \in Reply, Replies(r)
    PROVE  TypeOK' /\ BelowInTurn'
<1>1. iteration' \in 0 .. MaxIterations
    BY SessionAssumption DEF Replies, TypeOK
<1>2. recent' \in Reply \X Reply /\ plan' \in Seq(Call)
    BY ReplyType DEF Replies, TypeOK
<1>3. r.calls \in Seq(Call)
    BY ReplyType
<1>4. /\ phase' \in {"asking", "turn", "standby", "ending"}
      /\ pending' \in Seq(Call) /\ held' \in Seq(Call)
      /\ told' \subseteq {"cut", "fence", "intent", "noop", "stoodby"}
  <2>1. CASE Reminders(r) # {}
    <3>1. told' = told \cup {Reminder(r)} /\ UNCHANGED <<phase, pending, held>>
      BY <2>1 DEF Replies, Reminders
    <3> QED
      BY <2>1, <3>1, ReminderType DEF TypeOK, Replies
  <2>2. CASE Reminders(r) = {} /\ r.calls = <<>>
    <3>1. phase' = "standby" /\ pending' = held /\ UNCHANGED <<told, held>>
      BY <2>2 DEF Replies
    <3> QED
      BY <3>1 DEF TypeOK
  <2>3. CASE Reminders(r) = {} /\ r.calls # <<>> /\ Repeats(r)
    <3>1. phase' = "ending" /\ UNCHANGED <<told, pending, held>>
      BY <2>3 DEF Replies
    <3> QED
      BY <3>1 DEF TypeOK
  <2>4. CASE Reminders(r) = {} /\ r.calls # <<>> /\ ~Repeats(r)
    <3>1. phase' = "turn" /\ pending' = r.calls /\ held' = <<>> /\ told' = told
      BY <2>4 DEF Replies, Superseded
    <3> QED
      BY <1>3, <3>1 DEF TypeOK
  <2> QED
    BY <2>1, <2>2, <2>3, <2>4
<1>5. BelowInTurn'
    BY DEF Replies, BelowInTurn
<1> QED
    BY <1>1, <1>2, <1>4, <1>5 DEF Replies, TypeOK, Sandbox

\* One call through the sandbox.
LEMMA RunsType ==
    ASSUME TypeOK, NEW c \in Call, Runs(c)
    PROVE  intake' \in Claim \cup {"none"} /\ staged' \in Seq(Act) /\ refusing' \subseteq Act
<1>1. CASE c \in Read /\ UNCHANGED <<intake, staged, refusing>>
    BY <1>1 DEF TypeOK
<1>2. CASE c \in Claim /\ intake' = c /\ UNCHANGED <<staged, refusing>>
    BY <1>2 DEF TypeOK
<1>3. CASE c \in Act /\ staged' = Append(staged, c) /\ UNCHANGED <<intake, refusing>>
    BY <1>3 DEF TypeOK
<1>4. CASE c \in Act /\ refusing' = refusing \cup {c} /\ UNCHANGED <<intake, staged>>
    BY <1>4 DEF TypeOK
<1> QED
    BY <1>1, <1>2, <1>3, <1>4 DEF Runs

LEMMA TypeRunsCall ==
    ASSUME TypeOK, BelowInTurn, RunsCall
    PROVE  TypeOK' /\ BelowInTurn'
<1>1. Next1 \in Call /\ Tail(pending) \in Seq(Call)
    BY DEF RunsCall, Next1, TypeOK
<1>2. /\ pending' \in Seq(Call) /\ held' \in Seq(Call) /\ fresh' \in BOOLEAN /\ ran' \subseteq Read
      /\ intake' \in Claim \cup {"none"} /\ staged' \in Seq(Act) /\ refusing' \subseteq Act
  <2>1. CASE Next1 = Broken /\ pending' = Tail(pending) /\ UNCHANGED <<held, fresh, Sandbox, refusing>>
    BY <1>1, <2>1 DEF TypeOK, Sandbox
  <2>2. CASE held' = pending /\ pending' = <<>> /\ UNCHANGED <<fresh, Sandbox, refusing>>
    BY <2>2 DEF TypeOK, Sandbox
  <2>3. CASE /\ Runs(Next1) /\ pending' = Tail(pending) /\ UNCHANGED held
             /\ fresh' = (fresh \/ Next1 \in Read \ ran) /\ ran' = ran \cup ({Next1} \cap Read)
    <3>1. fresh' \in BOOLEAN
      BY <2>3
    <3> QED
      BY <1>1, <2>3, <3>1, RunsType DEF TypeOK
  <2> QED
    BY <2>1, <2>2, <2>3 DEF RunsCall
<1> QED
    BY <1>2 DEF RunsCall, TypeOK, BelowInTurn

LEMMA TypeStep == ASSUME TypeOK, BelowInTurn, [Next]_vars PROVE TypeOK' /\ BelowInTurn'
<1>1. ASSUME NEW r \in Reply, Replies(r) PROVE TypeOK' /\ BelowInTurn'
    BY <1>1, TypeReplies
<1>2. CASE BackendFails
    BY <1>2 DEF BackendFails, TypeOK, BelowInTurn, Sandbox, Verdicts
<1>3. CASE RunsCall
    BY <1>3, TypeRunsCall
<1>4. CASE EndsTurn
  <2>1. \A c \in Act : refused[c] \in 0 .. MaxSame + 1 /\ refused[c] <= MaxSame
    BY <1>4 DEF EndsTurn, TypeOK, BelowInTurn
  <2>2. \A c \in Act : refused[c] + 1 \in 0 .. MaxSame + 1
    BY <2>1, SessionAssumption
  <2>3. refused' \in [Act -> 0 .. MaxSame + 1]
    BY <1>4, <2>1, <2>2 DEF EndsTurn, Counted
  <2> QED
    BY <1>4, <2>3 DEF EndsTurn, TypeOK, BelowInTurn, Sandbox
<1>5. CASE RunsOut
    BY <1>5 DEF RunsOut, TypeOK, BelowInTurn, Sandbox, Verdicts
<1>6. CASE StandsBy
  <2>1. Next1 \in Call /\ Tail(pending) \in Seq(Call)
    BY <1>6 DEF StandsBy, Next1, TypeOK
  <2>2. CASE Next1 = Broken
    BY <1>6, <2>1, <2>2 DEF StandsBy, TypeOK, BelowInTurn, Sandbox
  <2>3. CASE Next1 # Broken
    BY <1>6, <2>1, <2>3, RunsType DEF StandsBy, TypeOK, BelowInTurn
  <2> QED
    BY <2>2, <2>3
<1>7. CASE StoodBy
    BY <1>7 DEF StoodBy, TypeOK, BelowInTurn, Sandbox, Verdicts
<1>8. CASE Commits
  <2>1. Kept \subseteq Act
    BY DEF Kept, Done, Range, TypeOK
  <2> QED
    BY <1>8, <2>1 DEF Commits, TypeOK, BelowInTurn, Sandbox, Verdicts
<1>9. CASE UNCHANGED vars
    BY <1>9 DEF vars, TypeOK, BelowInTurn
<1> QED
    BY <1>1, <1>2, <1>3, <1>4, <1>5, <1>6, <1>7, <1>8, <1>9 DEF Next

\* Every counter of the loop stays in its bound.
THEOREM TypeCorrect == Spec => [](TypeOK /\ BelowInTurn)
<1> QED
    BY TypeInit, TypeStep, PTL DEF Spec

-----------------------------------------------------------------------------
(***************************************************************************)
(* One answer.                                                             *)
(***************************************************************************)

\* More calls, more answers.
LEMMA AnswersMonotone ==
    ASSUME NEW A, NEW B, A \subseteq B
    PROVE  Answers(A) \subseteq Answers(B)
    BY DEF Answers

\* A call the sandbox lets through is of the answer given already.
LEMMA OneMoreCall ==
    ASSUME NEW c, ~SecondAnswer(c), \E a : Answers(Done) \subseteq {a}
    PROVE  \E a : Answers(Done \cup {c}) \subseteq {a}
<1> DEFINE said == {"converse", "ask", "confirm", "segment"}
<1>1. CASE c \notin said
  <2>1. Answers(Done \cup {c}) = Answers(Done)
    BY <1>1 DEF Answers
  <2> QED
    BY <2>1
<1>2. CASE c \in said
  <2>1. Answers(Done) \subseteq {Answer(c)}
    BY <1>2 DEF SecondAnswer
  <2>2. Answers(Done \cup {c}) \subseteq Answers(Done) \cup {Answer(c)}
    BY DEF Answers
  <2> QED
    BY <2>1, <2>2
<1> QED
    BY <1>1, <1>2

LEMMA OneAnswerRuns ==
    ASSUME TypeOK, StagedIsOneAnswer, NEW c \in Call, Runs(c), landed' = landed
    PROVE  StagedIsOneAnswer'
<1>1. CASE staged' = staged
    BY <1>1 DEF StagedIsOneAnswer, Done
<1>2. CASE c \in Act /\ ~Shut(c) /\ staged' = Append(staged, c)
  <2>1. Done' = Done \cup {c}
    <3>1. staged \in Seq(Act)
      BY DEF TypeOK
    <3>2. DOMAIN staged' = DOMAIN staged \cup {Len(staged) + 1}
      BY <1>2, <3>1
    <3>3. /\ \A i \in DOMAIN staged : staged'[i] = staged[i]
          /\ staged'[Len(staged) + 1] = c
      BY <1>2, <3>1
    <3> QED
      BY <3>2, <3>3 DEF Done, Range
  <2>2. \E a : Answers(Done') \subseteq {a}
    BY <1>2, <2>1, OneMoreCall DEF Shut, StagedIsOneAnswer
  <2> QED
    BY <2>2 DEF StagedIsOneAnswer
<1> QED
    BY <1>1, <1>2 DEF Runs

LEMMA OneAnswerStep ==
    ASSUME TypeOK, StagedIsOneAnswer, [Next]_vars
    PROVE  StagedIsOneAnswer'
<1>1. CASE UNCHANGED <<staged, landed>>
    BY <1>1 DEF StagedIsOneAnswer, Done
<1>2. CASE RunsCall
  <2>1. Next1 \in Call
    BY <1>2 DEF RunsCall, Next1, TypeOK
  <2> QED
    BY <1>1, <1>2, <2>1, OneAnswerRuns DEF RunsCall, Sandbox
<1>3. CASE StandsBy
  <2>1. Next1 \in Call
    BY <1>3 DEF StandsBy, Next1, TypeOK
  <2> QED
    BY <1>1, <1>3, <2>1, OneAnswerRuns DEF StandsBy, Sandbox
<1>4. CASE Commits
  <2>1. Answers(Kept) \subseteq Answers(Done)
    BY AnswersMonotone DEF Kept
  <2> QED
    BY <1>4, <2>1 DEF Commits, StagedIsOneAnswer, Sandbox, Done
<1> QED
    BY <1>1, <1>2, <1>3, <1>4 DEF Next, Replies, BackendFails, EndsTurn, RunsOut, StoodBy, Sandbox, vars

LEMMA OneAnswerInit == Init => StagedIsOneAnswer
    BY DEF Init, StagedIsOneAnswer, Done, Range, Answers

\* The refusals' bound and the one answer of what is staged, as one invariant.
THEOREM SessionInvariant == Spec => []IInv
    BY OneAnswerInit, OneAnswerStep, TypeCorrect, PTL DEF Spec, IInv

\* What a session commits is chat, an inquiry or work, never two of them.
THEOREM WordsGetOneAnswer == Spec => []OneAnswer
<1>1. Spec => []StagedIsOneAnswer
    BY SessionInvariant, PTL DEF IInv
<1>2. StagedIsOneAnswer => OneAnswer
  <2>1. SUFFICES ASSUME NEW a, Answers(landed) \subseteq {a} PROVE Cardinality(Answers(landed)) <= 1
    BY DEF StagedIsOneAnswer, OneAnswer
  <2>2. Answers(landed) = {} \/ Answers(landed) = {a}
    BY <2>1
  <2> QED
    BY <2>2, FS_EmptySet, FS_Singleton
<1> QED
    BY <1>1, <1>2, PTL

-----------------------------------------------------------------------------
(***************************************************************************)
(* Workspace. What a batch must leave of the program it changes is said of *)
(* every tree and file by file: a text keeps what the text before it kept, *)
(* through the doors, the merge of a branch and the rows a commit checks   *)
(* out. The index has to know every file of the project that the indexer   *)
(* reads, for a file it does not hold may be taken out. Excused is what    *)
(* the property excepts: what no index holds, and what was asked for under *)
(* another spelling than the index has.                                    *)
(***************************************************************************)

\* The branch of a worktree begins with the project's commits it was made from; a
\* batch that has no worktree and is not merged has no branch, and a head is
\* waiting to be written only by a session in a worktree.
BranchFromBase ==
    /\ Len(main) # 0
    /\ made => base \in 1 .. Len(log) /\ \A i \in 1 .. base : log[i] = main[i]
    /\ ~made /\ status # "merged" => log = << >> /\ head = 0
    /\ newHead # 0 => session /\ made

\* The criterion's row is one of the rows, and a module has a row only where the
\* Tester once wrote a test to its path.
RowsAreClaimed ==
    /\ own # Gone => own \in Owned
    /\ Source \cap Owned \subseteq claimed

\* What a text x of a file f keeps of the file as it was onboarded, where the
\* project's branch is the trunk.
Stands(x, f, trunk) ==
    /\ x # Gone
    /\ First[f].guard =>
          /\ x.guard /\ Defined(First[f]) \subseteq Defined(x)
          /\ \A n \in Defined(First[f]) \ Asked :
                \E i \in DOMAIN trunk : x.defs[n] = trunk[i][f].defs[n]

\* It reaches out only where the trunk has reached out from it.
OpensNothing(x, f, trunk) ==
    x # Gone /\ x.reach => \E i \in DOMAIN trunk : trunk[i][f] # Gone /\ trunk[i][f].reach

Excused == slipped \cup Unindexed

Preserves(x, f, trunk, out) ==
    /\ Asked # {} /\ First[f] # Gone /\ f \notin out => Stands(x, f, trunk)
    /\ ~ReachAsked => OpensNothing(x, f, trunk)

Trees == Branches \cup Range(main)

TextsKept == \A f \in Source \ claimed, tree \in Trees : Preserves(tree[f], f, main, Excused)

\* The index knows every other file of the project, so none can pass for an added one.
IndexKnows ==
    Asked # {} => \A f \in Source \ (claimed \cup Excused) : First[f] # Gone => index[f] # Gone

WsInv == WsTypeOK /\ BranchFromBase /\ RowsAreClaimed /\ TextsKept /\ IndexKnows

-----------------------------------------------------------------------------
(***************************************************************************)
(* Sequences of trees, texts and their merges.                             *)
(***************************************************************************)

\* The last tree of a branch is one of its trees.
LEMMA LastIsOne ==
    ASSUME NEW s \in Seq(Tree), Len(s) # 0
    PROVE  Last(s) \in Range(s) /\ Last(s) \in Tree /\ Last(s) = s[Len(s)] /\ Len(s) \in DOMAIN s
  BY DEF Last, Range

LEMMA AppendedTrees ==
    ASSUME NEW s \in Seq(Tree), NEW x \in Tree
    PROVE  /\ Append(s, x) \in Seq(Tree) /\ Len(Append(s, x)) = Len(s) + 1
           /\ Last(Append(s, x)) = x
           /\ Range(Append(s, x)) = Range(s) \cup {x}
           /\ \A i \in DOMAIN s : Append(s, x)[i] = s[i] /\ i \in DOMAIN Append(s, x)
           /\ Append(s, x)[Len(s) + 1] = x /\ (Len(s) + 1) \in DOMAIN Append(s, x)
<1>1. /\ Append(s, x) \in Seq(Tree) /\ Len(Append(s, x)) = Len(s) + 1
      /\ \A i \in DOMAIN s : Append(s, x)[i] = s[i] /\ i \in DOMAIN Append(s, x)
      /\ Append(s, x)[Len(s) + 1] = x /\ (Len(s) + 1) \in DOMAIN Append(s, x)
  OBVIOUS
<1>2. DOMAIN Append(s, x) = DOMAIN s \cup {Len(s) + 1}
  OBVIOUS
<1>3. Range(Append(s, x)) = Range(s) \cup {x}
  BY <1>1, <1>2 DEF Range
<1>. QED  BY <1>1, <1>3 DEF Last

\* What a text keeps it keeps when the trunk grows, and when more is excused.
LEMMA PreservesGrows ==
    ASSUME NEW trunk \in Seq(Tree), NEW y \in Tree, NEW x, NEW f \in Source,
           NEW out, NEW more, out \subseteq more, Preserves(x, f, trunk, out)
    PROVE  Preserves(x, f, trunk, more) /\ Preserves(x, f, Append(trunk, y), more)
  BY AppendedTrees DEF Preserves, Stands, OpensNothing

\* A tree of the trunk need only keep the main block and the names: what it has it
\* shares with the trunk.
LEMMA OfTheTrunk ==
    ASSUME NEW trunk \in Seq(Tree), NEW i \in DOMAIN trunk, NEW f \in Source, NEW out,
           Asked # {} /\ First[f] # Gone /\ f \notin out =>
               /\ trunk[i][f] # Gone
               /\ First[f].guard =>
                      trunk[i][f].guard /\ Defined(First[f]) \subseteq Defined(trunk[i][f])
    PROVE  Preserves(trunk[i][f], f, trunk, out)
  BY DEF Preserves, Stands, OpensNothing

\* A name is defined by a text or it is not.
LEMMA DefinedOf ==
    ASSUME NEW x \in Text \cup {Gone}
    PROVE  /\ Defined(x) \subseteq Name
           /\ x # Gone => Defined(x) = {n \in Name : x.defs[n] # NoDef}
  BY DEF Defined

\* The merge of three texts is a text, and what all three have it has.
LEMMA MergeKeeps ==
    ASSUME NEW b \in Text \cup {Gone}, NEW o \in Text \cup {Gone}, NEW t \in Text \cup {Gone}
    PROVE  /\ MergedText(b, o, t) \in Text \cup {Gone}
           /\ b # Gone /\ o # Gone /\ t # Gone =>
                /\ MergedText(b, o, t) # Gone
                /\ b.guard /\ o.guard /\ t.guard => MergedText(b, o, t).guard
                /\ \A N : N \subseteq Defined(b) /\ N \subseteq Defined(o) /\ N \subseteq Defined(t)
                              => N \subseteq Defined(MergedText(b, o, t))
<1>1. CASE Gone \in {b, o, t}
  BY <1>1 DEF MergedText, Side
<1>2. CASE Gone \notin {b, o, t}
  <2>1. b \in Text /\ o \in Text /\ t \in Text
    BY <1>2
  <2>2. MergedText(b, o, t) =
           [defs   |-> [n \in Name |-> Side(b.defs[n], o.defs[n], t.defs[n])],
            guard  |-> Side(b.guard, o.guard, t.guard),
            reach  |-> Side(b.reach, o.reach, t.reach),
            uses   |-> Side(b.uses, o.uses, t.uses),
            faults |-> Side(b.faults, o.faults, t.faults)]
    BY <1>2 DEF MergedText
  <2>3. MergedText(b, o, t) \in Text
    BY <2>1, <2>2 DEF Text, Side
  <2>4. MergedText(b, o, t) # Gone
    BY <2>3, WorkspaceAssumption
  <2>5. b.guard /\ o.guard /\ t.guard => MergedText(b, o, t).guard
    BY <2>2 DEF Side
  <2>6. \A n \in Name : MergedText(b, o, t).defs[n] \in {o.defs[n], t.defs[n]}
    BY <2>2 DEF Side
  <2>7. \A n \in Defined(o) \cap Defined(t) : n \in Defined(MergedText(b, o, t))
    BY <1>2, <2>4, <2>6 DEF Defined
  <2>. QED  BY <2>3, <2>4, <2>5, <2>7
<1>. QED  BY <1>1, <1>2

-----------------------------------------------------------------------------
(***************************************************************************)
(* What a step has to show.                                                *)
(***************************************************************************)

\* The trees at hand.
LEMMA TreesAtHand ==
    ASSUME WsTypeOK, BranchFromBase
    PROVE  /\ Trees \subseteq Tree /\ Range(log) \subseteq Trees /\ Range(main) \subseteq Trees
           /\ Project \in Tree /\ Project \in Trees /\ Project = main[Len(main)] /\ Len(main) \in DOMAIN main
           /\ made => /\ wt \in Trees /\ Tip \in Trees /\ Tip \in Tree /\ Tip = log[Len(log)]
                      /\ Len(log) \in DOMAIN log /\ main[base] \in Trees /\ base \in DOMAIN main
<1>1. main \in Seq(Tree) /\ log \in Seq(Tree) /\ wt \in Tree /\ base \in 0 .. Len(main) /\ made \in BOOLEAN
  BY DEF WsTypeOK
<1>2. Range(main) \subseteq Tree /\ Range(log) \subseteq Tree
  BY <1>1 DEF Range
<1>3. Len(main) # 0 /\ (made => base \in 1 .. Len(log))
  BY DEF BranchFromBase
<1>4. Project \in Range(main) /\ Project \in Tree /\ Project = main[Len(main)] /\ Len(main) \in DOMAIN main
  BY <1>1, <1>3, LastIsOne DEF Project
<1>5. made => /\ Tip \in Range(log) /\ Tip \in Tree /\ Tip = log[Len(log)] /\ Len(log) \in DOMAIN log
              /\ base \in DOMAIN main /\ main[base] \in Range(main)
  BY <1>1, <1>3, LastIsOne DEF Tip, Range
<1>. QED  BY <1>1, <1>2, <1>4, <1>5 DEF Trees, Branches

\* A step whose trees have, file by file, a text that was there or one that keeps
\* what it must, keeps the texts.
LEMMA TextsStep ==
    ASSUME WsInv, claimed \subseteq claimed', slipped \subseteq slipped',
           main' = main \/ \E y \in Tree : main' = Append(main, y),
           \A f \in Source \ claimed', tree \in Trees' :
               (\E old \in Trees : tree[f] = old[f]) \/ Preserves(tree[f], f, main', Excused')
    PROVE  TextsKept'
<1>1. SUFFICES ASSUME NEW f \in Source \ claimed', NEW tree \in Trees',
                      NEW old \in Trees, tree[f] = old[f]
               PROVE  Preserves(tree[f], f, main', Excused')
  BY DEF TextsKept
<1>2. f \in Source \ claimed /\ Preserves(tree[f], f, main, Excused)
  BY <1>1 DEF WsInv, TextsKept
<1>3. main \in Seq(Tree) /\ Excused \subseteq Excused'
  BY DEF WsInv, WsTypeOK, Excused
<1>4. CASE main' = main
  <2>1. Project \in Tree
    BY TreesAtHand DEF WsInv
  <2>. QED  BY <1>2, <1>3, <1>4, <2>1, PreservesGrows
<1>5. CASE \E y \in Tree : main' = Append(main, y)
  <2>1. PICK y \in Tree : main' = Append(main, y)
    BY <1>5
  <2>. QED  BY <1>2, <1>3, <2>1, PreservesGrows
<1>. QED  BY <1>4, <1>5

\* An index that is read from a tree at hand knows the files of the project.
LEMMA IndexStep ==
    ASSUME WsInv, TextsKept', claimed \subseteq claimed', slipped \subseteq slipped',
           Trees' \subseteq Tree,
           index' = index \/ \E tree \in Trees' : index' = Grains(tree)
    PROVE  IndexKnows' /\ index' \in [Path -> (SUBSET Name) \cup {Gone}]
<1>1. \A x \in Text \cup {Gone} : Defined(x) \in SUBSET Name /\ Defined(x) # Gone
  <2>1. \A x \in Text \cup {Gone} : Defined(x) \in SUBSET Name
    BY DefinedOf
  <2>. QED  BY <2>1, WorkspaceAssumption
<1>2. CASE index' = index
  BY <1>2 DEF WsInv, IndexKnows, WsTypeOK, Excused
<1>3. CASE \E tree \in Trees' : index' = Grains(tree)
  <2>1. PICK tree \in Trees' : index' = Grains(tree)
    BY <1>3
  <2>2. \A p \in Path : tree[p] \in Text \cup {Gone}
    BY <2>1 DEF Tree
  <2>3. index' \in [Path -> (SUBSET Name) \cup {Gone}]
    BY <1>1, <2>1, <2>2 DEF Grains
  <2>4. IndexKnows'
    <3>1. SUFFICES ASSUME Asked # {}, NEW f \in Source \ (claimed' \cup Excused'), First[f] # Gone
                   PROVE  index'[f] # Gone
      BY DEF IndexKnows
    <3>2. tree[f] # Gone
      BY <2>1, <3>1 DEF TextsKept, Preserves, Stands
    <3>. QED  BY <1>1, <2>1, <2>2, <3>1, <3>2 DEF Grains, Path, Excused
  <2>. QED  BY <2>3, <2>4
<1>. QED  BY <1>2, <1>3

\* A step that touches no file, no branch, no row and no index.
LEMMA FilesAlone ==
    ASSUME WsInv, UNCHANGED <<repo, made, wt, index, rows>>
    PROVE  TextsKept' /\ IndexKnows' /\ RowsAreClaimed'
  BY DEF WsInv, TextsKept, IndexKnows, Excused, RowsAreClaimed, Trees, Branches, Owned, repo, rows

-----------------------------------------------------------------------------
(***************************************************************************)
(* The steps of a session.                                                 *)
(***************************************************************************)

\* Before the batch starts there is the project and its index.
LEMMA WsInitInv == WsInit => WsInv
<1> SUFFICES ASSUME WsInit PROVE WsInv
  OBVIOUS
<1>1. First \in Tree /\ main = <<First>> /\ log = << >>
  BY WorkspaceAssumption DEF WsInit
<1>2. main \in Seq(Tree) /\ log \in Seq(Tree) /\ Len(main) = 1 /\ Len(log) = 0 /\ Empty \in Tree
      /\ Range(log) = {} /\ Range(main) = {First}
  BY <1>1 DEF Range, Empty, Tree
<1>3. Trees = {First}
  BY <1>2 DEF WsInit, Trees, Branches
<1>4. \A p \in Path : First[p] \in Text \cup {Gone}
  BY <1>1 DEF Tree
<1>5. \A x \in Text \cup {Gone} : Defined(x) \in SUBSET Name /\ Defined(x) # Gone
  <2>1. \A x \in Text \cup {Gone} : Defined(x) \in SUBSET Name
    BY DefinedOf
  <2>. QED  BY <2>1, WorkspaceAssumption
<1>6. WsTypeOK
  <2>1. index \in [Path -> (SUBSET Name) \cup {Gone}]
    BY <1>4, <1>5 DEF WsInit, Grains
  <2>2. base \in 0 .. Len(main) /\ head \in 0 .. Len(log) /\ newHead \in 0 .. Len(log)
    BY <1>2 DEF WsInit
  <2>3. made \in BOOLEAN /\ session \in BOOLEAN
    BY DEF WsInit
  <2>. QED  BY <1>2, <2>1, <2>2, <2>3 DEF WsInit, WsTypeOK
<1>7. BranchFromBase
  BY <1>2 DEF WsInit, BranchFromBase
<1>8. RowsAreClaimed
  BY DEF WsInit, RowsAreClaimed, Owned, Empty, Path
<1>9. TextsKept
  <2>1. main[1] = First /\ 1 \in DOMAIN main
    BY <1>1
  <2>. QED  BY <1>2, <1>3, <2>1, OfTheTrunk DEF TextsKept
<1>10. IndexKnows
  BY <1>4, <1>5 DEF WsInit, IndexKnows, Grains, Path, Excused
<1>. QED  BY <1>6, <1>7, <1>8, <1>9, <1>10 DEF WsInv

\* A session begins, fails, or dies with its process: the files are as they were.
LEMMA SessionsComeAndGo ==
    ASSUME WsInv, Wake \/ Fail \/ Boot
    PROVE  WsInv'
<1>1. UNCHANGED <<repo, status, made, wt, index, rows>>
  BY DEF Wake, Fail, Boot
<1>2. WsTypeOK'
  <2>1. UNCHANGED <<main, base, log, status, made, wt, index, tests, own, claimed, slipped>>
    BY <1>1 DEF repo, rows
  <2>2. session' \in BOOLEAN
    BY DEF Wake, Fail, Boot
  <2>3. newHead' \in 0 .. Len(log) /\ head' \in 0 .. Len(log)
    <3>1. Len(log) \in Nat /\ head \in 0 .. Len(log) /\ newHead \in 0 .. Len(log)
      BY DEF WsInv, WsTypeOK
    <3>. QED  BY <3>1 DEF Wake, Fail, Boot
  <2>. QED  BY <2>1, <2>2, <2>3 DEF WsInv, WsTypeOK
<1>3. BranchFromBase'
  BY <1>1 DEF Wake, Fail, Boot, WsInv, BranchFromBase, repo
<1>. QED  BY <1>1, <1>2, <1>3, FilesAlone DEF WsInv

\* A text a door lets through keeps what the file keeps.
LEMMA AllowedKeeps ==
    ASSUME WsInv, made, NEW f \in Source, NEW t \in Text, Allowed(f, t),
           Preserves(wt[f], f, main, Excused)
    PROVE  Preserves(t, f, main, Excused)
<1>1. t # Gone
  BY WorkspaceAssumption
<1>2. ASSUME ~ReachAsked, t.reach
      PROVE  wt[f] # Gone /\ wt[f].reach
  BY <1>2 DEF Allowed, Fenced
<1>3. ASSUME Asked # {}, First[f] # Gone, f \notin Excused, First[f].guard
      PROVE  /\ t.guard /\ Defined(First[f]) \subseteq Defined(t)
             /\ \A n \in Defined(First[f]) \ Asked :
                   \E i \in DOMAIN main : t.defs[n] = main[i][f].defs[n]
  <2>1. /\ wt[f] # Gone /\ wt[f].guard /\ Defined(First[f]) \subseteq Defined(wt[f])
        /\ \A n \in Defined(First[f]) \ Asked :
              \E i \in DOMAIN main : wt[f].defs[n] = main[i][f].defs[n]
    BY <1>3 DEF Preserves, Stands
  <2>2. t.guard
    BY <2>1 DEF Allowed, StaysEntry
  <2>3. Defined(wt[f]) \subseteq Defined(t)
    BY <2>1 DEF Allowed, KeepsDefinitions
  <2>4. Project = main[Len(main)] /\ Len(main) \in DOMAIN main
    BY TreesAtHand DEF WsInv
  <2>5. ASSUME NEW n \in Defined(First[f]) \ Asked
        PROVE  \E i \in DOMAIN main : t.defs[n] = main[i][f].defs[n]
    <3>1. n \in (Defined(wt[f]) \cap Defined(t)) \ Asked
      BY <2>1, <2>3, <2>5
    <3>2. t.defs[n] = wt[f].defs[n] \/ t.defs[n] = Project[f].defs[n]
      BY <1>3, <3>1 DEF Allowed, KeepsUnnamed
    <3>. QED  BY <2>1, <2>4, <2>5, <3>2
  <2>. QED  BY <2>1, <2>2, <2>3, <2>5
<1>. QED  BY <1>1, <1>2, <1>3 DEF Preserves, Stands, OpensNothing

\* code.write.
LEMMA CodeWriteInv ==
    ASSUME WsInv, NEW f \in Source, NEW t \in Draft[f], CodeWrite(f, t)
    PROVE  WsInv'
<1>1. UNCHANGED <<repo, status, made, head, session, newHead, index, rows>> /\ made
      /\ wt' = [wt EXCEPT ![f] = t] /\ Allowed(f, t)
  BY DEF CodeWrite
<1>2. t \in Text
  BY WorkspaceAssumption
<1>3. wt \in Tree /\ wt' \in Tree /\ wt'[f] = t /\ \A g \in Path \ {f} : wt'[g] = wt[g]
  BY <1>1, <1>2 DEF WsInv, WsTypeOK, Tree, Path
<1>4. WsTypeOK' /\ BranchFromBase' /\ RowsAreClaimed' /\ IndexKnows'
  BY <1>1, <1>3 DEF WsInv, WsTypeOK, BranchFromBase, RowsAreClaimed, IndexKnows, Excused, Owned, repo, rows
<1>5. wt \in Trees /\ Trees' \subseteq Trees \cup {wt'}
  BY <1>1, TreesAtHand DEF WsInv, Trees, Branches, repo
<1>6. TextsKept'
  <2>1. ASSUME NEW g \in Source \ claimed
        PROVE  (\E old \in Trees : wt'[g] = old[g]) \/ Preserves(wt'[g], g, main, Excused)
    <3>1. CASE g = f
      <4>1. Preserves(wt[f], f, main, Excused)
        BY <1>5, <2>1, <3>1 DEF WsInv, TextsKept
      <4>. QED  BY <1>1, <1>2, <1>3, <3>1, <4>1, AllowedKeeps
    <3>2. CASE g # f
      BY <1>3, <1>5, <3>2 DEF Path
    <3>. QED  BY <3>1, <3>2
  <2>2. UNCHANGED <<main, claimed, slipped, Excused>>
    BY <1>1 DEF repo, rows, Excused
  <2>. QED  BY <1>5, <2>1, <2>2, TextsStep
<1>. QED  BY <1>4, <1>6 DEF WsInv

\* An empty write takes out nothing the index knows, or the file is excused.
LEMMA TakeOutInv ==
    ASSUME WsInv, NEW f \in Path, NEW spelt \in Spelling, TakeOut(f, spelt)
    PROVE  WsInv'
<1>1. UNCHANGED <<repo, status, made, head, session, newHead, index, tests, own, claimed>> /\ made
      /\ wt' = [wt EXCEPT ![f] = Gone]
      /\ slipped \subseteq slipped' /\ slipped' \subseteq Path /\ (index[f] = Gone \/ f \in slipped')
  BY DEF TakeOut, WsInv, WsTypeOK
<1>2. wt \in Tree /\ wt' \in Tree /\ wt'[f] = Gone /\ \A g \in Path \ {f} : wt'[g] = wt[g]
  BY <1>1 DEF WsInv, WsTypeOK, Tree
<1>3. WsTypeOK' /\ BranchFromBase' /\ RowsAreClaimed' /\ IndexKnows'
  BY <1>1, <1>2 DEF WsInv, WsTypeOK, BranchFromBase, RowsAreClaimed, IndexKnows, Excused, Owned, repo
<1>4. wt \in Trees /\ Trees' \subseteq Trees \cup {wt'}
  BY <1>1, TreesAtHand DEF WsInv, Trees, Branches, repo
<1>5. TextsKept'
  <2>1. ASSUME NEW g \in Source \ claimed
        PROVE  (\E old \in Trees : wt'[g] = old[g]) \/ Preserves(wt'[g], g, main, Excused')
    <3>1. CASE g = f
      BY <1>1, <1>2, <3>1 DEF WsInv, IndexKnows, Preserves, OpensNothing, Excused
    <3>2. CASE g # f
      BY <1>2, <1>4, <3>2 DEF Path
    <3>. QED  BY <3>1, <3>2
  <2>. QED  BY <1>1, <1>4, <2>1, TextsStep DEF repo
<1>. QED  BY <1>3, <1>5 DEF WsInv

\* code.commit: of every file the worktree's text or the tip's.
LEMMA CommitInv ==
    ASSUME WsInv, Commit
    PROVE  WsInv'
<1>1. UNCHANGED <<main, base, status, made, wt, head, session, index, rows>> /\ made /\ session
      /\ log' = Append(log, Committed) /\ newHead' = Len(log')
  BY DEF Commit
<1>2. Tip \in Trees /\ Tip \in Tree /\ wt \in Trees /\ wt \in Tree
  BY <1>1, TreesAtHand DEF WsInv, WsTypeOK
<1>3. Committed \in Tree /\ \A p \in Path : Committed[p] \in {Tip[p], wt[p]}
  BY <1>2 DEF Committed, Tree
<1>4. log \in Seq(Tree) /\ head \in 0 .. Len(log)
  BY DEF WsInv, WsTypeOK
<1>5. /\ log' \in Seq(Tree) /\ Len(log') = Len(log) + 1 /\ Range(log') = Range(log) \cup {Committed}
      /\ \A i \in DOMAIN log : log'[i] = log[i]
  BY <1>1, <1>3, <1>4, AppendedTrees
<1>6. WsTypeOK'
  BY <1>1, <1>4, <1>5 DEF WsInv, WsTypeOK, rows
<1>7. BranchFromBase'
  BY <1>1, <1>4, <1>5 DEF WsInv, BranchFromBase
<1>8. RowsAreClaimed' /\ IndexKnows'
  BY <1>1 DEF WsInv, RowsAreClaimed, IndexKnows, Excused, Owned, rows
<1>9. Trees' \subseteq Trees \cup {Committed}
  BY <1>1, <1>5 DEF Trees, Branches
<1>10. \A f \in Source \ claimed, tree \in Trees' : \E old \in Trees : tree[f] = old[f]
  BY <1>2, <1>3, <1>9 DEF Path
<1>11. TextsKept'
  BY <1>1, <1>10, TextsStep DEF rows
<1>. QED  BY <1>6, <1>7, <1>8, <1>11 DEF WsInv

\* The commit's rows land, and the index is read from the worktree.
LEMMA LandInv ==
    ASSUME WsInv, Land
    PROVE  WsInv'
<1>1. UNCHANGED <<repo, status, made, wt, rows>> /\ session' = FALSE /\ newHead' = 0
      /\ (newHead = 0 => UNCHANGED <<head, index>>)
      /\ (newHead # 0 => head' = newHead /\ index' \in {Grains(wt), index})
  BY DEF Land, Refresh
<1>2. Trees' = Trees /\ TextsKept'
  BY <1>1 DEF WsInv, TextsKept, Excused, Trees, Branches, repo, rows
<1>3. index' = index \/ \E tree \in Trees' : index' = Grains(tree)
  <2>1. newHead # 0 => wt \in Trees
    BY TreesAtHand DEF WsInv, BranchFromBase
  <2>. QED  BY <1>1, <1>2, <2>1
<1>4. IndexKnows' /\ index' \in [Path -> (SUBSET Name) \cup {Gone}]
  <2>1. Trees' \subseteq Tree /\ claimed \subseteq claimed' /\ slipped \subseteq slipped'
    BY <1>1, <1>2, TreesAtHand DEF WsInv, rows
  <2>. QED  BY <1>2, <1>3, <2>1, IndexStep
<1>5. WsTypeOK'
  <2>1. UNCHANGED <<main, base, log, status, made, wt, tests, own, claimed, slipped>>
    BY <1>1 DEF repo, rows
  <2>2. newHead' \in 0 .. Len(log) /\ head' \in 0 .. Len(log)
    <3>1. Len(log) \in Nat /\ head \in 0 .. Len(log) /\ newHead \in 0 .. Len(log)
      BY DEF WsInv, WsTypeOK
    <3>. QED  BY <1>1, <3>1
  <2>. QED  BY <1>1, <1>4, <2>1, <2>2 DEF WsInv, WsTypeOK
<1>6. BranchFromBase' /\ RowsAreClaimed'
  BY <1>1 DEF WsInv, BranchFromBase, RowsAreClaimed, Owned, repo, rows
<1>. QED  BY <1>2, <1>4, <1>5, <1>6 DEF WsInv

-----------------------------------------------------------------------------
(***************************************************************************)
(* The steps of the Tester and the harness.                                *)
(***************************************************************************)

\* A test moves to its path, which is claimed from then on.
LEMMA EncodeInv ==
    ASSUME WsInv, NEW p \in TestPath, NEW t \in TestText, Encode(p, t)
    PROVE  WsInv'
<1>1. UNCHANGED <<main, base, log, status, made, wt, head, session, newHead, index, slipped>>
      /\ tests' = [q \in Path |-> IF q = p THEN t ELSE IF q = own THEN Gone ELSE tests[q]]
      /\ own' = p /\ claimed' = claimed \cup {p}
  BY DEF Encode, repo
<1>2. p \in Path /\ t \in Text /\ t # Gone
  BY WorkspaceAssumption
<1>3. tests' \in Tree
  BY <1>1, <1>2 DEF WsInv, WsTypeOK, Tree
<1>4. WsTypeOK'
  BY <1>1, <1>2, <1>3 DEF WsInv, WsTypeOK
<1>5. BranchFromBase'
  BY <1>1 DEF WsInv, BranchFromBase
<1>6. Owned' \subseteq Owned \cup {p} /\ p \in Owned'
  BY <1>1, <1>2 DEF Owned
<1>7. RowsAreClaimed'
  BY <1>1, <1>6 DEF WsInv, RowsAreClaimed
<1>8. TextsKept' /\ IndexKnows'
  BY <1>1 DEF WsInv, TextsKept, IndexKnows, Excused, Trees, Branches
<1>. QED  BY <1>4, <1>5, <1>7, <1>8 DEF WsInv

\* Writing the rows out, and what a merge delivers, leave the modules nobody
\* wrote a test to as the worktree has them.
LEMMA RowsAside ==
    ASSUME WsInv
    PROVE  /\ Materialised \in Tree /\ Delivered \in Tree
           /\ \A f \in Source \ claimed : Materialised[f] = wt[f] /\ Delivered[f] = wt[f]
           /\ \A p \in Owned : Delivered[p] = tests[p]
<1>1. wt \in Tree /\ tests \in Tree
  BY DEF WsInv, WsTypeOK
<1>2. Materialised \in Tree
  BY <1>1 DEF Materialised, Tree
<1>3. \A f \in Source \ claimed : f \in Path /\ f \notin Owned
  BY DEF WsInv, RowsAreClaimed, Path
<1>4. \A p \in Owned : p \in Path /\ Owned # {}
  BY DEF Owned
<1>. QED  BY <1>1, <1>2, <1>3, <1>4 DEF Materialised, Delivered

\* harness.run.
LEMMA HarnessInv ==
    ASSUME WsInv, Harness
    PROVE  WsInv'
<1>1. UNCHANGED <<repo, status, made, head, session, newHead, index, rows>> /\ made /\ wt' = Materialised
  BY DEF Harness
<1>2. WsTypeOK' /\ BranchFromBase' /\ RowsAreClaimed' /\ IndexKnows'
  BY <1>1, RowsAside DEF WsInv, WsTypeOK, BranchFromBase, RowsAreClaimed, IndexKnows, Excused, Owned, repo, rows
<1>3. wt \in Trees /\ Trees' \subseteq Trees \cup {wt'}
  BY <1>1, TreesAtHand DEF WsInv, Trees, Branches, repo
<1>4. TextsKept'
  BY <1>1, <1>3, RowsAside, TextsStep DEF repo, rows
<1>. QED  BY <1>2, <1>4 DEF WsInv

\* What a batch inherits is tests: no module gets a row.
LEMMA InheritedRows ==
    ASSUME WsInv, NEW tree \in Tree, tests' = Inherited(tree), UNCHANGED <<own, claimed>>
    PROVE  tests' \in Tree /\ RowsAreClaimed'
<1>1. tests \in Tree
  BY DEF WsInv, WsTypeOK
<1>2. tests' \in Tree
  BY <1>1 DEF Inherited, Tree
<1>3. \A p \in Path : p \in Owned => tests'[p] = tests[p]
  BY DEF Inherited
<1>4. \A f \in Source : f \in Path /\ tests'[f] = tests[f]
  BY WorkspaceAssumption DEF Inherited, Path
<1>5. Owned \subseteq Owned' /\ Source \cap Owned' = Source \cap Owned
  BY <1>3, <1>4 DEF Owned
<1>. QED  BY <1>2, <1>5 DEF WsInv, RowsAreClaimed

-----------------------------------------------------------------------------
(***************************************************************************)
(* The life of the worktree.                                               *)
(***************************************************************************)

\* The batch runs without a worktree.
LEMMA StartWithoutInv ==
    ASSUME WsInv, StartWithout
    PROVE  WsInv'
<1>1. UNCHANGED <<repo, made, wt, head, session, newHead, index, rows>>
      /\ status' = "running" /\ status \in {"pending", "deferred"}
  BY DEF StartWithout
<1>2. WsTypeOK' /\ BranchFromBase'
  BY <1>1 DEF WsInv, WsTypeOK, BranchFromBase, repo, rows
<1>. QED  BY <1>1, <1>2, FilesAlone DEF WsInv

\* The batch gets a worktree of the project as it is.
LEMMA StartInv ==
    ASSUME WsInv, Start
    PROVE  WsInv'
<1>1. UNCHANGED <<main, head, session, newHead, index, own, claimed, slipped>>
      /\ status \in {"pending", "deferred"} /\ ~session /\ ~made
      /\ status' = "running" /\ made' = TRUE
      /\ base' = Len(main) /\ log' = main /\ wt' = Project /\ tests' = Inherited(Project)
  BY DEF Start
<1>2. Project \in Tree /\ Project \in Range(main) /\ Len(main) \in Nat /\ Len(main) # 0
      /\ head = 0 /\ newHead = 0
  <2>1. main \in Seq(Tree) /\ Len(main) # 0 /\ head = 0 /\ newHead = 0
    BY <1>1 DEF WsInv, WsTypeOK, BranchFromBase
  <2>. QED  BY <2>1, LastIsOne DEF Project
<1>3. tests' \in Tree /\ RowsAreClaimed'
  BY <1>1, <1>2, InheritedRows
<1>4. WsTypeOK'
  <2>1. base' \in 0 .. Len(main') /\ head' \in 0 .. Len(log') /\ newHead' \in 0 .. Len(log')
    BY <1>1, <1>2
  <2>. QED  BY <1>1, <1>2, <1>3, <2>1 DEF WsInv, WsTypeOK
<1>5. BranchFromBase'
  BY <1>1, <1>2 DEF BranchFromBase
<1>6. Trees' \subseteq Trees
  BY <1>1, <1>2 DEF Trees, Branches
<1>7. TextsKept' /\ IndexKnows'
  BY <1>1, <1>6 DEF WsInv, TextsKept, IndexKnows, Excused
<1>. QED  BY <1>3, <1>4, <1>5, <1>7 DEF WsInv

\* A deferred batch goes on in its worktree.
LEMMA ResumeInv ==
    ASSUME WsInv, Resume
    PROVE  WsInv'
<1>1. UNCHANGED <<main, base, log, made, wt, head, session, newHead, own, claimed, slipped>>
      /\ made /\ status = "deferred" /\ status' = "running" /\ tests' = Inherited(wt)
      /\ index' \in {Grains(wt), index}
  BY DEF Resume, Refresh, repo
<1>2. wt \in Trees /\ wt \in Tree
  BY <1>1, TreesAtHand DEF WsInv, WsTypeOK
<1>3. tests' \in Tree /\ RowsAreClaimed'
  BY <1>1, <1>2, InheritedRows
<1>4. Trees' = Trees /\ TextsKept'
  BY <1>1 DEF WsInv, TextsKept, Excused, Trees, Branches
<1>5. IndexKnows' /\ index' \in [Path -> (SUBSET Name) \cup {Gone}]
  <2>1. Trees' \subseteq Tree /\ claimed \subseteq claimed' /\ slipped \subseteq slipped' /\ wt \in Trees'
    BY <1>1, <1>2, <1>4, TreesAtHand DEF WsInv
  <2>. QED  BY <1>1, <1>4, <2>1, IndexStep
<1>6. WsTypeOK'
  BY <1>1, <1>3, <1>5 DEF WsInv, WsTypeOK
<1>7. BranchFromBase'
  BY <1>1 DEF WsInv, BranchFromBase
<1>. QED  BY <1>3, <1>4, <1>5, <1>6, <1>7 DEF WsInv

\* The batch is set aside, and the index goes back to the project.
LEMMA StopInv ==
    ASSUME WsInv, NEW to \in {"deferred", "abandoned"}, Stop(to)
    PROVE  WsInv'
<1>1. UNCHANGED <<repo, made, wt, head, session, newHead, rows>>
      /\ status = "running" /\ status' = to /\ index' \in {Grains(Project), index}
  BY DEF Stop, ReindexMain, Refresh, Project
<1>2. Trees' = Trees /\ TextsKept'
  BY <1>1 DEF WsInv, TextsKept, Excused, Trees, Branches, repo, rows
<1>3. IndexKnows' /\ index' \in [Path -> (SUBSET Name) \cup {Gone}]
  <2>1. Trees' \subseteq Tree /\ claimed \subseteq claimed' /\ slipped \subseteq slipped' /\ Project \in Trees'
    BY <1>1, <1>2, TreesAtHand DEF WsInv, rows
  <2>. QED  BY <1>1, <1>2, <2>1, IndexStep
<1>4. WsTypeOK'
  BY <1>1, <1>3 DEF WsInv, WsTypeOK, repo, rows
<1>5. BranchFromBase' /\ RowsAreClaimed'
  BY <1>1 DEF WsInv, BranchFromBase, RowsAreClaimed, Owned, repo, rows
<1>. QED  BY <1>2, <1>3, <1>4, <1>5 DEF WsInv

\* When the project's branch gets a tree whose modules keep what they must, the
\* texts are kept on both branches.
LEMMA TrunkGrows ==
    ASSUME WsInv, NEW y \in Tree, main' = Append(main, y),
           claimed \subseteq claimed', slipped \subseteq slipped',
           \A f \in Source \ claimed' : Asked # {} /\ First[f] # Gone /\ f \notin Excused' =>
               /\ y[f] # Gone
               /\ First[f].guard => y[f].guard /\ Defined(First[f]) \subseteq Defined(y[f]),
           \A f \in Source \ claimed', tree \in Trees' :
               tree = y \/ \E old \in Trees : tree[f] = old[f]
    PROVE  TextsKept'
<1>1. main \in Seq(Tree)
  BY DEF WsInv, WsTypeOK
<1>2. main' \in Seq(Tree) /\ (Len(main) + 1) \in DOMAIN main' /\ main'[Len(main) + 1] = y
  BY <1>1, AppendedTrees
<1>3. ASSUME NEW f \in Source \ claimed'
      PROVE  Preserves(y[f], f, main', Excused')
  <2> DEFINE out == Excused'
             trunk == main'
             i == Len(main) + 1
  <2>1. /\ trunk \in Seq(Tree) /\ i \in DOMAIN trunk /\ trunk[i] = y
        /\ Asked # {} /\ First[f] # Gone /\ f \notin out =>
              /\ y[f] # Gone
              /\ First[f].guard => y[f].guard /\ Defined(First[f]) \subseteq Defined(y[f])
    BY <1>2, <1>3
  <2> HIDE DEF out, trunk, i
  <2>2. Preserves(y[f], f, trunk, out)
    BY <1>3, <2>1, OfTheTrunk
  <2>. QED  BY <2>2 DEF out, trunk
<1>4. \A f \in Source \ claimed', tree \in Trees' :
          (\E old \in Trees : tree[f] = old[f]) \/ Preserves(tree[f], f, main', Excused')
  BY <1>3
<1>5. main' = main \/ \E z \in Tree : main' = Append(main, z)
  OBVIOUS
<1>. QED  BY <1>4, <1>5, TextsStep

\* Another batch delivers what its own doors let through, or a test.
LEMMA OtherMergesInv ==
    ASSUME WsInv, NEW f \in Path, NEW t, OtherMerges(f, t)
    PROVE  WsInv'
<1> DEFINE y == [Project EXCEPT ![f] = t]
<1>1. UNCHANGED <<base, log, status, made, wt, head, session, newHead, tests, own>>
      /\ main' = Append(main, y) /\ index' \in {Grains(Last(main')), index}
      /\ claimed' \in {claimed, claimed \cup {f}} /\ slipped' \in {slipped, slipped \cup {f}}
  BY DEF OtherMerges, ReindexMain, Refresh
<1>2. t \in Text \cup {Gone} /\ (t = Gone => f \in slipped')
  BY WorkspaceAssumption DEF OtherMerges
<1>3. Project \in Tree /\ Project \in Trees
  BY TreesAtHand DEF WsInv
<1>4. y \in Tree /\ y[f] = t /\ \A g \in Path \ {f} : y[g] = Project[g]
  BY <1>2, <1>3 DEF Tree
<1> HIDE DEF y
<1>5. main \in Seq(Tree)
  BY DEF WsInv, WsTypeOK
<1>6. /\ main' \in Seq(Tree) /\ Len(main') = Len(main) + 1 /\ Last(main') = y
      /\ Range(main') = Range(main) \cup {y} /\ \A i \in DOMAIN main : main'[i] = main[i]
  BY <1>1, <1>4, <1>5, AppendedTrees
<1>7. Trees' = Trees \cup {y}
  BY <1>1, <1>6 DEF Trees, Branches
<1>8. ASSUME NEW g \in Source \ claimed', Asked # {}, First[g] # Gone, g \notin Excused'
      PROVE  /\ y[g] # Gone
             /\ First[g].guard => y[g].guard /\ Defined(First[g]) \subseteq Defined(y[g])
  <2>1. /\ Project[g] # Gone
        /\ First[g].guard => Project[g].guard /\ Defined(First[g]) \subseteq Defined(Project[g])
    BY <1>1, <1>3, <1>8 DEF WsInv, TextsKept, Preserves, Stands, Excused
  <2>2. CASE g # f
    BY <1>4, <1>8, <2>1, <2>2 DEF Path
  <2>3. CASE g = f
    <3>1. f \notin claimed' /\ t # Gone
      BY <1>2, <1>8, <2>3 DEF Excused
    <3>2. Project[f].guard => t.guard /\ Defined(Project[f]) \subseteq Defined(t)
      BY <2>1, <2>3, <3>1 DEF OtherMerges
    <3>. QED  BY <1>4, <2>1, <2>3, <3>1, <3>2
  <2>. QED  BY <2>2, <2>3
<1>9. TextsKept'
  BY <1>1, <1>4, <1>7, <1>8, TrunkGrows
<1>10. IndexKnows' /\ index' \in [Path -> (SUBSET Name) \cup {Gone}]
  <2>1. /\ Trees' \subseteq Tree /\ claimed \subseteq claimed' /\ slipped \subseteq slipped'
        /\ Last(main') \in Trees'
    BY <1>1, <1>4, <1>6, <1>7, TreesAtHand DEF WsInv
  <2>. QED  BY <1>1, <1>9, <2>1, IndexStep
<1>11. WsTypeOK'
  <2>1. base' \in 0 .. Len(main')
    BY <1>1, <1>5, <1>6 DEF WsInv, WsTypeOK
  <2>2. claimed' \subseteq Path /\ slipped' \subseteq Path
    BY <1>1 DEF WsInv, WsTypeOK
  <2>. QED  BY <1>1, <1>6, <1>10, <2>1, <2>2 DEF WsInv, WsTypeOK
<1>12. BranchFromBase'
  <2>1. Len(main') # 0
    BY <1>5, <1>6
  <2>2. made => \A i \in 1 .. base : i \in DOMAIN main
    BY <1>5 DEF WsInv, WsTypeOK
  <2>. QED  BY <1>1, <1>6, <2>1, <2>2 DEF WsInv, BranchFromBase
<1>13. RowsAreClaimed'
  BY <1>1 DEF WsInv, RowsAreClaimed, Owned
<1>. QED  BY <1>9, <1>10, <1>11, <1>12, <1>13 DEF WsInv

\* The branch a merge delivers: the one there is, with a commit of what the
\* worktree holds where there are rows to deliver.
LEMMA BranchDelivers ==
    ASSUME WsInv, made
    PROVE  /\ Branch \in Seq(Tree) /\ Len(Branch) >= Len(log) /\ Len(Branch) # 0
           /\ \A i \in DOMAIN log : Branch[i] = log[i]
           /\ Range(Branch) \subseteq Range(log) \cup {Delivered}
           /\ Last(Branch) \in Tree /\ Last(Branch) \in Range(Branch)
           /\ Owned # {} => Last(Branch) = Delivered
<1>1. log \in Seq(Tree) /\ Len(log) # 0
  BY DEF WsInv, WsTypeOK, BranchFromBase
<1>2. Delivered \in Tree
  BY RowsAside
<1>3. CASE Branch = log
  BY <1>1, <1>2, <1>3, LastIsOne DEF Branch, Tip
<1>4. CASE Branch = Append(log, Delivered)
  BY <1>1, <1>2, <1>4, AppendedTrees
<1>. QED  BY <1>3, <1>4 DEF Branch

\* What git makes of the base, the project's tree and the branch's.
Merged == [p \in Path |-> MergedText(main[base][p], Project[p], Last(Branch)[p])]

\* The merged tree keeps what all three trees keep.
LEMMA MergedStands ==
    ASSUME WsInv, made
    PROVE  /\ Merged \in Tree
           /\ \A f \in Source \ claimed : Asked # {} /\ First[f] # Gone /\ f \notin Excused =>
                 /\ Merged[f] # Gone
                 /\ First[f].guard => Merged[f].guard /\ Defined(First[f]) \subseteq Defined(Merged[f])
<1>1. /\ main[base] \in Trees /\ Project \in Trees /\ Trees \subseteq Tree
      /\ Last(Branch) \in Tree /\ Range(Branch) \subseteq Range(log) \cup {Delivered}
      /\ Last(Branch) \in Range(Branch) /\ Range(log) \subseteq Trees /\ wt \in Trees
  BY TreesAtHand, BranchDelivers DEF WsInv
<1>2. \A p \in Path : /\ main[base][p] \in Text \cup {Gone} /\ Project[p] \in Text \cup {Gone}
                      /\ Last(Branch)[p] \in Text \cup {Gone}
  BY <1>1 DEF Tree
<1>3. \A p \in Path : MergedText(main[base][p], Project[p], Last(Branch)[p]) \in Text \cup {Gone}
  BY <1>2, MergeKeeps
<1>4. Merged \in Tree
  BY <1>3 DEF Merged, Tree
<1>5. ASSUME NEW f \in Source \ claimed, Asked # {}, First[f] # Gone, f \notin Excused
      PROVE  /\ Merged[f] # Gone
             /\ First[f].guard => Merged[f].guard /\ Defined(First[f]) \subseteq Defined(Merged[f])
  <2>1. \E tree \in Trees : Last(Branch)[f] = tree[f]
    BY <1>1, <1>5, RowsAside
  <2>2. /\ Stands(main[base][f], f, main) /\ Stands(Project[f], f, main)
        /\ Stands(Last(Branch)[f], f, main)
    BY <1>1, <1>5, <2>1 DEF WsInv, TextsKept, Preserves
  <2>3. f \in Path /\ Merged[f] = MergedText(main[base][f], Project[f], Last(Branch)[f])
    BY <1>5 DEF Merged, Path
  <2>4. Merged[f] # Gone
    BY <1>2, <2>2, <2>3, MergeKeeps DEF Stands
  <2>5. ASSUME First[f].guard
        PROVE  Merged[f].guard /\ Defined(First[f]) \subseteq Defined(Merged[f])
    BY <1>2, <2>2, <2>3, <2>5, MergeKeeps DEF Stands
  <2>. QED  BY <2>4, <2>5
<1>. QED  BY <1>4, <1>5

\* The merge is clean: the project's branch gets the merged tree.
LEMMA MergeCleanInv ==
    ASSUME WsInv, MergeClean
    PROVE  WsInv'
<1>1. UNCHANGED <<base, head, session, newHead, tests, own, claimed, slipped>>
      /\ made /\ ~session /\ log' = Branch /\ status' = "merged" /\ made' = FALSE /\ wt' = Empty
      /\ main' = (IF Len(Branch) = base THEN main ELSE Append(main, Merged))
      /\ index' \in {Grains(Last(main')), index}
  BY DEF MergeClean, Deliverable, ReindexMain, Refresh, Merged, rows
<1>2. /\ log' \in Seq(Tree) /\ Len(log') >= Len(log) /\ Merged \in Tree /\ Empty \in Tree
      /\ Range(log') \subseteq Range(log) \cup {Delivered}
  BY <1>1, BranchDelivers, MergedStands DEF Empty, Tree
<1>3. main \in Seq(Tree) /\ log \in Seq(Tree) /\ Len(main) # 0
  BY DEF WsInv, WsTypeOK, BranchFromBase
<1>4. /\ main' \in Seq(Tree) /\ Len(main') >= Len(main) /\ Range(main') \subseteq Range(main) \cup {Merged}
      /\ Last(main') \in Range(main') /\ Range(main') \subseteq Tree
  <2>1. CASE main' = main
    BY <1>3, <2>1, LastIsOne DEF Range
  <2>2. CASE main' = Append(main, Merged)
    BY <1>2, <1>3, <2>2, AppendedTrees DEF Range
  <2>. QED  BY <1>1, <2>1, <2>2
<1>5. Trees' = Range(log') \cup Range(main')
  BY <1>1 DEF Trees, Branches
<1>6. \A f \in Source \ claimed, tree \in Trees' :
          (tree = Merged /\ main' = Append(main, Merged)) \/ \E old \in Trees : tree[f] = old[f]
  <2>1. ASSUME NEW f \in Source \ claimed, NEW tree \in Range(log')
        PROVE  \E old \in Trees : tree[f] = old[f]
    <3>1. tree \in Range(log) \/ tree = Delivered
      BY <1>2, <2>1
    <3>2. wt \in Trees /\ Range(log) \subseteq Trees
      BY <1>1, TreesAtHand DEF WsInv
    <3>. QED  BY <2>1, <3>1, <3>2, RowsAside
  <2>2. ASSUME NEW tree \in Range(main')
        PROVE  (tree = Merged /\ main' = Append(main, Merged)) \/ tree \in Trees
    <3>1. CASE main' = main
      BY <2>2, <3>1 DEF Trees
    <3>2. CASE main' = Append(main, Merged)
      BY <1>4, <2>2, <3>2 DEF Trees
    <3>. QED  BY <1>1, <3>1, <3>2
  <2>. QED  BY <1>5, <2>1, <2>2
<1>7. TextsKept'
  <2>1. CASE main' = main /\ ~(main' = Append(main, Merged))
    BY <1>1, <1>6, <2>1, TextsStep
  <2>2. CASE main' = Append(main, Merged)
    BY <1>1, <1>2, <1>6, <2>2, MergedStands, TrunkGrows DEF Excused
  <2>. QED  BY <1>1, <2>1, <2>2
<1>8. IndexKnows' /\ index' \in [Path -> (SUBSET Name) \cup {Gone}]
  <2>1. Range(log') \subseteq Tree
    BY <1>2 DEF Range
  <2>2. /\ Trees' \subseteq Tree /\ Last(main') \in Trees'
        /\ claimed \subseteq claimed' /\ slipped \subseteq slipped'
    BY <1>1, <1>4, <1>5, <2>1
  <2>. QED  BY <1>1, <1>7, <2>2, IndexStep
<1>9. WsTypeOK'
  <2>1. base' \in 0 .. Len(main') /\ head' \in 0 .. Len(log') /\ newHead' \in 0 .. Len(log')
    <3>1. base \in 0 .. Len(main) /\ head \in 0 .. Len(log) /\ newHead \in 0 .. Len(log)
          /\ Len(log) \in Nat /\ Len(main) \in Nat /\ Len(log') \in Nat /\ Len(main') \in Nat
      BY <1>2, <1>3, <1>4 DEF WsInv, WsTypeOK
    <3>. QED  BY <1>1, <1>2, <1>4, <3>1
  <2>. QED  BY <1>1, <1>2, <1>4, <1>8, <2>1 DEF WsInv, WsTypeOK
<1>10. BranchFromBase'
  <2>1. newHead = 0
    BY <1>1 DEF WsInv, BranchFromBase
  <2>2. Len(main') # 0
    BY <1>3, <1>4
  <2>. QED  BY <1>1, <2>1, <2>2 DEF BranchFromBase
<1>11. RowsAreClaimed'
  BY <1>1 DEF WsInv, RowsAreClaimed, Owned
<1>. QED  BY <1>7, <1>8, <1>9, <1>10, <1>11 DEF WsInv

\* It is not: the worktree stays, with the tests and the commit of them.
LEMMA MergeConflictsInv ==
    ASSUME WsInv, MergeConflicts
    PROVE  WsInv'
<1>1. UNCHANGED <<main, base, made, head, session, newHead, tests, own, claimed, slipped>>
      /\ made /\ log' = Branch /\ wt' = Delivered /\ status' = "deferred"
      /\ index' \in {Grains(Project), index}
  BY DEF MergeConflicts, Deliverable, ReindexMain, Refresh, Project, rows
<1>2. /\ log' \in Seq(Tree) /\ Len(log') >= Len(log) /\ Delivered \in Tree
      /\ Range(log') \subseteq Range(log) \cup {Delivered}
      /\ \A i \in DOMAIN log : log'[i] = log[i]
  BY <1>1, BranchDelivers, RowsAside
<1>3. log \in Seq(Tree) /\ wt \in Trees /\ Project \in Trees /\ Trees \subseteq Tree
  BY <1>1, TreesAtHand DEF WsInv, WsTypeOK
<1>4. Trees' \subseteq Trees \cup {Delivered} /\ Project \in Trees'
  <2>1. Range(main') = Range(main) /\ wt' = Delivered
    BY <1>1
  <2>2. Trees' = (Range(log') \cup (IF made' THEN {wt'} ELSE {})) \cup Range(main')
    BY DEF Trees, Branches
  <2>3. Range(log) \subseteq Trees /\ Range(main) \subseteq Trees /\ Project \in Range(main)
    <3>1. Project = main[Len(main)] /\ Len(main) \in DOMAIN main
      BY TreesAtHand DEF WsInv
    <3>. QED  BY <3>1, TreesAtHand DEF WsInv, Range
  <2>. QED  BY <1>2, <2>1, <2>2, <2>3
<1>5. TextsKept'
  BY <1>1, <1>3, <1>4, RowsAside, TextsStep
<1>6. IndexKnows' /\ index' \in [Path -> (SUBSET Name) \cup {Gone}]
  <2>1. Trees' \subseteq Tree /\ claimed \subseteq claimed' /\ slipped \subseteq slipped'
    BY <1>1, <1>2, <1>3, <1>4
  <2>. QED  BY <1>1, <1>4, <1>5, <2>1, IndexStep
<1>7. WsTypeOK'
  <2>1. base' \in 0 .. Len(main') /\ head' \in 0 .. Len(log') /\ newHead' \in 0 .. Len(log')
    <3>1. base \in 0 .. Len(main) /\ head \in 0 .. Len(log) /\ newHead \in 0 .. Len(log)
          /\ Len(log) \in Nat /\ Len(log') \in Nat
      BY <1>2, <1>3 DEF WsInv, WsTypeOK
    <3>. QED  BY <1>1, <1>2, <3>1
  <2>. QED  BY <1>1, <1>2, <1>6, <2>1 DEF WsInv, WsTypeOK
<1>8. BranchFromBase'
  <2>1. Len(main) # 0 /\ base \in 1 .. Len(log) /\ \A i \in 1 .. base : i \in DOMAIN log /\ log[i] = main[i]
    BY <1>1, <1>3 DEF WsInv, BranchFromBase
  <2>2. base \in 1 .. Len(log')
    BY <1>2, <1>3, <2>1
  <2>. QED  BY <1>1, <1>2, <2>1, <2>2 DEF WsInv, BranchFromBase
<1>9. RowsAreClaimed'
  BY <1>1 DEF WsInv, RowsAreClaimed, Owned
<1>. QED  BY <1>5, <1>6, <1>7, <1>8, <1>9 DEF WsInv

\* Every step keeps the invariant.
LEMMA WsNextInv == WsInv /\ [WsNext]_wsVars => WsInv'
<1> SUFFICES ASSUME WsInv, [WsNext]_wsVars PROVE WsInv'
  OBVIOUS
<1>1. CASE UNCHANGED wsVars
  <2>1. UNCHANGED <<repo, status, made, wt, head, session, newHead, index, rows>>
    BY <1>1 DEF wsVars
  <2>2. WsTypeOK' /\ BranchFromBase'
    BY <2>1 DEF WsInv, WsTypeOK, BranchFromBase, repo, rows
  <2>. QED  BY <2>1, <2>2, FilesAlone DEF WsInv
<1>2. CASE \/ Wake \/ Commit \/ Land \/ Fail \/ Boot
           \/ \E f \in Path, spelt \in Spelling : TakeOut(f, spelt)
           \/ \E f \in Source : \E t \in Draft[f] : CodeWrite(f, t)
  BY <1>2, SessionsComeAndGo, CommitInv, LandInv, TakeOutInv, CodeWriteInv
<1>3. CASE \/ \E p \in TestPath, t \in TestText : Encode(p, t)
           \/ Harness \/ StartWithout \/ Start \/ Resume
           \/ Stop("deferred") \/ Stop("abandoned")
  BY <1>3, EncodeInv, HarnessInv, StartWithoutInv, StartInv, ResumeInv, StopInv
<1>4. CASE \/ \E f \in Path : \E t \in TestText \cup UNION Range(Draft) \cup {Gone} : OtherMerges(f, t)
           \/ MergeClean \/ MergeConflicts
  BY <1>4, OtherMergesInv, MergeCleanInv, MergeConflictsInv
<1>. QED  BY <1>1, <1>2, <1>3, <1>4 DEF WsNext

-----------------------------------------------------------------------------
(***************************************************************************)
(* The theorems.                                                           *)
(***************************************************************************)

\* The inductive invariant holds in every reachable state.
THEOREM WorkspaceInvariant == WsSpec => []WsInv
  BY WsInitInv, WsNextInv, PTL DEF WsSpec

\* Every tree on either branch is a tree, and no head is past the branch.
THEOREM WorkspaceTypeCorrect == WsSpec => []WsTypeOK
  BY WorkspaceInvariant, PTL DEF WsInv

\* Through every write, removal, commit, crash, stale index, conflict and merge the
\* files of the project that the indexer reads stay, and its entry points keep their
\* main block and their names, but those an empty write spelt another way.
THEOREM ProgramSurvives == WsSpec => []ProgramStands
<1>1. WsInv => ProgramStands
  BY DEF WsInv, TextsKept, Preserves, Stands, ProgramStands, KeepsEntry, Trees, Excused
<1>. QED  BY <1>1, WorkspaceInvariant, PTL

\* No file of a batch reaches what no criterion asked for, unless the project's
\* own branch reached it from there.
THEOREM FenceStands == WsSpec => []FenceHolds
<1>1. WsInv => FenceHolds
  BY DEF WsInv, TextsKept, Preserves, OpensNothing, FenceHolds, Trees
<1>. QED  BY <1>1, WorkspaceInvariant, PTL

\* What a merge delivers of the criterion's test is the row, whatever the branch
\* and the project's branch made of the file meanwhile.
THEOREM TestIsDelivered == WsSpec => DeliversTheTest
<1> DEFINE Delivers == status' = "merged" /\ status # "merged" /\ own # Gone /\ main[base][own] = Gone
                       => Last(main')[own] = tests[own]
<1>1. WsInv /\ [WsNext]_wsVars => Delivers
  <2>1. SUFFICES ASSUME WsInv, WsNext, status' = "merged", status # "merged",
                        own # Gone, main[base][own] = Gone
                 PROVE  Last(main')[own] = tests[own]
    BY DEF wsVars
  <2>2. MergeClean
    BY <2>1 DEF WsNext, Wake, Commit, Land, Fail, Boot, TakeOut, CodeWrite, Encode, Harness,
           StartWithout, Start, Resume, Stop, OtherMerges, MergeConflicts
  <2>3. made /\ own \in Owned /\ own \in Path /\ tests[own] # Gone
    BY <2>1, <2>2 DEF MergeClean, Deliverable, WsInv, RowsAreClaimed, Owned
  <2>4. Last(Branch) = Delivered /\ Last(Branch)[own] = tests[own] /\ Last(Branch) \in Tree
    BY <2>1, <2>3, BranchDelivers, RowsAside
  <2>5. CASE Len(Branch) = base
    <3>1. /\ Branch \in Seq(Tree) /\ Len(Branch) >= Len(log) /\ base \in 1 .. Len(log)
          /\ log[base] = main[base] /\ Branch[base] = log[base]
      <4>1. base \in 1 .. Len(log) /\ log[base] = main[base] /\ log \in Seq(Tree)
        BY <2>1, <2>3 DEF WsInv, WsTypeOK, BranchFromBase
      <4>. QED  BY <2>1, <2>3, <4>1, BranchDelivers
    <3>2. Last(Branch) = main[base]
      BY <2>5, <3>1 DEF Last
    <3>. QED  BY <2>1, <2>3, <2>4, <3>2
  <2>6. CASE Len(Branch) # base
    <3>1. main' = Append(main, Merged) /\ main \in Seq(Tree) /\ Merged \in Tree
      BY <2>1, <2>2, <2>3, <2>6, MergedStands DEF MergeClean, Merged, WsInv, WsTypeOK
    <3>2. Last(main') = Merged
      BY <3>1, AppendedTrees
    <3>3. Merged[own] = MergedText(Gone, Project[own], tests[own])
      BY <2>1, <2>3, <2>4 DEF Merged
    <3>. QED  BY <2>3, <3>2, <3>3 DEF MergedText, Side
  <2>. QED  BY <2>5, <2>6
<1>. QED  BY <1>1, WorkspaceInvariant, PTL DEF WsSpec, DeliversTheTest

=============================================================================
