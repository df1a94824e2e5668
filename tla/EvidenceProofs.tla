--------------------------- MODULE EvidenceProofs ---------------------------
(***************************************************************************)
(* Theorems about the two components that keep evidence of the tree:       *)
(* MergeGate (the commit under review and the runs, verdicts and findings  *)
(* of it) and Onboarding (the areas and the surveys of them; names of its  *)
(* own begin with Ob). They share no state: each half of this module is    *)
(* about one.                                                              *)
(***************************************************************************)
EXTENDS MergeGate, Onboarding, TLAPS

(***************************************************************************)
(* MergeGate, for every set of files and tests and every bound. The        *)
(* inductive invariant adds to the types the two facts the action          *)
(* properties rest on: no evidence runs ahead of the head, and a run that  *)
(* is kept is of the encoding that is kept.                                *)
(***************************************************************************)
\* Nothing is known of a commit the head has not reached.
FutureUnjudged ==
    \A c \in Commit : c > head => verdict[c] = "none" /\ finding[c] = "none"

\* A run that is kept is a run of the encoding that is kept.
RunsOfBody == \A t \in Test : run[t].result # "none" => run[t].body = body[t]

\* The inductive invariant.
IInv == TypeOK /\ FutureUnjudged /\ RunsOfBody

\* A batch just started has no evidence at all.
LEMMA InitInv == Init => IInv
<1> SUFFICES ASSUME Init PROVE IInv
    OBVIOUS
<1>1. TypeOK
    BY MergeGateAssumption DEF Init, TypeOK, Commit, Test, NoRun
<1>2. FutureUnjudged /\ RunsOfBody
    BY DEF Init, FutureUnjudged, RunsOfBody, NoRun
<1> QED
    BY <1>1, <1>2 DEF IInv

\* A commit moves the branch forward by one and stays within the bound.
LEMMA CommittedType ==
    ASSUME TypeOK, NEW touched \in SUBSET Path, Committed(touched)
    PROVE  /\ tip' \in Commit /\ tip' > tip
           /\ carried' \subseteq Path
    BY MergeGateAssumption DEF TypeOK, Committed, Commit

\* A session of the Developer only ever moves the head forward, onto a commit
\* no head has been, so the commits ahead of it stay unjudged.
LEMMA DeveloperWorksInv ==
    ASSUME IInv, DeveloperWorks
    PROVE  IInv'
<1> USE DEF IInv
<1>1. PICK wrote \in SUBSET Path :
          \/ /\ dirty' = dirty \cup wrote
             /\ UNCHANGED <<tip, head, carried, stray>>
          \/ /\ dirty \cup wrote # {} /\ Committed(dirty \cup wrote)
             /\ dirty' \in SUBSET wrote
             /\ \/ head' = tip' /\ StraysRecorded(dirty \cup wrote)
                \/ UNCHANGED <<head, stray>>
    BY DEF DeveloperWorks
<1>2. UNCHANGED <<status, body, run, verdict, finding, ground, held>>
    BY DEF DeveloperWorks
<1>3. (dirty \cup wrote) \in SUBSET Path
    BY DEF TypeOK
<1>4. /\ tip' \in Commit /\ tip' >= tip /\ carried' \subseteq Path /\ dirty' \subseteq Path
      /\ head' = head \/ head' = tip'
    BY <1>1, <1>3, CommittedType DEF TypeOK, Commit
<1>5. head' \in 0 .. tip' /\ head' >= head
    BY <1>4 DEF TypeOK, Commit
<1>6. stray' \in [Commit -> [Path -> {"none", "open", "foreseen", "mistake"}]]
    BY <1>1, <1>4 DEF TypeOK, StraysRecorded
<1>7. TypeOK'
    BY <1>2, <1>4, <1>5, <1>6 DEF TypeOK, ground
<1>8. FutureUnjudged'
    BY <1>2, <1>5 DEF FutureUnjudged, TypeOK, Commit
<1>9. RunsOfBody'
    BY <1>2 DEF RunsOfBody
<1> QED
    BY <1>7, <1>8, <1>9

\* A re-encoded test loses its run.
LEMMA EncodeInv ==
    ASSUME IInv, NEW t \in Criteria, Encode(t)
    PROVE  IInv'
<1> USE DEF IInv
<1>1. t \in Test
    BY DEF Test
<1>2. TypeOK'
    BY <1>1, MergeGateAssumption DEF Encode, TypeOK, NoRun, code, ground
<1>3. FutureUnjudged'
    BY DEF Encode, FutureUnjudged, code
<1>4. RunsOfBody'
    BY <1>1 DEF Encode, RunsOfBody, NoRun, TypeOK
<1> QED
    BY <1>2, <1>3, <1>4

\* The harness stamps the body it ran.
LEMMA HarnessInv ==
    ASSUME IInv, Harness
    PROVE  IInv'
<1> USE DEF IInv
<1>1. PICK passed \in SUBSET Encoded :
          run' = [t \in Test |->
                    IF t \notin Encoded THEN run[t]
                    ELSE [at |-> head, body |-> body[t],
                          result |-> IF t \in passed THEN "pass" ELSE "fail"]]
    BY DEF Harness
<1>2. TypeOK'
  <2>1. head \in 0 .. MaxCommit
    BY MergeGateAssumption DEF TypeOK, Commit
  <2>2. run' \in [Test -> [at : 0 .. MaxCommit, body : 0 .. MaxBody,
                           result : {"none", "pass", "fail"}]]
    BY <1>1, <2>1 DEF TypeOK
  <2> QED
    BY <2>2 DEF Harness, TypeOK, code, ground
<1>3. FutureUnjudged'
    BY DEF Harness, FutureUnjudged, code
<1>4. RunsOfBody'
    BY <1>1 DEF Harness, RunsOfBody
<1> QED
    BY <1>2, <1>3, <1>4

\* Verdicts, findings and stray judgements are written at the head.
LEMMA JudgementInv ==
    ASSUME IInv, Judge \/ Find \/ JudgeTouch
    PROVE  IInv'
<1> USE DEF IInv
<1>1. TypeOK'
  <2>1. CASE Judge
    BY <2>1 DEF Judge, TypeOK, code, ground
  <2>2. CASE Find
    BY <2>2 DEF Find, TypeOK, code, ground
  <2>3. CASE JudgeTouch
    <3>1. stray' \in [Commit -> [Path -> {"none", "open", "foreseen", "mistake"}]]
      <4>1. \A p \in Path : head \in Commit => stray[head][p] \in {"none", "open", "foreseen", "mistake"}
        BY DEF TypeOK
      <4> QED
        BY <2>3, <4>1 DEF JudgeTouch, TypeOK
    <3>2. touch' \subseteq Grain
      BY <2>3, MergeGateAssumption DEF JudgeTouch, StraysAtHead, TypeOK
    <3> QED
      BY <2>3, <3>1, <3>2 DEF JudgeTouch, TypeOK, code
  <2> QED
    BY <2>1, <2>2, <2>3
<1>2. FutureUnjudged'
  <2>1. CASE Judge
    BY <2>1 DEF Judge, FutureUnjudged, TypeOK, code
  <2>2. CASE Find
    BY <2>2 DEF Find, FutureUnjudged, TypeOK, code
  <2>3. CASE JudgeTouch
    BY <2>3 DEF JudgeTouch, FutureUnjudged, code
  <2> QED
    BY <2>1, <2>2, <2>3
<1>3. RunsOfBody'
    BY DEF Judge, Find, JudgeTouch, RunsOfBody
<1> QED
    BY <1>1, <1>2, <1>3

\* Merging, moving, rebooting and holding write no evidence, and neither does
\* what grows the prediction or rewrites the register.
LEMMA BatchInv ==
    ASSUME IInv, Merge \/ Move \/ Boot \/ Hold \/ Annotate \/ Amend
    PROVE  IInv'
<1> USE DEF IInv
<1>1. CASE Merge
  <2>1. dirty \in SUBSET Path
    BY DEF TypeOK
  <2>2. tip' \in Commit /\ tip' >= tip /\ carried' \subseteq Path
    BY <1>1, <2>1, CommittedType DEF Merge, TypeOK, Commit
  <2>3. TypeOK'
    BY <1>1, <2>2 DEF Merge, TypeOK, Commit, evidence, ground
  <2> QED
    BY <1>1, <2>3 DEF Merge, evidence, FutureUnjudged, RunsOfBody
<1>2. CASE Move
    BY <1>2 DEF Move, TypeOK, FutureUnjudged, RunsOfBody, code, evidence, ground
<1>3. CASE Boot
  <2>1. TypeOK'
    BY <1>3 DEF Boot, TypeOK, Commit, evidence, ground
  <2>2. FutureUnjudged'
    BY <1>3 DEF Boot, TypeOK, FutureUnjudged, Commit, evidence
  <2> QED
    BY <1>3, <2>1, <2>2 DEF Boot, RunsOfBody, evidence
<1>4. CASE Hold
    BY <1>4 DEF Hold, TypeOK, FutureUnjudged, RunsOfBody, code, evidence, ground
<1>5. CASE Annotate
    BY <1>5 DEF Annotate, TypeOK, FutureUnjudged, RunsOfBody, code, evidence
<1>6. CASE Amend
    BY <1>6 DEF Amend, TypeOK, FutureUnjudged, RunsOfBody, code, evidence
<1> QED
    BY <1>1, <1>2, <1>3, <1>4, <1>5, <1>6

\* Every step preserves the invariant.
LEMMA NextInv == IInv /\ [Next]_vars => IInv'
<1> SUFFICES ASSUME IInv, [Next]_vars PROVE IInv'
    OBVIOUS
<1>1. CASE UNCHANGED vars
    BY <1>1 DEF vars, code, evidence, ground, IInv, TypeOK, FutureUnjudged, RunsOfBody
<1>2. CASE Next
    BY <1>2, DeveloperWorksInv, EncodeInv, HarnessInv, JudgementInv, BatchInv DEF Next
<1> QED
    BY <1>1, <1>2

\* The inductive invariant holds in every reachable state.
THEOREM EvidenceInvariant == Spec => []IInv
    BY InitInv, NextInv, PTL DEF Spec

\* Every reachable state is well typed; the head is always a commit made.
THEOREM TypeCorrect == Spec => []TypeOK
    BY EvidenceInvariant, PTL DEF IInv

\* Whatever moves the head moves it to a commit without verdict or finding.
THEOREM HeadsStartUnjudged == Spec => NewHeadIsUnjudged
<1> DEFINE Unjudged == head' # head => verdict[head'] = "none" /\ finding[head'] = "none"
<1>1. IInv /\ [Next]_vars => Unjudged
  <2> SUFFICES ASSUME IInv, [Next]_vars, head' # head
               PROVE  verdict[head'] = "none" /\ finding[head'] = "none"
    OBVIOUS
  <2>1. head' \in Commit /\ head' > head
    <3>1. CASE DeveloperWorks
      <4>1. PICK wrote \in SUBSET Path : head' = tip' /\ Committed(dirty \cup wrote)
        BY <3>1 DEF DeveloperWorks
      <4>2. (dirty \cup wrote) \in SUBSET Path
        BY DEF IInv, TypeOK
      <4> QED
        BY <4>1, <4>2, CommittedType DEF IInv, TypeOK, Commit
    <3>2. CASE Boot
      BY <3>2 DEF Boot, IInv, TypeOK, Commit
    <3>3. CASE \/ Harness \/ Judge \/ Find \/ JudgeTouch \/ Merge \/ Move \/ Hold
               \/ Annotate \/ Amend \/ \E t \in Criteria : Encode(t)
      BY <3>3 DEF Harness, Judge, Find, JudgeTouch, Annotate, Amend, Merge, Move, Hold, Encode, code
    <3> QED
      BY <3>1, <3>2, <3>3 DEF Next, vars, code
  <2> QED
    BY <2>1 DEF IInv, FutureUnjudged
<1> QED
    BY <1>1, EvidenceInvariant, PTL DEF Spec, NewHeadIsUnjudged

\* Every test passes at the head, in its present encoding, when a batch merges.
THEOREM MergesAreTested == Spec => MergesTested
<1> DEFINE Tested == Merges => \A t \in Encoded :
          /\ run[t].at = head /\ run[t].result = "pass" /\ run[t].body = body[t]
<1>1. IInv /\ [Next]_vars => Tested
  <2> SUFFICES ASSUME IInv, [Next]_vars, Merges, NEW t \in Encoded
               PROVE  run[t].at = head /\ run[t].result = "pass" /\ run[t].body = body[t]
    OBVIOUS
  <2>1. Merge
    <3>1. CASE Move
      BY <3>1 DEF Move, Merges
    <3>2. CASE \/ DeveloperWorks \/ Harness \/ Judge \/ Find \/ JudgeTouch \/ Boot \/ Hold
               \/ Annotate \/ Amend \/ \E c \in Criteria : Encode(c)
      BY <3>2 DEF DeveloperWorks, Harness, Judge, Find, JudgeTouch, Boot, Hold, Annotate, Amend,
                  Encode, Merges
    <3> QED
      BY <3>1, <3>2 DEF Next, vars, Merges
  <2>2. t \in Test /\ status = "running" /\ Mergeable /\ ~HarnessDue
    BY <2>1 DEF Merge, MergeTurn, MergeDue, Encoded
  <2>3. RunAtHead(t)
    BY <2>2 DEF HarnessDue, Started, Mergeable
  <2>4. t \notin NotPassed
    BY <2>2 DEF Mergeable
  <2> QED
    BY <2>2, <2>3, <2>4 DEF RunAtHead, NotPassed, IInv, RunsOfBody
<1> QED
    BY <1>1, EvidenceInvariant, PTL DEF Spec, MergesTested

\* The case analysis behind NeverStalls: if none of the predicates offers the
\* batch, every condition of lifecycle.mergeable is met and the merge is offered.
LEMMA OfferedOrHeld ==
    ASSUME TypeOK, Started, ~held, finding[head] = "violated" => BelowCap
    PROVE  Offered
<1> SUFFICES ASSUME ~Offered PROVE FALSE
    OBVIOUS
<1>1. head \in Commit /\ head # 0 /\ status = "running"
    BY MergeGateAssumption DEF TypeOK, Started, Commit
<1>2. Untested = {} /\ StraysAtHead("open") = {} /\ StraysAtHead("mistake") = {}
  <2>1. ~TestsMissing /\ ~TouchStrayed /\ ~TouchMistaken
    BY DEF Offered
  <2> QED
    BY <2>1 DEF TestsMissing, TouchStrayed, TouchMistaken
<1>3. \A t \in Encoded : RunAtHead(t)
    BY DEF Offered, HarnessDue
<1>4. NotPassed = {}
  <2>1. \A t \in Test : run[t].result \in {"none", "pass", "fail"}
    BY DEF TypeOK
  <2> QED
    BY <2>1 DEF NotPassed, RunAtHead, Offered, TestsFailing
<1>5. \E t \in Test : RunAtHead(t)
  <2>1. PICK t \in Criteria : TRUE
    BY MergeGateAssumption
  <2>2. t \in Encoded
    BY <1>2 DEF Untested, Encoded, Test
  <2> QED
    BY <1>3, <2>2 DEF Encoded
<1>6. verdict[head] = "pass"
  <2>1. verdict[head] \in {"none", "pass", "fail"}
    BY <1>1 DEF TypeOK
  <2>2. verdict[head] # "none"
    BY <1>2, <1>4, <1>5 DEF Offered, ReviewDue
  <2>3. verdict[head] # "fail"
    BY <1>1 DEF Offered, VerdictFailed
  <2> QED
    BY <2>1, <2>2, <2>3
<1>7. finding[head] # "violated"
    BY DEF Offered, FindingViolated
<1>8. finding[head] = "none" => ~NeedsReview
    BY <1>6 DEF Offered, StructuralDue
<1>9. Mergeable
    BY <1>1, <1>2, <1>4, <1>6, <1>7, <1>8 DEF Mergeable
<1> QED
    BY <1>1, <1>9 DEF Offered, MergeDue

\* The gate and the predicates agree: below the cap a batch never waits for
\* nobody.
THEOREM GatesLeaveNoGap == Spec => []NeverStalls
<1>1. TypeOK => NeverStalls
    BY OfferedOrHeld DEF NeverStalls
<1> QED
    BY <1>1, TypeCorrect, PTL

-----------------------------------------------------------------------------
(***************************************************************************)
(* Onboarding. The inductive invariant adds to the types what the phases   *)
(* rest on: a record is of the content its session read, constraint zero   *)
(* is never smaller than what is unread, a rebinding that was given up was *)
(* of areas that stay read, and what is deferred was on a page.            *)
(***************************************************************************)

\* A session is woken for a key, and notes a content that is one.
SessionTyped ==
    /\ session \in [on : Key, live : BOOLEAN, wake : 0 .. MaxStamp]
    /\ session.live => session.wake # 0

\* What a record says and what its session saw are the same content.
RecordedAsRead == record = read

\* Constraint zero leaves out no area that is due to it, and binds none outside
\* the partition.
ZeroIsBounded == ZeroOver(areas) \subseteq zero /\ zero \subseteq areas

\* A rebinding that was given up was of areas that stay read, so they do not
\* come back.
GivenUpIsRead ==
    \A R \in SUBSET Area : <<"zero", "-", R>> \in gone => R \subseteq ReadBySome /\ R \cap zero = {}

\* Until the lazy election nothing is deferred that was not on a page.
DealtWasShown == lazy \/ dealt \subseteq shown

ObInv ==
    /\ ObTypeOK /\ SessionTyped /\ RecordedAsRead /\ ZeroIsBounded /\ GivenUpIsRead
    /\ DealtWasShown /\ FindingIsOnFile

-----------------------------------------------------------------------------
(***************************************************************************)
(* Keys and phases.                                                        *)
(***************************************************************************)

\* The tables of keys are apart, and a survey's key is <<"survey", role, area>>.
LEMMA KeysApart ==
    /\ Key \cap Zero = {}
    /\ \A k \in Key : PhaseOf(k) = "survey" <=> k \in Survey
    /\ \A k \in Survey : k[2] \in Surveyor /\ Subject(k) \in Area /\ k = SurveyOf(k[2], Subject(k))
    /\ \A r \in Surveyor, a \in Area : SurveyOf(r, a) \in Survey /\ SurveyOf(r, a) \in Key
    /\ \A k \in Key : PhaseOf(k) = "define" => Subject(k) \in Word
    /\ \A R \in SUBSET Area : <<"zero", "-", R>> \in Zero
  BY DEF Key, Zero, PhaseOf, Subject, Survey, Surveyor, SurveyOf, Frame, Program, Reorient,
         Blind, Prose, Term, Boundary, Challenge

\* What a phase wakes anybody for is a key.
LEMMA WakesAreKeys ==
    ASSUME ObTypeOK
    PROVE  \A i \in DOMAIN Stages : WakesOf(Stages[i]) \subseteq Key
<1>1. SurveyWakes \subseteq Key
  BY KeysApart DEF SurveyWakes, Outstanding, ObTypeOK, Surveyor
<1>2. \A K, b : Open(K) \subseteq K /\ When(b, K) \subseteq K
  BY DEF Open, When
<1>3. {Frame, Program, Reorient, Blind} \subseteq Key /\ Prose \subseteq Key /\ Term \subseteq Key
      /\ Boundary \subseteq Key /\ Challenge \subseteq Key
  BY DEF Key
<1>4. Pending \subseteq Key
  BY <1>2, <1>3 DEF Pending
<1>5. Claimed \subseteq Key
  BY <1>3 DEF Claimed
<1>6. Open({Frame}) \subseteq Key /\ Open({Program}) \subseteq Key /\ Open({Reorient}) \subseteq Key
      /\ Open({Blind}) \subseteq Key /\ Open(Prose) \subseteq Key /\ Open(Boundary) \subseteq Key
      /\ Open(Claimed) \subseteq Key
  BY <1>2, <1>3, <1>5
<1>7. \A p \in {"frame", "orient", "reconcile", "define", "survey", "reorient", "boundaries",
                 "challenge", "blindspots"} : WakesOf(p) \subseteq Key
  BY <1>1, <1>2, <1>4, <1>6 DEF WakesOf
<1>. QED  BY <1>7 DEF Stages

\* The current phase is one with something outstanding, all before it have nothing;
\* when there is none, no phase has.
LEMMA PhaseIsFirst ==
    /\ Phase = "done" => Due = {}
    /\ Phase # "done" => \E i \in Due : Phase = Stages[i] /\ \A j \in Due : i <= j
    /\ Phase = "done" \/ \E i \in DOMAIN Stages : Phase = Stages[i]
<1>1. Due \subseteq 1 .. 9
  BY DEF Due, Stages
<1>2. \A i \in 1 .. 9 : Stages[i] # "done"
  BY DEF Stages
<1>3. ASSUME Due # {}
      PROVE  \E i \in Due : \A j \in Due : i <= j
  <2>1. SUFFICES ASSUME \A i \in Due : \E j \in Due : j < i
                 PROVE  FALSE
    BY <1>1
  <2>2. 1 \notin Due /\ 2 \notin Due /\ 3 \notin Due
    BY <1>1, <2>1
  <2>3. 4 \notin Due /\ 5 \notin Due /\ 6 \notin Due
    BY <1>1, <2>1, <2>2
  <2>4. 7 \notin Due /\ 8 \notin Due /\ 9 \notin Due
    BY <1>1, <2>1, <2>2, <2>3
  <2>5. PICK i \in Due : i \in 1 .. 9
    BY <1>1, <1>3
  <2>. QED  BY <2>2, <2>3, <2>4, <2>5
<1>4. CASE Due = {}
  BY <1>4 DEF Phase
<1>5. CASE Due # {}
  <2>1. Phase = Stages[CHOOSE i \in Due : \A j \in Due : i <= j]
    BY <1>5 DEF Phase
  <2>2. PICK i \in Due : i = (CHOOSE m \in Due : \A j \in Due : m <= j) /\ \A j \in Due : i <= j
    BY <1>3, <1>5
  <2>3. Phase = Stages[i] /\ i \in 1 .. 9 /\ i \in DOMAIN Stages
    BY <1>1, <2>1, <2>2 DEF Due
  <2>. QED  BY <1>2, <2>2, <2>3
<1>. QED  BY <1>4, <1>5

LEMMA PhasedAreKeys ==
    ASSUME ObTypeOK
    PROVE  Phased \subseteq Key
  BY PhaseIsFirst, WakesAreKeys DEF Phased

LEMMA ZeroWakeIsOne ==
    ASSUME ObTypeOK
    PROVE  ZeroWake \subseteq Zero
  BY OnboardingAssumption DEF ZeroWake, Zero, ObTypeOK

-----------------------------------------------------------------------------
(***************************************************************************)
(* Counting: what is given up is what is at the cap.                       *)
(***************************************************************************)

\* A dispatch of something offered keeps the counters within the cap, and what
\* is at the cap given up; it gives up nothing but its own tick.
LEMMA DispatchCounts ==
    ASSUME ObTypeOK, NEW k \in ZeroWake \cup Phased, k \notin gone, Dispatched(k)
    PROVE  /\ tries' \in [Key \cup Zero -> 0 .. AttemptCap]
           /\ gone' = {j \in Key \cup Zero : tries'[j] = AttemptCap}
           /\ gone' \subseteq gone \cup {k}
           /\ later' \in [Area -> Surveyor]
<1>1. k \in Key \cup Zero
  BY ZeroWakeIsOne, PhasedAreKeys
<1>2. AttemptCap \in Nat \ {0} /\ DOMAIN tries = Key \cup Zero
  BY OnboardingAssumption DEF ObTypeOK
<1>3. k \in Kept /\ gone \subseteq Kept
  BY DEF Kept
<1>4. tries' = [Forgotten(Kept) EXCEPT ![k] = @ + 1]
  BY DEF Dispatched, Attempt
<1>5. \A j \in Key \cup Zero : tries[j] \in 0 .. AttemptCap /\ (j \in gone <=> tries[j] = AttemptCap)
  BY DEF ObTypeOK
<1>6. Forgotten(Kept) = [j \in Key \cup Zero |-> IF j \in Kept THEN tries[j] ELSE 0]
  BY <1>2 DEF Forgotten
<1>7. tries'[k] = tries[k] + 1 /\ tries[k] \in 0 .. AttemptCap - 1
  BY <1>1, <1>2, <1>3, <1>4, <1>5, <1>6
<1>8. \A j \in (Key \cup Zero) \ {k} : tries'[j] = IF j \in Kept THEN tries[j] ELSE 0
  BY <1>4, <1>6
<1>9. tries' \in [Key \cup Zero -> 0 .. AttemptCap]
  <2>1. DOMAIN tries' = Key \cup Zero /\ tries' = [j \in Key \cup Zero |-> tries'[j]]
    BY <1>4, <1>6
  <2>2. \A j \in Key \cup Zero : tries'[j] \in 0 .. AttemptCap
    BY <1>2, <1>5, <1>7, <1>8
  <2>. QED  BY <2>1, <2>2
<1>10. gone' = {j \in Key \cup Zero : tries'[j] = AttemptCap} /\ gone' \subseteq gone \cup {k}
  <2>1. gone' = IF tries'[k] >= AttemptCap THEN gone \cup {k} ELSE gone
    BY DEF Dispatched
  <2>2. tries'[k] >= AttemptCap <=> tries'[k] = AttemptCap
    BY <1>2, <1>7
  <2>3. \A j \in (Key \cup Zero) \ {k} : j \in gone <=> tries'[j] = AttemptCap
    BY <1>2, <1>3, <1>5, <1>8
  <2>4. gone \subseteq Key \cup Zero
    BY DEF ObTypeOK
  <2>. QED  BY <1>1, <2>1, <2>2, <2>3, <2>4
<1>11. later' \in [Area -> Surveyor]
  <2>1. PhaseOf(k) = "survey" => k[2] \in Surveyor /\ Subject(k) \in Area
    BY <1>1, KeysApart DEF Zero, PhaseOf
  <2>. QED  BY <2>1 DEF Dispatched, ObTypeOK
<1>. QED  BY <1>9, <1>10, <1>11

\* Reviving sets a counter back and takes nothing else from what is given up.
LEMMA RevivalCounts ==
    ASSUME ObTypeOK, NEW R, R \subseteq gone,
           gone' = gone \ R,
           tries' = [k \in DOMAIN tries |-> IF k \in R THEN 0 ELSE tries[k]]
    PROVE  /\ tries' \in [Key \cup Zero -> 0 .. AttemptCap]
           /\ gone' = {j \in Key \cup Zero : tries'[j] = AttemptCap}
<1>1. AttemptCap \in Nat \ {0} /\ DOMAIN tries = Key \cup Zero
  BY OnboardingAssumption DEF ObTypeOK
<1>2. \A j \in Key \cup Zero : tries[j] \in 0 .. AttemptCap /\ (j \in gone <=> tries[j] = AttemptCap)
  BY DEF ObTypeOK
<1>3. \A j \in Key \cup Zero : tries'[j] = IF j \in R THEN 0 ELSE tries[j]
  BY <1>1
<1>4. gone \subseteq Key \cup Zero
  BY DEF ObTypeOK
<1>. QED  BY <1>1, <1>2, <1>3, <1>4

-----------------------------------------------------------------------------
(***************************************************************************)
(* What a session can leave.                                               *)
(***************************************************************************)

\* What lands is observed rows, and a record of a finding comes with the row its
\* mode was there to write.
LEMMA ResultsAreOfTheirKey ==
    ASSUME NEW r \in Results
    PROVE  /\ r.on \in Key /\ r.lands \subseteq Row
           /\ r.records /\ r.found => Owed(r.on) \subseteq r.lands
<1>1. PICK k \in Key : r \in ResultsOn(k)
  BY DEF Results
<1>2. PICK d \in Deeds(k) :
        /\ Legal(k, d)
        /\ r = [on |-> k, records |-> Records(k, d), found |-> Outcome(d) = "found",
                lands |-> Landing(k, d), ruled |-> PhaseOf(k) = "frame" /\ d.wrote = "body"]
  BY <1>1 DEF ResultsOn
<1>3. d.wrote \in {"nothing", "refused", "title", "body"}
  BY DEF Deeds
<1>4. PhaseOf(k) = "define" => Subject(k) \in Word
  BY KeysApart
<1>5. Landing(k, d) \subseteq Row
  BY <1>4 DEF Landing, Row, Claim
<1>6. ASSUME Records(k, d), Outcome(d) = "found"
      PROVE  Owed(k) \subseteq Landing(k, d)
  <2>1. ~Nothing(d) /\ d.wrote \in {"title", "body"}
    BY <1>3, <1>6 DEF Outcome, Nothing
  <2>2. PhaseOf(k) # "challenge"
    BY <1>2, <2>1 DEF Legal
  <2>3. d.wrote = "body"
    BY <1>6, <2>1, <2>2 DEF Records
  <2>4. Constrains(k, d) <=> PhaseOf(k) \in {"survey", "boundaries"} /\ k[2] = "architect"
    BY <2>3 DEF Constrains
  <2>. QED  BY <2>1, <2>4 DEF Owed, Landing
<1>. QED  BY <1>2, <1>5, <1>6

-----------------------------------------------------------------------------
(***************************************************************************)
(* The steps.                                                              *)
(***************************************************************************)

\* Before the first tick every record is empty and constraint zero binds all
\* areas with code.
LEMMA ObInitInv == ObInit => ObInv
<1> SUFFICES ASSUME ObInit PROVE ObInv
  OBVIOUS
<1>1. AttemptCap \in Nat \ {0} /\ MaxStamp \in Nat \ {0} /\ Coded \subseteq Area
  BY OnboardingAssumption
<1>2. ObTypeOK
  <2>1. tries \in [Key \cup Zero -> 0 .. AttemptCap] /\ gone = {k \in Key \cup Zero : tries[k] = AttemptCap}
    BY <1>1 DEF ObInit
  <2>2. stamp \in [Area -> 1 .. MaxStamp] /\ record \in [Key -> 0 .. MaxStamp]
        /\ read \in [Key -> 0 .. MaxStamp] /\ later \in [Area -> Surveyor]
    BY <1>1 DEF ObInit, Surveyor
  <2>. QED  BY <2>1, <2>2 DEF ObInit, ObTypeOK
<1>3. SessionTyped
  BY <1>1 DEF ObInit, SessionTyped, NoSession, Key
<1>4. ZeroIsBounded /\ GivenUpIsRead
  BY <1>1 DEF ObInit, ZeroIsBounded, GivenUpIsRead, ZeroOver
<1>5. RecordedAsRead /\ DealtWasShown /\ FindingIsOnFile
  BY DEF ObInit, RecordedAsRead, DealtWasShown, FindingIsOnFile
<1>. QED  BY <1>2, <1>3, <1>4, <1>5 DEF ObInv

\* Dividing the index anew binds constraint zero to what is due in the new
\* partition, and nothing that was read comes back.
LEMMA PinKeepsZero ==
    ASSUME ObInv, Pin, UNCHANGED <<record, gone>>
    PROVE  /\ areas' \subseteq Area /\ zero' \subseteq Coded
           /\ ZeroIsBounded' /\ GivenUpIsRead'
<1>1. ReadBySome' = ReadBySome
  BY DEF ReadBySome, Recorded
<1>2. areas' = Partition /\ zero' = (Partition \cap Coded) \ ReadBySome
  BY DEF Pin, ZeroOver
<1>3. ZeroIsBounded'
  BY <1>1, <1>2 DEF ZeroIsBounded, ZeroOver
<1>4. GivenUpIsRead'
  BY <1>1, <1>2 DEF ObInv, GivenUpIsRead
<1>. QED  BY <1>2, <1>3, <1>4 DEF Partition

\* The frame's rulings applied.
LEMMA RepinInv ==
    ASSUME ObInv, Repin
    PROVE  ObInv'
<1>1. UNCHANGED <<ignored, stamp, tries, gone, later, record, rows, found, read, session,
                  shown, page, dealt, lazy>> /\ repinned' = TRUE
  BY DEF Repin, Count, Done, Seat
<1>2. areas' \subseteq Area /\ zero' \subseteq Coded /\ ZeroIsBounded' /\ GivenUpIsRead'
  BY <1>1, PinKeepsZero DEF Repin
<1>3. ObTypeOK'
  BY <1>1, <1>2 DEF ObInv, ObTypeOK
<1>4. SessionTyped' /\ RecordedAsRead' /\ DealtWasShown' /\ FindingIsOnFile'
  BY <1>1 DEF ObInv, SessionTyped, RecordedAsRead, DealtWasShown, FindingIsOnFile
<1>. QED  BY <1>2, <1>3, <1>4 DEF ObInv

\* The main checkout moves.
LEMMA RefreshInv ==
    ASSUME ObInv, Refresh
    PROVE  ObInv'
<1>1. UNCHANGED <<ignored, repinned, tries, gone, later, record, rows, found, read, session,
                  shown, page, dealt, lazy>>
  BY DEF Refresh, Count, Done, Seat
<1>2. areas' \subseteq Area /\ zero' \subseteq Coded /\ ZeroIsBounded' /\ GivenUpIsRead'
  BY <1>1, PinKeepsZero DEF Refresh
<1>3. stamp' \in [Area -> 1 .. MaxStamp]
  <2>1. PICK a \in areas \cap Moving : Restamp(a)
    BY DEF Refresh
  <2>2. a \in Area /\ MaxStamp \in Nat
    BY OnboardingAssumption DEF ObInv, ObTypeOK
  <2>. QED  BY <2>1, <2>2 DEF Restamp, ObInv, ObTypeOK
<1>4. ObTypeOK'
  BY <1>1, <1>2, <1>3 DEF ObInv, ObTypeOK
<1>5. SessionTyped' /\ RecordedAsRead' /\ DealtWasShown' /\ FindingIsOnFile'
  BY <1>1 DEF ObInv, SessionTyped, RecordedAsRead, DealtWasShown, FindingIsOnFile
<1>. QED  BY <1>2, <1>4, <1>5 DEF ObInv

\* The scheduler rebinds constraint zero: the areas of the tick are read, and
\* bound no more.
LEMMA RebindInv ==
    ASSUME ObInv, Rebind
    PROVE  ObInv'
<1>1. UNCHANGED <<areas, ignored, repinned, stamp, record, rows, found, read, session,
                  shown, page, dealt, lazy>>
  BY DEF Rebind, Done, Seat
<1>2. PICK k \in ZeroWake : k \notin gone /\ Dispatched(k)
  BY DEF Rebind, StillOffered
<1>3. /\ tries' \in [Key \cup Zero -> 0 .. AttemptCap]
      /\ gone' = {j \in Key \cup Zero : tries'[j] = AttemptCap}
      /\ gone' \subseteq gone \cup {k}
      /\ later' \in [Area -> Surveyor]
  BY <1>2, DispatchCounts DEF ObInv
<1>4. zero' = (areas \cap Coded) \ ReadBySome /\ ReadBySome' = ReadBySome
  BY <1>1 DEF Rebind, ZeroOver, ReadBySome, Recorded
<1>5. k = <<"zero", "-", zero \cap ReadBySome>>
  BY <1>2 DEF ZeroWake, ObInv, ZeroIsBounded
<1>6. ZeroIsBounded'
  BY <1>1, <1>4 DEF ZeroIsBounded, ZeroOver
<1>7. GivenUpIsRead'
  <2>1. SUFFICES ASSUME NEW R \in SUBSET Area, <<"zero", "-", R>> \in gone'
                 PROVE  R \subseteq ReadBySome /\ R \cap zero' = {}
    BY <1>4 DEF GivenUpIsRead
  <2>2. CASE <<"zero", "-", R>> \in gone
    BY <1>4, <2>2 DEF ObInv, GivenUpIsRead
  <2>3. CASE <<"zero", "-", R>> = k
    BY <1>4, <1>5, <2>3
  <2>. QED  BY <1>3, <2>1, <2>2, <2>3
<1>8. ObTypeOK'
  BY <1>1, <1>3, <1>4 DEF ObInv, ObTypeOK
<1>9. SessionTyped' /\ RecordedAsRead' /\ DealtWasShown' /\ FindingIsOnFile'
  BY <1>1 DEF ObInv, SessionTyped, RecordedAsRead, DealtWasShown, FindingIsOnFile
<1>. QED  BY <1>6, <1>7, <1>8, <1>9 DEF ObInv

\* A role is woken for a key of the current phase.
LEMMA DispatchInv ==
    ASSUME ObInv, Dispatch
    PROVE  ObInv'
<1>1. UNCHANGED <<areas, ignored, repinned, stamp, zero, record, rows, found, read,
                  shown, page, dealt, lazy>>
  BY DEF Dispatch, Done, Seat, Tree
<1>2. PICK k \in Phased :
        /\ k \notin gone /\ Dispatched(k)
        /\ session' = Fresh(k, IF PhaseOf(k) = "survey" THEN stamp[Subject(k)] ELSE 1)
  BY DEF Dispatch, StillOffered, First
<1>3. /\ tries' \in [Key \cup Zero -> 0 .. AttemptCap]
      /\ gone' = {j \in Key \cup Zero : tries'[j] = AttemptCap}
      /\ gone' \subseteq gone \cup {k}
      /\ later' \in [Area -> Surveyor]
  BY <1>2, DispatchCounts DEF ObInv
<1>4. k \in Key
  BY <1>2, PhasedAreKeys DEF ObInv
<1>5. SessionTyped'
  <2>1. PhaseOf(k) = "survey" => Subject(k) \in Area
    BY <1>4, KeysApart
  <2>2. (IF PhaseOf(k) = "survey" THEN stamp[Subject(k)] ELSE 1) \in 1 .. MaxStamp
    BY <2>1, OnboardingAssumption DEF ObInv, ObTypeOK
  <2>. QED  BY <1>2, <1>4, <2>2 DEF SessionTyped, Fresh
<1>6. ObTypeOK'
  BY <1>1, <1>3 DEF ObInv, ObTypeOK
<1>7. ReadBySome' = ReadBySome
  BY <1>1 DEF ReadBySome, Recorded
<1>8. ZeroIsBounded'
  BY <1>1, <1>7 DEF ObInv, ZeroIsBounded, ZeroOver
<1>9. GivenUpIsRead'
  <2>1. \A R \in SUBSET Area : <<"zero", "-", R>> # k
    BY <1>4, KeysApart
  <2>. QED  BY <1>1, <1>3, <1>7, <2>1 DEF ObInv, GivenUpIsRead
<1>10. RecordedAsRead' /\ DealtWasShown' /\ FindingIsOnFile'
  BY <1>1 DEF ObInv, RecordedAsRead, DealtWasShown, FindingIsOnFile
<1>. QED  BY <1>5, <1>6, <1>8, <1>9, <1>10 DEF ObInv

\* A session's commit: the record is of what it was woken with, and a finding
\* comes with its rows.
LEMMA EndsInv ==
    ASSUME ObInv, Ends
    PROVE  ObInv'
<1>1. UNCHANGED <<areas, repinned, stamp, zero, later, shown, page, dealt, lazy>>
      /\ session' = NoSession /\ session.live
  BY DEF Ends, Seat
<1>2. PICK r \in Results :
        /\ r.on = On
        /\ rows' = rows \cup r.lands
        /\ IF r.records
           THEN /\ record' = [record EXCEPT ![On] = Stamped]
                /\ found' = IF r.found THEN found \cup {On} ELSE found \ {On}
                /\ read' = [read EXCEPT ![On] = session.wake]
           ELSE UNCHANGED <<record, found, read>>
        /\ ignored' \in IF r.ruled THEN Rulings ELSE {ignored}
  BY DEF Ends
<1>3. PICK R : /\ R \subseteq gone
               /\ gone' = gone \ R
               /\ tries' = [k \in DOMAIN tries |-> IF k \in R THEN 0 ELSE tries[k]]
  BY DEF Ends, Revived
<1>4. On \in Key /\ session.wake \in 1 .. MaxStamp
  BY <1>1, OnboardingAssumption DEF ObInv, SessionTyped, On
<1>5. r.lands \subseteq Row /\ (r.records /\ r.found => Owed(On) \subseteq r.lands)
  BY <1>2, ResultsAreOfTheirKey
<1>6. record' \in [Key -> 0 .. MaxStamp] /\ read' = record' /\ found' \subseteq Key
      /\ \A k \in Key : record[k] # 0 => record'[k] # 0
  BY <1>2, <1>4, OnboardingAssumption DEF Stamped, ObInv, ObTypeOK, RecordedAsRead
<1>7. ignored' \subseteq Area
  BY <1>2 DEF Rulings, ObInv, ObTypeOK
<1>8. tries' \in [Key \cup Zero -> 0 .. AttemptCap] /\ gone' = {j \in Key \cup Zero : tries'[j] = AttemptCap}
  BY <1>3, RevivalCounts DEF ObInv
<1>9. ObTypeOK'
  BY <1>1, <1>2, <1>5, <1>6, <1>7, <1>8 DEF ObInv, ObTypeOK
<1>10. SessionTyped'
  BY <1>1, OnboardingAssumption DEF SessionTyped, NoSession, Key
<1>11. ReadBySome \subseteq ReadBySome'
  BY <1>6, KeysApart DEF ReadBySome, Recorded
<1>12. ZeroIsBounded'
  BY <1>1, <1>11 DEF ObInv, ZeroIsBounded, ZeroOver
<1>13. GivenUpIsRead'
  BY <1>1, <1>3, <1>11 DEF ObInv, GivenUpIsRead
<1>14. FindingIsOnFile'
  <2>1. \A k \in found : Owed(k) \subseteq rows'
    BY <1>2 DEF ObInv, FindingIsOnFile
  <2>2. \A k \in found' : k \in found \/ (k = On /\ r.records /\ r.found)
    BY <1>2
  <2>. QED  BY <1>2, <1>5, <2>1, <2>2 DEF FindingIsOnFile
<1>15. RecordedAsRead' /\ DealtWasShown'
  BY <1>1, <1>6 DEF ObInv, RecordedAsRead, DealtWasShown
<1>. QED  BY <1>9, <1>10, <1>12, <1>13, <1>14, <1>15 DEF ObInv

\* The principal's side moves pages and what was dealt with, and nothing else.
LEMMA SeatInv ==
    ASSUME ObInv, Defer \/ Present \/ Answer \/ Elect
    PROVE  ObInv'
<1>1. UNCHANGED <<areas, ignored, repinned, stamp, zero, tries, gone, later, record, rows,
                  found, read, session>>
  BY DEF Defer, Present, Answer, Elect, Tree, Count, Done
<1>2. /\ shown' \subseteq Row /\ page' \subseteq shown' /\ dealt' \subseteq Row /\ lazy' \in BOOLEAN
      /\ DealtWasShown'
  <2>1. CASE Defer
    BY <2>1 DEF Defer, Offer, Limbo, When, ObInv, ObTypeOK, DealtWasShown
  <2>2. CASE Present
    BY <2>2 DEF Present, Offer, ObInv, ObTypeOK, DealtWasShown
  <2>3. CASE Answer
    BY <2>3 DEF Answer, ObInv, ObTypeOK, DealtWasShown
  <2>4. CASE Elect
    BY <2>4 DEF Elect, ObInv, ObTypeOK, DealtWasShown
  <2>. QED  BY <2>1, <2>2, <2>3, <2>4
<1>3. ObTypeOK'
  BY <1>1, <1>2 DEF ObInv, ObTypeOK
<1>4. SessionTyped' /\ RecordedAsRead' /\ FindingIsOnFile'
  BY <1>1 DEF ObInv, SessionTyped, RecordedAsRead, FindingIsOnFile
<1>5. ZeroIsBounded' /\ GivenUpIsRead'
  BY <1>1 DEF ObInv, ZeroIsBounded, GivenUpIsRead, ZeroOver, ReadBySome, Recorded
<1>. QED  BY <1>2, <1>3, <1>4, <1>5 DEF ObInv

\* Every step keeps the invariant.
LEMMA ObNextInv == ObInv /\ [ObNext]_obVars => ObInv'
<1> SUFFICES ASSUME ObInv, [ObNext]_obVars PROVE ObInv'
  OBVIOUS
<1>1. CASE UNCHANGED obVars
  BY <1>1 DEF obVars, ObInv, ObTypeOK, SessionTyped, RecordedAsRead, ZeroIsBounded, GivenUpIsRead,
              DealtWasShown, FindingIsOnFile, ZeroOver, ReadBySome, Recorded
<1>2. CASE ObNext
  BY <1>2, RepinInv, RebindInv, DispatchInv, SeatInv, EndsInv, RefreshInv DEF ObNext, Loop
<1>. QED  BY <1>1, <1>2

-----------------------------------------------------------------------------
(***************************************************************************)
(* The theorems.                                                           *)
(***************************************************************************)

\* The inductive invariant holds in every reachable state.
THEOREM OnboardingInvariant == ObSpec => []ObInv
  BY ObInitInv, ObNextInv, PTL DEF ObSpec

\* Counters keep to the cap whatever is revived, and what is at it is given up.
THEOREM OnboardingTypeCorrect == ObSpec => []ObTypeOK
  BY OnboardingInvariant, PTL DEF ObInv

\* A record of a finding has the finding's rows on file, whatever the session said.
THEOREM FindingsAreFiled == ObSpec => []FindingIsOnFile
  BY OnboardingInvariant, PTL DEF ObInv

\* Where the surveys are among the phases a run performs, whatever comes after
\* them comes when every area was read as it is now by both roles, or given up.
THEOREM SurveysVouch ==
    ASSUME "survey" \in Phases
    PROVE  ObSpec => []SurveysAreOfTheTree
<1>1. ObInv => SurveysAreOfTheTree
  <2>1. SUFFICES ASSUME ObInv,
                        Phase \in {"reorient", "boundaries", "challenge", "blindspots", "done"},
                        NEW r \in Surveyor, NEW a \in areas
                 PROVE  read[SurveyOf(r, a)] = stamp[a] \/ SurveyOf(r, a) \in gone
    BY DEF SurveysAreOfTheTree
  <2>2. 5 \notin Due
    <3>1. CASE Phase = "done"
      BY <3>1, PhaseIsFirst
    <3>2. CASE Phase # "done"
      <4>1. PICK i \in Due : Phase = Stages[i] /\ \A j \in Due : i <= j
        BY <3>2, PhaseIsFirst
      <4>2. i \in 6 .. 9
        BY <2>1, <3>2, <4>1 DEF Due, Stages
      <4>. QED  BY <4>1, <4>2
    <3>. QED  BY <3>1, <3>2
  <2>3. WakesOf("survey") = {}
    BY <2>2 DEF Due, Stages
  <2>4. Outstanding("terminologist") = {} /\ Outstanding("architect") = {}
    BY <2>3 DEF WakesOf, SurveyWakes
  <2>5. Abandoned(r, a) \/ Surveyed(r, a)
    BY <2>4 DEF Outstanding, Surveyor
  <2>6. record = read
    BY <2>1 DEF ObInv, RecordedAsRead
  <2>. QED  BY <2>5, <2>6 DEF Abandoned, Surveyed
<1>. QED  BY <1>1, OnboardingInvariant, PTL

\* Once no binding is left to do, given up ones included, constraint zero covers
\* exactly the areas with code that nobody has surveyed.
THEOREM ZeroCoversTheUnread == ObSpec => []ZeroIsTheUnread
<1>1. ObInv => ZeroIsTheUnread
  <2>1. SUFFICES ASSUME ObInv, StillOffered(ZeroWake) = {}
                 PROVE  zero = ZeroOver(areas)
    BY DEF ZeroIsTheUnread, ZeroOver, ReadBySome, Recorded, ObInv, ObTypeOK
  <2>2. zero \subseteq Coded /\ Coded \subseteq Area /\ zero \subseteq areas /\ ZeroOver(areas) \subseteq zero
    BY <2>1, OnboardingAssumption DEF ObInv, ObTypeOK, ZeroIsBounded
  <2>3. CASE ZeroWake = {}
    <3>1. zero = areas \ ReadBySome
      BY <2>3 DEF ZeroWake
    <3>. QED  BY <2>2, <3>1 DEF ZeroOver
  <2>4. CASE ZeroWake # {}
    <3>1. <<"zero", "-", zero \cap ReadBySome>> \in gone
      <4>1. ZeroWake = {<<"zero", "-", zero \ (areas \ ReadBySome)>>}
        BY <2>4 DEF ZeroWake
      <4>2. zero \ (areas \ ReadBySome) = zero \cap ReadBySome
        BY <2>2
      <4>. QED  BY <2>1, <4>1, <4>2 DEF StillOffered
    <3>2. zero \cap ReadBySome = {}
      <4>1. (zero \cap ReadBySome) \in SUBSET Area
        BY <2>2
      <4>2. (zero \cap ReadBySome) \cap zero = {}
        BY <2>1, <3>1, <4>1 DEF ObInv, GivenUpIsRead
      <4>. QED  BY <4>2
    <3>. QED  BY <2>2, <3>2 DEF ZeroOver
  <2>. QED  BY <2>3, <2>4
<1>. QED  BY <1>1, OnboardingInvariant, PTL

\* No page holds a row that was on one before, or that was deferred.
THEOREM BaselinePutOnce == ObSpec => BaselineIsPutOnce
<1> DEFINE Once == page' \notin {page, {}} => page' \cap (shown \cup dealt) = {}
<1>1. ObInv /\ [ObNext]_obVars => Once
  <2>1. SUFFICES ASSUME ObInv, ObNext, page' \notin {page, {}}
                 PROVE  page' \cap (shown \cup dealt) = {}
    BY DEF obVars
  <2>2. Present
    <3>1. UNCHANGED page \/ page' = {} \/ Present
      BY <2>1 DEF ObNext, Loop, Repin, Rebind, Dispatch, Defer, Ends, Refresh, Answer, Elect, Seat
    <3>. QED  BY <2>1, <3>1
  <2>. QED  BY <2>1, <2>2 DEF Present, Offer, ObInv, DealtWasShown
<1>. QED  BY <1>1, OnboardingInvariant, PTL DEF ObSpec, BaselineIsPutOnce

=============================================================================
