--------------------------- MODULE GlossaryProofs ---------------------------
(***************************************************************************)
(* Theorems about Glossary, for every set of areas, facts and criteria and *)
(* every bound.  TypeOK is inductive as it stands.  ReadingsAreKept needs  *)
(* that the row of an area is only ever written about that area, on file   *)
(* and in what a session has staged; EverySenseIsPut that a ruling, and    *)
(* every letter on its way to one, names rows that were put; AdoptedWasPut *)
(* also that a relay approves rows the ruling names.                       *)
(***************************************************************************)
EXTENDS Glossary, TLAPS

\* A row named after an area is that area's reading, wherever it is.
AreaRows ==
    /\ \A a \in Area : row[a] # None => row[a].area = a
    /\ session # None => \A a \in Area : session.draft[a] # None => session.draft[a].area = a

\* What is ruled, or on its way to a ruling, was put to the principal.
RuledWasPut ==
    /\ ruled \subseteq put
    /\ \A m \in mail : m.kind # "report" => m.refs \subseteq put
    /\ \A m \in mail : m.kind = "relay" => m.approves \subseteq ruled

-----------------------------------------------------------------------------
(***************************************************************************)
(* Types.                                                                  *)
(***************************************************************************)

\* The best of some ranks is one of them.
LEMMA BestOfRanks ==
    ASSUME NEW S, S \subseteq Reasoned .. Decided, S # {}
    PROVE  Best(S) \in Reasoned .. Decided
<1>1. \A x \in S : x = 0 \/ x = 1 \/ x = 2
    BY DEF Reasoned, Decided
<1>2. \E b \in S : \A x \in S : x <= b
  <2>1. CASE 2 \in S
    BY <1>1, <2>1
  <2>2. CASE 2 \notin S /\ 1 \in S
    BY <1>1, <2>2
  <2>3. CASE 2 \notin S /\ 1 \notin S
    <3>1. \A x \in S : x = 0
      BY <1>1, <2>3
    <3>2. 0 \in S
      BY <3>1
    <3> QED
      BY <3>1, <3>2
  <2> QED
    BY <2>1, <2>2, <2>3
<1> QED
    BY <1>2 DEF Best

LEMMA TypeInit == Init => TypeOK
<1>1. 0 \in 0 .. MaxRulings /\ 0 \in 0 .. MaxEdits
    BY GlossaryAssumption
<1> QED
    BY <1>1 DEF Init, TypeOK, Reasoned, Decided

\* Every row glossary.amend may write to is one of the word's.
LEMMA AmendType ==
    ASSUME TypeOK, NEW a \in Area \cup {None}, NEW s \in Reading, NEW why \in {Reasoned, Observed, Decided},
           Amend(a, s, why)
    PROVE  /\ row' \in [Id -> Entry \cup {None}]
           /\ rests' \in [Id -> Reasoned .. Decided]
           /\ OnFile \subseteq OnFile'
<1>1. PICK i \in Target(a, s) :
        /\ row' = Amended(i, s, a)
        /\ rests' = [rests EXCEPT ![i] = Best({@, why})]
    BY DEF Amend
<1>2. i \in Id
    BY DEF Target, Id
<1>3. Best({rests[i], why}) \in Reasoned .. Decided
    BY <1>2, BestOfRanks DEF TypeOK, Reasoned, Observed, Decided
<1> DEFINE new == [sense |-> s, area |-> a, sup |-> IF row[i] = None THEN None ELSE row[i].sup]
<1>4. new \in Entry
    BY <1>2 DEF TypeOK, Entry
<1>5. row' = [row EXCEPT ![i] = new]
    BY <1>1 DEF Amended
<1> HIDE DEF new
<1> QED
    BY <1>1, <1>2, <1>3, <1>4, <1>5, GlossaryAssumption DEF TypeOK, OnFile

\* The sets of rows the predicates return are of rows on file.
LEMMA CollisionOnFile ==
    Live \subseteq OnFile /\ Collision \subseteq Live /\ OnFile \subseteq Id
    BY DEF Live, Collision, OnFile

\* What a session stages is typed, and the session keeps to its rows.
LEMMA StagedType ==
    ASSUME TypeOK, session # None
    PROVE  session \in Staged /\ session.refs \subseteq OnFile
    BY DEF TypeOK

\* Calls that only stage.
LEMMA TypeSame ==
    ASSUME TypeOK, NEW keep \in Id, NEW drop \in Id, Same(keep, drop)
    PROVE  TypeOK'
<1>1. session \in Staged /\ session.refs \subseteq OnFile /\ session.calls < MaxCalls /\ session # None
    BY StagedType DEF Same, Calling
<1>2. row[drop] \in Entry /\ row[keep] \in Entry
    BY DEF Same, OnFile, TypeOK
<1> DEFINE d == [session.draft EXCEPT ![drop] = [row[drop] EXCEPT !.sup = keep]]
           b == [session.bases EXCEPT ![keep] = Best({@, rests[drop]})]
           t == [c \in Criterion |->
                    IF drop \in crit[c]
                    THEN [add  |-> (session.terms[c].add \cup {keep}) \ {drop},
                          drop |-> (session.terms[c].drop \cup {drop}) \ {keep}]
                    ELSE session.terms[c]]
<1>3. d \in [Id -> Entry \cup {None}]
  <2>1. [row[drop] EXCEPT !.sup = keep] = [sense |-> row[drop].sense, area |-> row[drop].area, sup |-> keep]
    BY <1>2 DEF Entry
  <2>2. [row[drop] EXCEPT !.sup = keep] \in Entry
    BY <1>2, <2>1 DEF Entry
  <2> QED
    BY <1>1, <2>2 DEF Staged
<1>4. b \in [Id -> Reasoned .. Decided]
  <2>1. session.bases \in [Id -> Reasoned .. Decided]
    BY <1>1 DEF Staged
  <2>2. Best({session.bases[keep], rests[drop]}) \in Reasoned .. Decided
    BY <2>1, BestOfRanks DEF TypeOK
  <2> QED
    BY <2>1, <2>2
<1>5. t \in [Criterion -> [add : SUBSET Id, drop : SUBSET Id]]
    BY <1>1 DEF Staged
<1>6. session.calls + 1 \in 0 .. MaxCalls
    BY <1>1, GlossaryAssumption DEF Staged
<1>7. session' = [refs |-> session.refs, calls |-> session.calls + 1, warned |-> session.warned,
                  told |-> session.told, draft |-> d, bases |-> b, terms |-> t]
    BY <1>1 DEF Same, Staged
<1> HIDE DEF d, b, t
<1>8. session' \in Staged /\ session'.refs = session.refs
    BY <1>1, <1>3, <1>4, <1>5, <1>6, <1>7 DEF Staged
<1> QED
    BY <1>1, <1>8 DEF TypeOK, Same, Words, Seat, OnFile

LEMMA TypeSynthesise ==
    ASSUME TypeOK, NEW ids \in SUBSET Id, NEW s \in Reading, Synthesise(ids, s)
    PROVE  TypeOK'
<1>1. session \in Staged /\ session.refs \subseteq OnFile /\ session.calls < MaxCalls /\ session # None
    BY StagedType DEF Synthesise, Calling
<1>2. \A i \in ids : row[i] \in Entry
    BY <1>1 DEF Synthesise, OnFile, TypeOK
<1> DEFINE area == IF Base \in ids THEN row[Base].area ELSE None
           d == [i \in Id |->
                    IF i = Base THEN [sense |-> s, area |-> area, sup |-> None]
                    ELSE IF i \in ids /\ row[i].sup = None
                         THEN [row[i] EXCEPT !.sup = Base] ELSE session.draft[i]]
           b == [session.bases EXCEPT ![Base] = Best({@} \cup {rests[i] : i \in ids \ {Base}})]
<1>3. d \in [Id -> Entry \cup {None}]
  <2>1. [sense |-> s, area |-> area, sup |-> None] \in Entry
    BY <1>2 DEF Entry
  <2>2. \A i \in ids : [row[i] EXCEPT !.sup = Base] = [sense |-> row[i].sense, area |-> row[i].area, sup |-> Base]
    BY <1>2 DEF Entry
  <2>3. \A i \in ids : [row[i] EXCEPT !.sup = Base] \in Entry
    BY <1>2, <2>2 DEF Entry, Id
  <2> HIDE DEF area
  <2> QED
    BY <1>1, <2>1, <2>3 DEF Staged
<1>4. b \in [Id -> Reasoned .. Decided]
  <2>1. session.bases \in [Id -> Reasoned .. Decided] /\ Base \in Id
    BY <1>1 DEF Staged, Id
  <2>2. {session.bases[Base]} \cup {rests[i] : i \in ids \ {Base}} \subseteq Reasoned .. Decided
    BY <2>1 DEF TypeOK
  <2>3. Best({session.bases[Base]} \cup {rests[i] : i \in ids \ {Base}}) \in Reasoned .. Decided
    BY <2>2, BestOfRanks
  <2> QED
    BY <2>1, <2>3
<1>5. session.calls + 1 \in 0 .. MaxCalls
    BY <1>1, GlossaryAssumption DEF Staged
<1>6. \/ session' = [refs |-> session.refs, calls |-> session.calls, warned |-> TRUE,
                     told |-> session.told, draft |-> session.draft, bases |-> session.bases,
                     terms |-> session.terms]
      \/ session' = [refs |-> session.refs, calls |-> session.calls + 1, warned |-> session.warned,
                     told |-> session.told, draft |-> d, bases |-> b, terms |-> session.terms]
    BY <1>1 DEF Synthesise, Staged
<1> HIDE DEF d, b
<1>7. session' \in Staged /\ session'.refs = session.refs
  <2>1. [refs |-> session.refs, calls |-> session.calls, warned |-> TRUE,
         told |-> session.told, draft |-> session.draft, bases |-> session.bases,
         terms |-> session.terms] \in Staged
    BY <1>1 DEF Staged
  <2>2. [refs |-> session.refs, calls |-> session.calls + 1, warned |-> session.warned,
         told |-> session.told, draft |-> d, bases |-> b, terms |-> session.terms] \in Staged
    BY <1>1, <1>3, <1>4, <1>5 DEF Staged
  <2>3. ASSUME NEW staged \in Staged, session' = staged, staged.refs = session.refs
        PROVE  session' \in Staged /\ session'.refs = session.refs
    BY <2>3
  <2> QED
    BY <1>6, <2>1, <2>2, <2>3
<1> QED
    BY <1>1, <1>7 DEF TypeOK, Synthesise, Words, Seat, OnFile

\* A commit writes what was staged.
LEMMA TypeCommit == ASSUME TypeOK, Commit PROVE TypeOK'
<1>1. session \in Staged /\ session # None
    BY StagedType DEF Commit
<1>2. row' \in [Id -> Entry \cup {None}]
    BY <1>1 DEF Commit, TypeOK, Staged
<1>3. rests' \in [Id -> Reasoned .. Decided]
  <2>1. \A i \in Id : Best({rests[i], session.bases[i]}) \in Reasoned .. Decided
    <3>1. SUFFICES ASSUME NEW i \in Id PROVE Best({rests[i], session.bases[i]}) \in Reasoned .. Decided
      OBVIOUS
    <3>2. rests[i] \in Reasoned .. Decided /\ session.bases[i] \in Reasoned .. Decided
      BY <1>1 DEF TypeOK, Staged
    <3> QED
      BY <3>2, BestOfRanks
  <2> QED
    BY <2>1 DEF Commit
<1>4. crit' \in [Criterion -> SUBSET Id]
  <2>1. \A c \in Criterion : session.terms[c].add \subseteq Id
    BY <1>1 DEF Staged
  <2> QED
    BY <2>1 DEF Commit, TypeOK
<1>5. mail' \subseteq Letter
    BY <1>1 DEF Commit, TypeOK, Staged, Letter
<1> QED
    BY <1>2, <1>3, <1>4, <1>5 DEF Commit, TypeOK

\* A letter turned into the next keeps the rows it names.
LEMMA TurnedType ==
    ASSUME TypeOK, NEW m \in mail, NEW kind \in {"clarify", "answer", "relay"}, NEW as \in SUBSET Id
    PROVE  Turned(m, kind, as) \subseteq Letter
<1>1. m \in Letter
    BY DEF TypeOK
<1>2. [kind |-> kind, refs |-> m.refs, approves |-> as] \in Letter
    BY <1>1 DEF Letter
<1> QED
    BY <1>2 DEF Turned, TypeOK

LEMMA TypeStep == ASSUME TypeOK, [Next]_vars PROVE TypeOK'
<1> USE DEF Words, Seat
<1>1. ASSUME NEW a \in Area \cup {None}, NEW s \in Reading \cup {{}}, NEW why \in {Reasoned, Observed, Decided},
             IF s = {} THEN UNCHANGED <<row, rests>> ELSE Amend(a, s, why)
      PROVE  /\ row' \in [Id -> Entry \cup {None}]
             /\ rests' \in [Id -> Reasoned .. Decided]
             /\ OnFile \subseteq OnFile'
  <2>1. CASE s = {}
    BY <1>1, <2>1 DEF TypeOK, OnFile
  <2>2. CASE s # {}
    BY <1>1, <2>2, AmendType
  <2> QED
    BY <2>1, <2>2
<1>2. ASSUME NEW s \in Reading \cup {{}}, Define(s) PROVE TypeOK'
    BY <1>1, <1>2 DEF Define, TypeOK
<1>3. ASSUME NEW a \in Area, NEW s \in Reading \cup {{}}, Survey(a, s) PROVE TypeOK'
    BY <1>1, <1>3 DEF Survey, TypeOK
<1>4. ASSUME NEW s \in Reading, NEW why \in {Reasoned, Decided}, Deliver(s, why) PROVE TypeOK'
  <2>1. edits + 1 \in 0 .. MaxEdits
    BY <1>4, GlossaryAssumption DEF Deliver, TypeOK
  <2> QED
    BY <1>4, <2>1, AmendType DEF Deliver, TypeOK
<1>5. CASE Woken
  <2>1. Collision \subseteq OnFile /\ OnFile \subseteq Id
    BY CollisionOnFile
  <2>2. Fresh(Collision) \in Staged
    BY <2>1, GlossaryAssumption DEF Fresh, Staged, Reasoned, Decided
  <2>3. Fresh(Collision).refs = Collision
    BY DEF Fresh
  <2> QED
    BY <1>5, <2>1, <2>2, <2>3 DEF Woken, TypeOK, OnFile
<1>6. ASSUME NEW ids \in SUBSET Id, Report(ids) PROVE TypeOK'
  <2>1. session \in Staged /\ session.refs \subseteq OnFile /\ session.calls < MaxCalls
    BY <1>6, StagedType DEF Report, Calling
  <2>2. session.calls + 1 \in 0 .. MaxCalls
    BY <2>1, GlossaryAssumption DEF Staged
  <2>3. session' = [refs |-> session.refs, calls |-> session.calls + 1, warned |-> session.warned,
                    told |-> ids, draft |-> session.draft, bases |-> session.bases,
                    terms |-> session.terms]
    BY <1>6, <2>1 DEF Report, Staged
  <2>4. session' \in Staged /\ session'.refs = session.refs
    BY <2>1, <2>2, <2>3 DEF Staged
  <2> QED
    BY <1>6, <2>1, <2>4 DEF Report, TypeOK, OnFile
<1>7. CASE Dies
    BY <1>7 DEF Dies, TypeOK
<1>8. ASSUME NEW m \in mail, NEW ids \in SUBSET Id, Adopt(m, ids) PROVE TypeOK'
    BY <1>8 DEF Adopt, TypeOK, OnFile, Reasoned, Decided
<1>9. ASSUME NEW c \in Criterion, NEW i \in Id, Specify(c, i) PROVE TypeOK'
  <2>1. edits' \in 0 .. MaxEdits
    BY <1>9, GlossaryAssumption DEF Specify, TypeOK
  <2> QED
    BY <1>9, <2>1 DEF Specify, TypeOK, OnFile
<1>10. CASE Terminologist
    BY <1>2, <1>3, <1>4, <1>5, <1>6, <1>7, <1>8, <1>9, <1>10, TypeSame, TypeSynthesise, TypeCommit
       DEF Terminologist
<1>11. ASSUME NEW m \in mail, Ask(m) \/ Answer(m) \/ Unaddressed(m) PROVE TypeOK'
  <2>1. m.refs \subseteq Id
    BY DEF TypeOK, Letter
  <2>2. mail' \subseteq Letter
    BY <1>11, TurnedType DEF Ask, Answer, Unaddressed, TypeOK
  <2> QED
    BY <1>11, <2>1, <2>2 DEF Ask, Answer, Unaddressed, TypeOK, OnFile
<1>12. ASSUME NEW m \in mail, NEW ns \in SUBSET Id, NEW as \in SUBSET Id, Rule(m, ns, as) PROVE TypeOK'
  <2>1. rulings + 1 \in 0 .. MaxRulings
    BY <1>12, GlossaryAssumption DEF Rule, TypeOK
  <2>2. m.refs \subseteq Id
    BY DEF TypeOK, Letter
  <2>3. mail' \subseteq Letter
    BY <1>12, TurnedType DEF Rule
  <2> QED
    BY <1>12, <2>1, <2>2, <2>3 DEF Rule, TypeOK, OnFile
<1>13. ASSUME NEW i \in parked, Unpark(i) PROVE TypeOK'
    BY <1>13 DEF Unpark, TypeOK, OnFile
<1>14. ASSUME NEW i \in Id, Decide(i) PROVE TypeOK'
  <2>1. edits + 1 \in 0 .. MaxEdits
    BY <1>14, GlossaryAssumption DEF Decide, TypeOK
  <2> QED
    BY <1>14, <2>1 DEF Decide, TypeOK, OnFile
<1>15. ASSUME NEW c \in Criterion, Encode(c) PROVE TypeOK'
    BY <1>15 DEF Encode, TypeOK, OnFile
<1>16. ASSUME NEW a \in Area, Drift(a) PROVE TypeOK'
  <2>1. edits + 1 \in 0 .. MaxEdits
    BY <1>16, GlossaryAssumption DEF Drift, TypeOK
  <2> QED
    BY <1>16, <2>1 DEF Drift, TypeOK, OnFile
<1>17. CASE UNCHANGED vars
    BY <1>17 DEF vars, TypeOK, OnFile
<1> QED
    BY <1>10, <1>11, <1>12, <1>13, <1>14, <1>15, <1>16, <1>17 DEF Next

\* Every reachable state is well typed, and a session is of rows on file.
THEOREM TypeCorrect == Spec => []TypeOK
<1> QED
    BY TypeInit, TypeStep, PTL DEF Spec

-----------------------------------------------------------------------------
(***************************************************************************)
(* Readings.                                                               *)
(***************************************************************************)

LEMMA AreaRowsInit == Init => AreaRows
    BY DEF Init, AreaRows, Id

\* What glossary.amend does to the rows.
LEMMA AmendRows ==
    ASSUME TypeOK, NEW a \in Area \cup {None}, NEW s \in Reading, NEW why, Amend(a, s, why)
    PROVE  \E i \in Target(a, s) :
             /\ \A j \in Id \ {i} : row'[j] = row[j]
             /\ i \in Id /\ row'[i].area = a
    BY DEF Amend, Amended, Target, Id, TypeOK

\* An entry for an area goes to the word's own row or to the area's.
LEMMA AmendAreaRows ==
    ASSUME TypeOK, AreaRows, NEW a \in Area \cup {None}, NEW s \in Reading, NEW why, Amend(a, s, why)
    PROVE  \A b \in Area : row'[b] # None => row'[b].area = b
<1>1. PICK i \in Target(a, s) : (\A j \in Id \ {i} : row'[j] = row[j]) /\ i \in Id /\ row'[i].area = a
    BY AmendRows
<1>2. i = Base \/ i = a
    BY DEF Target
<1>3. \A b \in Area : b \in Id /\ b # Base
    BY GlossaryAssumption DEF Id
<1> QED
    BY <1>1, <1>2, <1>3 DEF AreaRows

LEMMA AreaRowsStep ==
    ASSUME TypeOK, AreaRows, [Next]_vars
    PROVE  AreaRows'
<1> USE DEF Words, Seat
<1>1. \A b \in Area : b \in Id /\ b # Base
    BY GlossaryAssumption DEF Id
<1>2. ASSUME NEW a \in Area \cup {None}, NEW s \in Reading \cup {{}}, NEW why, session = None, session' = None,
             IF s = {} THEN UNCHANGED <<row, rests>> ELSE Amend(a, s, why)
      PROVE  AreaRows'
    BY <1>2, AmendAreaRows DEF AreaRows
<1>3. ASSUME NEW s \in Reading \cup {{}}, Define(s) PROVE AreaRows'
    BY <1>2, <1>3 DEF Define, Driver
<1>4. ASSUME NEW a \in Area, NEW s \in Reading \cup {{}}, Survey(a, s) PROVE AreaRows'
    BY <1>2, <1>4 DEF Survey, Driver
<1>5. ASSUME NEW s \in Reading, NEW why \in {Reasoned, Decided}, Deliver(s, why) PROVE AreaRows'
    BY <1>5, AmendAreaRows DEF Deliver, Driver, AreaRows
<1>6. CASE Woken
    BY <1>1, <1>6 DEF Woken, Fresh, AreaRows
<1>7. ASSUME NEW keep \in Id, NEW drop \in Id, Same(keep, drop) PROVE AreaRows'
  <2>1. session \in Staged /\ session # None
    BY <1>7, StagedType DEF Same, Calling
  <2>2. row[drop] \in Entry
    BY <1>7 DEF Same, OnFile, TypeOK
  <2>3. [row[drop] EXCEPT !.sup = keep].area = row[drop].area
    BY <2>2 DEF Entry
  <2>4. session'.draft = [session.draft EXCEPT ![drop] = [row[drop] EXCEPT !.sup = keep]]
    BY <1>7, <2>1 DEF Same, Staged
  <2>5. \A a \in Area : session'.draft[a] # None => session'.draft[a].area = a
    BY <1>1, <2>1, <2>2, <2>3, <2>4, GlossaryAssumption DEF AreaRows, Staged
  <2> QED
    BY <1>7, <2>5 DEF Same, AreaRows
<1>8. ASSUME NEW ids \in SUBSET Id, NEW s \in Reading, Synthesise(ids, s) PROVE AreaRows'
  <2>1. session \in Staged /\ session # None /\ session.refs \subseteq OnFile
    BY <1>8, StagedType DEF Synthesise, Calling
  <2>2. \A i \in ids : row[i] \in Entry
    BY <1>8, <2>1 DEF Synthesise, OnFile, TypeOK
  <2>3. \A i \in ids : [row[i] EXCEPT !.sup = Base].area = row[i].area
    BY <2>2 DEF Entry
  <2>4. \/ session'.draft = session.draft
        \/ \A a \in Area : session'.draft[a] = IF a \in ids /\ row[a].sup = None
                                              THEN [row[a] EXCEPT !.sup = Base] ELSE session.draft[a]
    BY <1>1, <1>8, <2>1 DEF Synthesise, Staged
  <2>5. \A a \in Area : session'.draft[a] # None => session'.draft[a].area = a
    BY <2>1, <2>2, <2>3, <2>4, GlossaryAssumption DEF AreaRows
  <2> QED
    BY <1>8, <2>5 DEF Synthesise, AreaRows
<1>9. ASSUME NEW ids \in SUBSET Id, Report(ids) PROVE AreaRows'
  <2>1. session \in Staged /\ session # None
    BY <1>9, StagedType DEF Report, Calling
  <2>2. session'.draft = session.draft
    BY <1>9, <2>1 DEF Report, Staged
  <2> QED
    BY <1>9, <2>1, <2>2 DEF Report, AreaRows
<1>10. CASE Commit
    BY <1>1, <1>10 DEF Commit, AreaRows
<1>11. CASE Terminologist
    BY <1>3, <1>4, <1>5, <1>6, <1>7, <1>8, <1>9, <1>10, <1>11
       DEF Terminologist, Dies, Adopt, Specify, AreaRows
<1>12. CASE UNCHANGED vars
    BY <1>12 DEF vars, AreaRows
<1> QED
    BY <1>11, <1>12 DEF Next, Ask, Answer, Rule, Unaddressed, Unpark, Decide, Encode, Drift, AreaRows

\* The row named after an area never holds another area's reading.
THEOREM AreasKeepTheirRows == Spec => []AreaRows
<1> QED
    BY AreaRowsInit, AreaRowsStep, TypeCorrect, PTL DEF Spec

\* An area's survey never replaces a live reading of another area or of the
\* whole program.
THEOREM NothingWinsSilently == Spec => ReadingsAreKept
<1> DEFINE Kept == \A a \in Area : a \in owed /\ a \notin owed' =>
                     \A i \in {Base} \cup Area :
                         i \in Live /\ row[i].area # a => row'[i] = row[i]
<1>1. TypeOK /\ AreaRows /\ [Next]_vars => Kept
  <2>1. SUFFICES ASSUME TypeOK, AreaRows, [Next]_vars, NEW a \in Area, a \in owed, a \notin owed',
                        NEW i \in {Base} \cup Area, i \in Live, row[i].area # a
                 PROVE  row'[i] = row[i]
    BY DEF Kept
  <2>2. \E s \in Reading \cup {{}} : Survey(a, s)
    BY <2>1, GlossaryAssumption
       DEF Next, Terminologist, Define, Survey, Deliver, Woken, Same, Synthesise, Report, Commit, Dies,
           Adopt, Specify, Ask, Answer, Rule, Unaddressed, Unpark, Decide, Encode, Drift, vars
  <2>3. PICK s \in Reading \cup {{}} : Survey(a, s)
    BY <2>2
  <2>4. CASE s = {}
    BY <2>3, <2>4 DEF Survey
  <2>5. CASE s # {}
    <3>1. PICK k \in Target(a, s) : (\A j \in Id \ {k} : row'[j] = row[j]) /\ k \in Id
      BY <2>1, <2>3, <2>5, AmendRows DEF Survey
    <3>2. k # i
      <4>1. a # None /\ a # Base
        BY GlossaryAssumption
      <4>2. CASE Prior(a) = {}
        BY <2>1, <4>1, <4>2 DEF Target, Prior
      <4>3. CASE Prior(a) # {}
        <5>1. k = a
          BY <4>1, <4>3 DEF Target
        <5> QED
          BY <2>1, <5>1 DEF AreaRows, Live, OnFile
      <4> QED
        BY <4>2, <4>3
    <3> QED
      BY <3>1, <3>2 DEF Id
  <2> QED
    BY <2>4, <2>5
<1>2. TypeOK /\ AreaRows /\ [Next]_vars => [Kept]_vars
    BY <1>1
<1> QED
    BY <1>2, TypeCorrect, AreasKeepTheirRows, PTL DEF Spec, ReadingsAreKept

-----------------------------------------------------------------------------
(***************************************************************************)
(* Senses and the principal.                                               *)
(***************************************************************************)

LEMMA RuledInit == Init => RuledWasPut
    BY DEF Init, RuledWasPut

LEMMA RuledStep ==
    ASSUME RuledWasPut, [Next]_vars
    PROVE  RuledWasPut'
<1> USE DEF Words, Seat
<1>1. CASE Terminologist
  <2>1. CASE Commit
    BY <2>1 DEF Commit, RuledWasPut
  <2>2. ASSUME NEW m \in mail, NEW ids \in SUBSET Id, Adopt(m, ids) PROVE RuledWasPut'
    BY <2>2 DEF Adopt, RuledWasPut
  <2> QED
    BY <1>1, <2>1, <2>2
       DEF Terminologist, Define, Survey, Deliver, Woken, Same, Synthesise, Report, Dies, Specify, RuledWasPut
<1>2. ASSUME NEW m \in mail, Ask(m) PROVE RuledWasPut'
    BY <1>2 DEF Ask, Turned, RuledWasPut
<1>3. ASSUME NEW m \in mail, Answer(m) PROVE RuledWasPut'
    BY <1>3 DEF Answer, Turned, RuledWasPut
<1>4. ASSUME NEW m \in mail, NEW ns, NEW as, Rule(m, ns, as) PROVE RuledWasPut'
  <2>1. m.refs \subseteq put /\ ns \subseteq m.refs /\ as \subseteq ns
    BY <1>4 DEF Rule, RuledWasPut
  <2> DEFINE relay == [kind |-> "relay", refs |-> m.refs, approves |-> as]
  <2>2. \A n \in mail' : n \in mail \/ n = relay
    BY <1>4 DEF Rule, Turned
  <2>3. relay.refs = m.refs /\ relay.approves = as
    OBVIOUS
  <2>4. ruled' = ruled \cup ns /\ put' = put
    BY <1>4 DEF Rule
  <2> HIDE DEF relay
  <2> QED
    BY <2>1, <2>2, <2>3, <2>4 DEF RuledWasPut
<1>5. ASSUME NEW m \in mail, Unaddressed(m) PROVE RuledWasPut'
    BY <1>5 DEF Unaddressed, RuledWasPut
<1>6. CASE UNCHANGED vars
    BY <1>6 DEF vars, RuledWasPut
<1> QED
    BY <1>1, <1>2, <1>3, <1>4, <1>5, <1>6 DEF Next, Unpark, Decide, Encode, Drift, RuledWasPut

\* The principal rules only on what was put to them.
THEOREM RulingsAreOfWhatWasPut == Spec => []RuledWasPut
<1> QED
    BY RuledInit, RuledStep, PTL DEF Spec

\* A word with two live senses goes quiet only if one is in front of somebody,
\* or each was put to the principal or named by a decision.
THEOREM SensesArePut == Spec => []EverySenseIsPut
<1>1. RuledWasPut => EverySenseIsPut
  <2>1. SUFFICES ASSUME RuledWasPut, owed = {}, Cardinality(Counted) >= 2, Collision = {}, Live \cap Raised = {}
                 PROVE  Live \subseteq put \cup decided
    BY DEF EverySenseIsPut
  <2>2. Live \subseteq Ruled \/ Live = {}
    BY <2>1 DEF Collision
  <2> QED
    BY <2>1, <2>2 DEF Ruled, RuledWasPut
<1> QED
    BY <1>1, RulingsAreOfWhatWasPut, PTL

\* A session woken by a ruling adopts only rows that were put to the principal
\* and that their words named.
THEOREM AdoptionsWereAsked == Spec => AdoptedWasPut
<1> DEFINE Asked == \A m \in mail \ mail' : m.kind = "relay" =>
                      \A i \in Id : rests'[i] # rests[i] => i \in put \cap ruled
<1>1. TypeOK /\ RuledWasPut /\ [Next]_vars => Asked
  <2>1. SUFFICES ASSUME TypeOK, RuledWasPut, [Next]_vars,
                        NEW m \in mail \ mail', m.kind = "relay",
                        NEW i \in Id, rests'[i] # rests[i]
                 PROVE  i \in put \cap ruled
    BY DEF Asked
  <2>2. \E n \in mail, ids \in SUBSET Id : Adopt(n, ids)
    BY <2>1
       DEF Next, Terminologist, Define, Survey, Deliver, Woken, Same, Synthesise, Report, Commit, Dies,
           Specify, Ask, Answer, Rule, Unaddressed, Turned, Unpark, Decide, Encode, Drift,
           Words, Seat, vars
  <2>3. PICK n \in mail, ids \in SUBSET Id : Adopt(n, ids)
    BY <2>2
  <2>4. n = m
    BY <2>1, <2>3 DEF Adopt
  <2>5. i \in m.approves /\ i \in ids
    BY <2>1, <2>3, <2>4 DEF Adopt, TypeOK
  <2>6. m.approves \subseteq ruled /\ ruled \subseteq put
    BY <2>1 DEF RuledWasPut
  <2> QED
    BY <2>5, <2>6
<1>2. TypeOK /\ RuledWasPut /\ [Next]_vars => [Asked]_vars
    BY <1>1
<1> QED
    BY <1>2, TypeCorrect, RulingsAreOfWhatWasPut, PTL DEF Spec, AdoptedWasPut
=============================================================================
