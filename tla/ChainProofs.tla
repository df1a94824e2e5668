---------------------------- MODULE ChainProofs ----------------------------
(***************************************************************************)
(* Theorems about Chain, for every set of items, ids, criteria, tests and  *)
(* paths and every bound.  TypeOK and OneTestPerFile are inductive as they *)
(* stand.  WorkKeepsItsPlace needs to know that a derived id is only ever  *)
(* the ticket of the item it names; MergesOnItsOwnTests that what the      *)
(* Critic passed is merged, or cancelled, before any role acts again.      *)
(***************************************************************************)
EXTENDS Chain, FiniteSetTheorems, TLAPS

-----------------------------------------------------------------------------
(***************************************************************************)
(* The inductive invariant.                                                *)
(***************************************************************************)

\* A ticket of no item is no row.
NoItemNoTicket == \A t \in TicketId : ticket[t].item = None => ticket[t] = NoTicket

\* A derived id, where it is a ticket, is one of the item it names.
DerivedIsOwn == \A t \in Handle \X Item : ticket[t].item \in {None, t[2]}

\* What is not started has no head, and no verdict is ahead of the head.
HeadsFollow ==
    \A b \in Batch :
        /\ batch[b].status \in {"none", "pending"} => head[b] = 0
        /\ judged[b] <= head[b]

\* A verdict at the head still rests on what it was given for: every criterion
\* has a test, every test of the batch ran there, and none of them failed.
JudgedStands ==
    \A b \in Running : head[b] # 0 /\ judged[b] = head[b] =>
        Covered(b) /\ TestsOf(b) \subseteq AtHead(b) /\ Red(b) = {}

IInv == TypeOK /\ NoItemNoTicket /\ DerivedIsOwn /\ HeadsFollow /\ JudgedStands /\ OneTestPerFile

-----------------------------------------------------------------------------
(***************************************************************************)
(* What a step is.  A role acts only where nothing is left for the loop.   *)
(***************************************************************************)

\* The steps of a role, one by one.
RoleStep ==
    \/ \E i \in Item : Assert(i)
    \/ \E ids \in Slices, i \in Item : Slice(ids, i)
    \/ \E c \in Criterion, t \in TicketId, w \in Words : Specify(c, t, w)
    \/ \E c \in Criterion : Repair(c) \/ Answer(c) \/ ReadAnswer(c)
    \/ Group
    \/ \E b \in Batch : Start(b) \/ Encode(b) \/ Ask(b)
    \/ \E b \in Running : Develop(b) \/ Judge(b)

\* Usable ids are ids.
LEMMA UsableIsOfIds ==
    ASSUME NEW ids, NEW used
    PROVE  Usable(ids, used) \subseteq ids \cup used
    BY DEF Usable

\* Next, with the bands of the frontier folded into RoleTurn.
LEMMA NextSteps ==
    ASSUME Next
    PROVE  \/ RoleTurn /\ RoleStep
           \/ \E i \in Item : Approve(i)
           \/ \E b \in Batch : Harness(b) \/ Merge(b) \/ Cancel(b)
<1>1. Usable(Criterion, Written) \subseteq Criterion
    BY UsableIsOfIds DEF Written
<1>2. \A b \in Running : b \in Batch
    BY DEF Running, Grouped
<1>3. CASE Roles
  <2>1. TrafficBand => RoleStep
    BY DEF TrafficBand, RoleStep
  <2>2. FixBand => RoleStep
    BY DEF FixBand, RoleStep
  <2>3. GateBand => RoleStep
    BY DEF GateBand, RoleStep
  <2>4. StartBand => RoleStep
    BY <1>1 DEF StartBand, RoleStep
  <2> QED
    BY <1>3, <2>1, <2>2, <2>3, <2>4 DEF Roles, FixTurn, GateTurn, StartTurn
<1>4. CASE \E i \in Item : Assert(i)
    BY <1>4 DEF Assert, RoleStep
<1> QED
    BY <1>3, <1>4 DEF Next, Chores

-----------------------------------------------------------------------------
(***************************************************************************)
(* Types.                                                                  *)
(***************************************************************************)

LEMMA TypeInit == Init => TypeOK
    BY ChainAssumption DEF Init, TypeOK, TicketRow, CriterionRow, BatchRow, TestRow, RunRow, NoTicket, NoCriterion, NoBatch, NoTest, NoRun, Batch

\* What a call costs.
LEMMA PaysType ==
    ASSUME TypeOK, NEW asked, Pays(asked)
    PROVE  spare' \in 0 .. MaxSpare
    BY ChainAssumption DEF TypeOK, Pays

\* A batch that moves from status to status.
LEMMA StatusType ==
    ASSUME TypeOK, NEW b \in Batch, NEW s \in {"running", "merged", "abandoned"},
           batch' = [batch EXCEPT ![b].status = s]
    PROVE  batch' \in [Batch -> BatchRow]
<1>1. batch[b] \in BatchRow
    BY DEF TypeOK
<1>2. [batch[b] EXCEPT !.status = s] = [status |-> s, item |-> batch[b].item, tickets |-> batch[b].tickets]
    BY <1>1 DEF BatchRow
<1>3. [batch[b] EXCEPT !.status = s] \in BatchRow
    BY <1>1, <1>2 DEF BatchRow
<1> QED
    BY <1>3 DEF TypeOK

\* A criterion whose words change stays on its ticket.
LEMMA RespecifiedType ==
    ASSUME TypeOK, NEW c \in Criterion, NEW words \in Words, Respecified(c, words)
    PROVE  /\ criterion' \in [Criterion -> CriterionRow]
           /\ \A d \in Criterion : criterion'[d].ticket = criterion[d].ticket
<1>1. criterion[c] \in CriterionRow
    BY DEF TypeOK
<1>2. [criterion[c] EXCEPT !.words = words] = [ticket |-> criterion[c].ticket, words |-> words]
    BY <1>1 DEF CriterionRow
<1>3. criterion' = [criterion EXCEPT ![c] = [ticket |-> criterion[c].ticket, words |-> words]]
    BY <1>2 DEF Respecified
<1> QED
    BY <1>1, <1>3 DEF TypeOK, CriterionRow

\* A test is of one batch and one criterion.
LEMMA EncodedType ==
    ASSUME TypeOK, NEW x \in AnyTest, NEW c \in Criterion, NEW p \in AnyPath \cup {None}, NEW b, Encoded(x, c, p, b)
    PROVE  /\ test' \in [AnyTest -> TestRow]
           /\ run' \in [AnyTest -> RunRow]
<1>1. NoRun \in RunRow
    BY ChainAssumption DEF NoRun, RunRow
<1> QED
    BY <1>1 DEF TypeOK, TestRow, Encoded

\* The tests and paths a session names.
LEMMA SomeTestsAndPaths ==
    ASSUME TypeOK
    PROVE  SomeTest \subseteq AnyTest /\ SomePath \subseteq AnyPath \cup {None}
<1>1. Filed \ Inherited \subseteq Test /\ Inherited \cap Filed \subseteq AnyTest
    BY DEF Filed, AnyTest
<1>2. UsedPaths \subseteq AnyPath \cup {None}
    BY DEF TypeOK, TestRow, UsedPaths, Filed, AnyPath
<1>3. Usable(Test, Filed \ Inherited) \subseteq Test
    BY <1>1, UsableIsOfIds
<1>4. SomePath \subseteq AnyPath \cup {None}
    BY <1>2, UsableIsOfIds DEF SomePath
<1> QED
    BY <1>1, <1>3, <1>4 DEF SomeTest, AnyTest

\* One batch an item grouped for, for items there are.
LEMMA NewBatchesType ==
    ASSUME NEW items, items \subseteq Item \cup {None}
    PROVE  /\ DOMAIN NewBatches(items) \subseteq Grouped({"none"})
           /\ \A b \in DOMAIN NewBatches(items) : NewBatches(items)[b] \in items
<1> DEFINE free == Grouped({"none"})
           rank(b) == Cardinality({c \in free : c <= b})
           named == CHOOSE of \in Bijection(1 .. Cardinality(items), items) : TRUE
<1>1. IsFiniteSet(items)
    BY ChainAssumption, FS_AddElement, FS_Subset
<1>2. named \in [1 .. Cardinality(items) -> items]
  <2>1. Bijection(1 .. Cardinality(items), items) # {}
    BY <1>1, FS_CardinalityType DEF ExistsBijection
  <2>2. named \in Bijection(1 .. Cardinality(items), items)
    BY <2>1
  <2> QED
    BY <2>2 DEF Bijection, Injection
<1>3. \A b \in free : rank(b) \in Nat \ {0}
  <2>1. SUFFICES ASSUME NEW b \in free PROVE rank(b) \in Nat \ {0}
    OBVIOUS
  <2>2. MaxBatch \in Nat /\ free \subseteq 1 .. MaxBatch
    BY ChainAssumption DEF Grouped, Batch
  <2>3. IsFiniteSet({c \in free : c <= b})
    BY <2>2, FS_Interval, FS_Subset
  <2>4. b \in {c \in free : c <= b}
    BY <2>2
  <2> QED
    BY <2>3, <2>4, FS_EmptySet, FS_CardinalityType
<1> DEFINE first == {c \in free : rank(c) <= Cardinality(items)}
<1>4. Cardinality(items) \in Nat
    BY <1>1, FS_CardinalityType
<1>5. \A b \in first : rank(b) \in 1 .. Cardinality(items)
    BY <1>3, <1>4
<1>6. NewBatches(items) = [b \in first |-> named[rank(b)]]
    BY DEF NewBatches
<1> HIDE DEF named, rank
<1> QED
    BY <1>2, <1>5, <1>6

\* One session's grouping.
LEMMA TypeGroup == ASSUME TypeOK, Group PROVE TypeOK'
<1> DEFINE due == {ticket[t].item : t \in Owed}
<1>1. Owed \subseteq TicketId /\ due \subseteq Item \cup {None}
    BY DEF Owed, TypeOK, TicketRow
<1>2. spare' \in 0 .. MaxSpare
    BY PaysType DEF Group
<1> HIDE DEF due
<1>3. PICK ts \in [due -> SUBSET Owed] :
        LET items == {i \in due : ts[i] # {}}
            of    == NewBatches(items)
        IN  batch' = [b \in Batch |->
                IF b \in DOMAIN of
                THEN [status |-> "pending", item |-> of[b], tickets |-> ts[of[b]]]
                ELSE batch[b]]
    BY DEF Group, due
<1> DEFINE items == {i \in due : ts[i] # {}}
           of == NewBatches(items)
<1>4. \A b \in DOMAIN of : of[b] \in items
    BY <1>1, NewBatchesType
<1>5. \A i \in items : i \in Item \cup {None} /\ ts[i] \subseteq TicketId
    BY <1>1
<1>6. batch' = [b \in Batch |->
                IF b \in DOMAIN of
                THEN [status |-> "pending", item |-> of[b], tickets |-> ts[of[b]]]
                ELSE batch[b]]
    BY <1>3
<1> HIDE DEF items, of
<1>7. batch' \in [Batch -> BatchRow]
    BY <1>4, <1>5, <1>6 DEF TypeOK, BatchRow
<1> QED
    BY <1>2, <1>7 DEF TypeOK, Group, itemVars, workVars, testVars

\* The other steps of a role.
LEMMA TypeRoleStep == ASSUME TypeOK, RoleStep PROVE TypeOK'
<1> USE DEF itemVars, workVars, batchVars, testVars
<1>1. ASSUME NEW i \in Item, Assert(i) PROVE TypeOK'
    BY <1>1, ChainAssumption DEF Assert, TypeOK
<1>2. ASSUME NEW ids \in Slices, NEW i \in Item, Slice(ids, i) PROVE TypeOK'
  <2>1. spare' \in 0 .. MaxSpare
    BY <1>2, PaysType DEF Slice
  <2> QED
    BY <1>2, <2>1 DEF Slice, TypeOK, TicketRow
<1>3. ASSUME NEW c \in Criterion, NEW t \in TicketId, NEW w \in Words, Specify(c, t, w)
      PROVE TypeOK'
  <2>1. spare' \in 0 .. MaxSpare
    BY <1>3, PaysType DEF Specify
  <2> QED
    BY <1>3, <2>1 DEF Specify, TypeOK, CriterionRow
<1>4. ASSUME NEW q \in Criterion, Repair(q) PROVE TypeOK'
  <2>1. spare' \in 0 .. MaxSpare
    BY <1>4, PaysType DEF Repair
  <2>2. criterion' \in [Criterion -> CriterionRow]
    BY <1>4, RespecifiedType DEF Repair, TypeOK, Written
  <2> QED
    BY <1>4, <2>1, <2>2 DEF Repair, TypeOK
<1>5. ASSUME NEW c \in Criterion, Answer(c) PROVE TypeOK'
    BY <1>5 DEF Answer, TypeOK
<1>6. ASSUME NEW c \in Criterion, ReadAnswer(c) PROVE TypeOK'
  <2>1. spare' \in 0 .. MaxSpare
    BY <1>6, PaysType DEF ReadAnswer
  <2>2. /\ test' \in [AnyTest -> TestRow]
        /\ run' \in [AnyTest -> RunRow]
    BY <1>6, EncodedType, SomeTestsAndPaths DEF ReadAnswer, TypeOK
  <2> QED
    BY <1>6, <2>1, <2>2 DEF ReadAnswer, TypeOK
<1>7. ASSUME NEW b \in Batch, Start(b) PROVE TypeOK'
  <2>1. test' \in [AnyTest -> TestRow]
    BY <1>7 DEF Start, Joined, TypeOK, TestRow, AnyPath
  <2> QED
    BY <1>7, <2>1, StatusType DEF Start, TypeOK
<1>8. ASSUME NEW b \in Batch, Encode(b) PROVE TypeOK'
  <2>1. spare' \in 0 .. MaxSpare
    BY <1>8, PaysType DEF Encode
  <2>2. /\ test' \in [AnyTest -> TestRow]
        /\ run' \in [AnyTest -> RunRow]
    BY <1>8, EncodedType, SomeTestsAndPaths DEF Encode, Written
  <2> QED
    BY <1>8, <2>1, <2>2 DEF Encode, TypeOK
<1>9. ASSUME NEW b \in Batch, Ask(b) PROVE TypeOK'
  <2>1. spare' \in 0 .. MaxSpare
    BY <1>9, PaysType DEF Ask
  <2> QED
    BY <1>9, <2>1 DEF Ask, TypeOK
<1>10. ASSUME NEW b \in Batch, Develop(b) \/ Judge(b) PROVE TypeOK'
  <2>1. MaxCommit \in Nat /\ head[b] \in 0 .. MaxCommit
    BY ChainAssumption DEF TypeOK
  <2>2. head[b] < MaxCommit => head[b] + 1 \in 0 .. MaxCommit
    BY <2>1
  <2>3. CASE Develop(b)
    BY <2>2, <2>3 DEF Develop, TypeOK
  <2>4. CASE Judge(b)
    BY <2>1, <2>4 DEF Judge, TypeOK
  <2> QED
    BY <1>10, <2>3, <2>4
<1>11. \A b \in Running : b \in Batch
    BY DEF Running, Grouped
<1> QED
    BY <1>1, <1>2, <1>3, <1>4, <1>5, <1>6, <1>7, <1>8, <1>9, <1>10, <1>11, TypeGroup DEF RoleStep

LEMMA TypeStep == ASSUME TypeOK, [Next]_vars PROVE TypeOK'
<1> USE DEF itemVars, workVars, batchVars, testVars
<1>1. CASE RoleTurn /\ RoleStep
    BY <1>1, TypeRoleStep
<1>2. ASSUME NEW i \in Item, Approve(i) PROVE TypeOK'
    BY <1>2 DEF Approve, TypeOK
<1>3. ASSUME NEW b \in Batch, Harness(b) PROVE TypeOK'
  <2>1. run' \in [AnyTest -> RunRow]
    BY <1>3 DEF Harness, TypeOK, RunRow
  <2> QED
    BY <1>3, <2>1 DEF Harness, TypeOK
<1>4. ASSUME NEW b \in Batch, Merge(b) PROVE TypeOK'
    BY <1>4, StatusType DEF Merge, TypeOK
<1>5. ASSUME NEW b \in Batch, Cancel(b) PROVE TypeOK'
    BY <1>5, StatusType DEF Cancel, TypeOK
<1>6. CASE UNCHANGED vars
    BY <1>6 DEF TypeOK, vars
<1> QED
    BY <1>1, <1>2, <1>3, <1>4, <1>5, <1>6, NextSteps

\* Every reachable state of the chain is well typed.
THEOREM TypeCorrect == Spec => []TypeOK
<1> QED
    BY TypeInit, TypeStep, PTL DEF Spec

-----------------------------------------------------------------------------
(***************************************************************************)
(* The work: what an id is the id of.                                      *)
(***************************************************************************)

\* tickets.slice never takes a ticket from the item it is of.
LEMMA SliceKeepsItems ==
    ASSUME TypeOK, NoItemNoTicket, DerivedIsOwn, NEW ids \in Slices, NEW i \in Item, Slice(ids, i)
    PROVE  /\ NoItemNoTicket' /\ DerivedIsOwn'
           /\ \A t \in TicketId : ticket[t].item # None => ticket'[t].item = ticket[t].item
           /\ \A t \in TicketId : Spent(t) => ticket'[t] = ticket[t]
<1> DEFINE mine == {OwnId(id, i) : id \in ids}
<1>1. /\ mine \subseteq TicketId
      /\ \A t \in mine : ~Spent(t)
      /\ ticket' = [t \in TicketId |-> IF t \in mine THEN [item |-> i, words |-> ticket[t].words + 1]
                                       ELSE ticket[t]]
    BY DEF Slice
<1>2. i # None
    BY ChainAssumption
<1>3. \A id \in ids : id \in Handle \/ (id \in Handle \X Item /\ ticket[id] # NoTicket)
    BY DEF Slices, HeldIds, Derived
<1>4. \A t \in mine : ticket[t].item \in {None, i} /\ (t \in Handle \X Item => t[2] = i)
  <2>1. SUFFICES ASSUME NEW id \in ids
                 PROVE  LET t == OwnId(id, i)
                        IN  ticket[t].item \in {None, i} /\ (t \in Handle \X Item => t[2] = i)
    OBVIOUS
  <2>2. id \in TicketId /\ OwnId(id, i) \in TicketId
    BY <1>1, <1>3 DEF TicketId
  <2>3. CASE ticket[id].item \in {None, i}
    <3>1. OwnId(id, i) = id
      BY <2>3 DEF OwnId
    <3>2. ASSUME id \in Handle \X Item PROVE id[2] = i
      <4>1. id \notin Handle
        BY <3>2, ChainAssumption DEF TicketId
      <4>2. ticket[id].item # None
        BY <1>3, <2>2, <4>1 DEF NoItemNoTicket
      <4> QED
        BY <2>3, <3>2, <4>2 DEF DerivedIsOwn
    <3> QED
      BY <2>3, <3>1, <3>2
  <2>4. CASE ticket[id].item \notin {None, i}
    <3>1. OwnId(id, i) = <<id, i>>
      BY <2>4 DEF OwnId
    <3>2. <<id, i>> \in Handle \X Item
      BY <2>2, <3>1, ChainAssumption DEF TicketId
    <3> QED
      BY <3>1, <3>2 DEF DerivedIsOwn
  <2> QED
    BY <2>3, <2>4
<1> HIDE DEF mine
<1>5. \A t \in TicketId : ticket'[t].item = IF t \in mine THEN i ELSE ticket[t].item
    BY <1>1
<1>6. NoItemNoTicket'
    BY <1>1, <1>2, <1>5 DEF NoItemNoTicket
<1>7. DerivedIsOwn'
    BY <1>4, <1>5 DEF DerivedIsOwn, TicketId
<1>8. \A t \in TicketId : Spent(t) => ticket'[t] = ticket[t]
    BY <1>1
<1> QED
    BY <1>4, <1>5, <1>6, <1>7, <1>8

\* Only a slice writes tickets.
LEMMA TicketsMove ==
    ASSUME [Next]_vars
    PROVE  ticket' = ticket \/ \E ids \in Slices, i \in Item : Slice(ids, i)
<1>1. CASE RoleTurn /\ RoleStep
    BY <1>1 DEF RoleStep, Assert, Specify, Repair, Answer, ReadAnswer, Group, Start, Encode, Ask,
                Develop, Judge, workVars
<1>2. CASE UNCHANGED vars
    BY <1>2 DEF vars, workVars
<1> QED
    BY <1>1, <1>2, NextSteps DEF Approve, Harness, Merge, Cancel, workVars

\* A criterion that is written is not moved to another ticket.
LEMMA CriteriaMove ==
    ASSUME TypeOK, [Next]_vars
    PROVE  \A c \in Written : criterion'[c].ticket = criterion[c].ticket
<1>1. SUFFICES ASSUME NEW c \in Written PROVE criterion'[c].ticket = criterion[c].ticket
    OBVIOUS
<1>2. c \in Criterion /\ criterion[c] # NoCriterion
    BY DEF Written
<1>3. ASSUME NEW d \in Criterion, NEW t \in TicketId, NEW w \in Words, Specify(d, t, w)
      PROVE  criterion'[c].ticket = criterion[c].ticket
    BY <1>2, <1>3 DEF Specify, Specifiable, TypeOK
<1>4. ASSUME NEW q \in Criterion, Repair(q)
      PROVE  criterion'[c].ticket = criterion[c].ticket
    BY <1>2, <1>4, RespecifiedType DEF Repair, Written
<1>5. CASE RoleTurn /\ RoleStep
    BY <1>3, <1>4, <1>5 DEF RoleStep, Assert, Slice, Answer, ReadAnswer, Group, Start, Encode, Ask,
                            Develop, Judge, workVars
<1>6. CASE UNCHANGED vars
    BY <1>6 DEF vars, workVars
<1> QED
    BY <1>5, <1>6, NextSteps DEF Approve, Harness, Merge, Cancel, workVars

LEMMA IdsInit == Init => NoItemNoTicket /\ DerivedIsOwn
    BY DEF Init, NoItemNoTicket, DerivedIsOwn, NoTicket, TicketId

LEMMA IdsStep ==
    ASSUME TypeOK, NoItemNoTicket, DerivedIsOwn, [Next]_vars
    PROVE  NoItemNoTicket' /\ DerivedIsOwn'
<1>1. ticket' = ticket => NoItemNoTicket' /\ DerivedIsOwn'
    BY DEF NoItemNoTicket, DerivedIsOwn
<1> QED
    BY <1>1, TicketsMove, SliceKeepsItems

\* A ticket stays its item's and a criterion its ticket's, and what a batch went
\* out with is never written over, whatever ids later sessions invent.
THEOREM WorkIsKept == Spec => WorkKeepsItsPlace
<1> DEFINE Kept == /\ \A t \in TicketId : ticket[t].item # None => ticket'[t].item = ticket[t].item
                   /\ \A t \in TicketId : Spent(t) => ticket'[t] = ticket[t]
                   /\ \A c \in Written : criterion'[c].ticket = criterion[c].ticket
<1>1. TypeOK /\ NoItemNoTicket /\ DerivedIsOwn /\ [Next]_vars => [Kept]_vars
  <2>1. ticket' = ticket =>
          /\ \A t \in TicketId : ticket[t].item # None => ticket'[t].item = ticket[t].item
          /\ \A t \in TicketId : Spent(t) => ticket'[t] = ticket[t]
    OBVIOUS
  <2> QED
    BY <2>1, TicketsMove, SliceKeepsItems, CriteriaMove
<1>2. Spec => [](NoItemNoTicket /\ DerivedIsOwn)
    BY IdsInit, IdsStep, TypeCorrect, PTL DEF Spec
<1> QED
    BY <1>1, <1>2, TypeCorrect, PTL DEF Spec, WorkKeepsItsPlace

-----------------------------------------------------------------------------
(***************************************************************************)
(* The tests: one file each.                                               *)
(***************************************************************************)

\* tests.encode, whatever batch the test is filed under.
LEMMA EncodedFiles ==
    ASSUME TypeOK, OneTestPerFile, NEW x \in AnyTest, NEW c \in Criterion, NEW p, NEW b,
           Encoded(x, c, p, b)
    PROVE  OneTestPerFile'
<1>1. test' = [test EXCEPT ![x] = [batch |-> b, criterion |-> c, path |-> p]]
    BY DEF Encoded
<1>2. \A y \in AnyTest : test'[y] = IF y = x THEN [batch |-> b, criterion |-> c, path |-> p] ELSE test[y]
    BY <1>1 DEF TypeOK
<1>3. \A y \in TestsOf(b) \ {x} : test[y].path # p
    BY DEF Encoded, FreePath
<1> QED
    BY <1>2, <1>3 DEF OneTestPerFile, TestsOf

\* lifecycle.start with harness.inherit: a path the batch has is not joined.
LEMMA StartFiles ==
    ASSUME TypeOK, OneTestPerFile, NEW b \in Batch, Start(b)
    PROVE  OneTestPerFile'
<1> DEFINE joins(z) == z \in Inherited /\ \A w \in TestsOf(b) : test[w].path # z
<1>1. /\ \A z \in AnyTest : joins(z) => test'[z].batch = b /\ test'[z].path = z
      /\ \A z \in AnyTest : ~joins(z) => test'[z] = test[z]
    BY DEF Start, Joined
<1>2. ASSUME NEW a \in Batch, NEW x \in TestsOf(a)', NEW y \in TestsOf(a)', test'[x].path = test'[y].path
      PROVE  x = y
  <2> HIDE DEF joins
  <2>1. \A z \in AnyTest : test'[z].batch = a /\ joins(z) => a = b /\ test'[z].path = z
    BY <1>1
  <2>2. \A z \in TestsOf(a)' : joins(z) => a = b /\ test'[z].path = z
    BY <2>1 DEF TestsOf
  <2>3. \A z \in TestsOf(a)' : ~joins(z) => z \in TestsOf(a) /\ test'[z] = test[z]
    BY <1>1 DEF TestsOf
  <2>4. CASE joins(x) /\ joins(y)
    BY <1>2, <2>2, <2>4
  <2>5. CASE ~joins(x) /\ ~joins(y)
    BY <1>2, <2>3, <2>5 DEF OneTestPerFile
  <2>6. CASE joins(x) /\ ~joins(y)
    BY <1>2, <2>2, <2>3, <2>6 DEF joins
  <2>7. CASE ~joins(x) /\ joins(y)
    BY <1>2, <2>2, <2>3, <2>7 DEF joins
  <2> QED
    BY <2>4, <2>5, <2>6, <2>7
<1> QED
    BY <1>2 DEF OneTestPerFile

LEMMA FilesStep ==
    ASSUME TypeOK, OneTestPerFile, [Next]_vars
    PROVE  OneTestPerFile'
<1>1. test' = test => OneTestPerFile'
    BY DEF OneTestPerFile, TestsOf
<1>2. ASSUME NEW c \in Criterion, ReadAnswer(c) PROVE OneTestPerFile'
    BY <1>1, <1>2, SomeTestsAndPaths, EncodedFiles DEF ReadAnswer, testVars
<1>3. ASSUME NEW b \in Batch, Encode(b) PROVE OneTestPerFile'
    BY <1>3, SomeTestsAndPaths, EncodedFiles DEF Encode, Written
<1>4. CASE RoleTurn /\ RoleStep
    BY <1>1, <1>2, <1>3, <1>4, StartFiles
       DEF RoleStep, Assert, Slice, Specify, Repair, Answer, Group, Ask, Develop, Judge, testVars
<1>5. CASE UNCHANGED vars
    BY <1>1, <1>5 DEF vars, testVars
<1> QED
    BY <1>1, <1>4, <1>5, NextSteps DEF Approve, Harness, Merge, Cancel, testVars

LEMMA FilesInit == Init => OneTestPerFile
    BY ChainAssumption DEF Init, OneTestPerFile, TestsOf, NoTest

\* Two tests of one batch never share a file.
THEOREM EachTestHasItsFile == Spec => []OneTestPerFile
<1> QED
    BY FilesInit, FilesStep, TypeCorrect, PTL DEF Spec

-----------------------------------------------------------------------------
(***************************************************************************)
(* The merge: a verdict and what it was given for.                         *)
(***************************************************************************)

\* What a verdict is given for.
Evidence(b) == Covered(b) /\ TestsOf(b) \subseteq AtHead(b) /\ Red(b) = {}

\* What the loop is still to merge, or to cancel.
JudgedAtHead(b) == b \in Running /\ head[b] # 0 /\ judged[b] = head[b]

\* A grouping makes pending batches of unused ids.
LEMMA GroupStatus ==
    ASSUME TypeOK, Group, NEW b \in Batch
    PROVE  batch'[b] = batch[b] \/ (batch[b].status = "none" /\ batch'[b].status = "pending")
<1> DEFINE due == {ticket[t].item : t \in Owed}
<1>1. due \subseteq Item \cup {None}
    BY DEF Owed, TypeOK, TicketRow
<1> HIDE DEF due
<1>2. PICK ts \in [due -> SUBSET Owed] :
        LET items == {i \in due : ts[i] # {}}
            of    == NewBatches(items)
        IN  batch' = [c \in Batch |->
                IF c \in DOMAIN of
                THEN [status |-> "pending", item |-> of[c], tickets |-> ts[of[c]]]
                ELSE batch[c]]
    BY DEF Group, due
<1> DEFINE items == {i \in due : ts[i] # {}}
<1>3. DOMAIN NewBatches(items) \subseteq Grouped({"none"})
    BY <1>1, NewBatchesType
<1> QED
    BY <1>2, <1>3 DEF Grouped

\* An id moves from one status to the next.
LEMMA StatusSteps ==
    ASSUME TypeOK, [Next]_vars, NEW b \in Batch
    PROVE  \/ batch'[b] = batch[b]
           \/ Group /\ batch[b].status = "none" /\ batch'[b].status = "pending"
           \/ /\ Start(b) /\ batch[b].status = "pending" /\ batch'[b].status = "running"
              /\ batch'[b].tickets = batch[b].tickets
           \/ /\ Merge(b) /\ batch[b].status = "running" /\ batch'[b].status = "merged"
              /\ batch'[b].tickets = batch[b].tickets
           \/ /\ Cancel(b) /\ batch[b].status \in {"pending", "running"} /\ batch'[b].status = "abandoned"
              /\ batch'[b].tickets = batch[b].tickets
<1>1. batch[b] \in BatchRow
    BY DEF TypeOK
<1>2. ASSUME NEW a \in Batch, NEW s, batch' = [batch EXCEPT ![a].status = s]
      PROVE  IF a = b THEN batch'[b].status = s /\ batch'[b].tickets = batch[b].tickets
             ELSE batch'[b] = batch[b]
  <2>1. [batch[b] EXCEPT !.status = s] = [status |-> s, item |-> batch[b].item, tickets |-> batch[b].tickets]
    BY <1>1 DEF BatchRow
  <2> QED
    BY <1>2, <2>1 DEF TypeOK
<1>3. ASSUME NEW a \in Batch, Start(a)
      PROVE  batch'[b] = batch[b] \/ (a = b /\ Start(b) /\ batch[b].status = "pending" /\ batch'[b].status = "running"
                                      /\ batch'[b].tickets = batch[b].tickets)
  <2>1. batch' = [batch EXCEPT ![a].status = "running"] /\ batch[a].status = "pending"
    BY <1>3 DEF Start
  <2> QED
    BY <1>2, <1>3, <2>1
<1>4. CASE RoleTurn /\ RoleStep
    BY <1>3, <1>4, GroupStatus
       DEF RoleStep, Assert, Slice, Specify, Repair, Answer, ReadAnswer, Encode, Ask, Develop, Judge,
           batchVars
<1>5. ASSUME NEW a \in Batch, Merge(a)
      PROVE  batch'[b] = batch[b] \/ (a = b /\ Merge(b) /\ batch[b].status = "running" /\ batch'[b].status = "merged"
                                      /\ batch'[b].tickets = batch[b].tickets)
  <2>1. batch' = [batch EXCEPT ![a].status = "merged"] /\ batch[a].status = "running"
    BY <1>5 DEF Merge, MergeTurn, Mergeable, Running, Grouped
  <2> QED
    BY <1>2, <1>5, <2>1
<1>6. ASSUME NEW a \in Batch, Cancel(a)
      PROVE  batch'[b] = batch[b] \/ (a = b /\ Cancel(b) /\ batch[b].status \in {"pending", "running"}
                                      /\ batch'[b].status = "abandoned" /\ batch'[b].tickets = batch[b].tickets)
  <2>1. batch' = [batch EXCEPT ![a].status = "abandoned"] /\ batch[a].status \in {"pending", "running"}
    BY <1>6 DEF Cancel, CancelDue, Open, Grouped
  <2> QED
    BY <1>2, <1>6, <2>1
<1>7. CASE UNCHANGED vars
    BY <1>7 DEF vars, batchVars
<1> QED
    BY <1>4, <1>5, <1>6, <1>7, NextSteps DEF Approve, Harness, batchVars

\* A step that is neither a commit nor a verdict leaves the heads alone.
LEMMA HeadSteps ==
    ASSUME TypeOK, [Next]_vars, NEW b \in Batch
    PROVE  \/ head'[b] = head[b] /\ judged'[b] = judged[b]
           \/ /\ RoleTurn /\ Develop(b) /\ b \in Running
              /\ head'[b] = head[b] + 1 /\ judged'[b] = judged[b]
           \/ /\ RoleTurn /\ Judge(b) /\ b \in Running
              /\ head'[b] = head[b] /\ judged'[b] = head[b]
<1>1. ASSUME RoleTurn, NEW a \in Running, Develop(a)
      PROVE  \/ head'[b] = head[b] /\ judged'[b] = judged[b]
             \/ Develop(b) /\ b \in Running /\ head'[b] = head[b] + 1 /\ judged'[b] = judged[b]
    BY <1>1 DEF Develop, TypeOK
<1>2. ASSUME RoleTurn, NEW a \in Running, Judge(a)
      PROVE  \/ head'[b] = head[b] /\ judged'[b] = judged[b]
             \/ Judge(b) /\ b \in Running /\ head'[b] = head[b] /\ judged'[b] = head[b]
    BY <1>2 DEF Judge, TypeOK
<1>3. CASE RoleTurn /\ RoleStep
    BY <1>1, <1>2, <1>3 DEF RoleStep, Assert, Slice, Specify, Repair, Answer, ReadAnswer, Group, Start,
                            Encode, Ask, batchVars
<1>4. CASE UNCHANGED vars
    BY <1>4 DEF vars, batchVars
<1> QED
    BY <1>3, <1>4, NextSteps DEF Approve, Harness, Merge, Cancel, batchVars

LEMMA HeadsInit == Init => HeadsFollow /\ JudgedStands
    BY DEF Init, HeadsFollow, JudgedStands, Running, Grouped

LEMMA HeadsStep ==
    ASSUME TypeOK, HeadsFollow, [Next]_vars
    PROVE  HeadsFollow'
<1>1. SUFFICES ASSUME NEW b \in Batch
      PROVE  /\ batch'[b].status \in {"none", "pending"} => head'[b] = 0
             /\ judged'[b] <= head'[b]
    BY DEF HeadsFollow
<1>2. head[b] \in Nat /\ judged[b] \in Nat /\ judged[b] <= head[b]
    BY ChainAssumption DEF TypeOK, HeadsFollow
<1>3. judged'[b] <= head'[b]
    BY <1>2, HeadSteps
<1>4. ASSUME batch'[b].status \in {"none", "pending"} PROVE head'[b] = 0
  <2>1. batch[b].status \in {"none", "pending"}
    BY <1>4, StatusSteps
  <2>2. head'[b] = head[b]
    BY <2>1, HeadSteps DEF Running, Grouped
  <2> QED
    BY <2>1, <2>2 DEF HeadsFollow
<1> QED
    BY <1>3, <1>4

\* Where a role may act nothing is judged at its head: it would be merged first.
LEMMA RolesActOnTheUnjudged ==
    ASSUME JudgedStands, RoleTurn, NEW b \in Batch
    PROVE  ~JudgedAtHead(b)
    BY DEF JudgedStands, RoleTurn, JudgedAtHead, Mergeable

\* A verdict stands while its tickets, criteria and tests do.
LEMMA EvidenceStands ==
    ASSUME NEW b \in Batch, Evidence(b), head'[b] = head[b],
           batch'[b].tickets = batch[b].tickets, UNCHANGED <<criterion, test>>,
           \A x \in AnyTest : run'[x] = run[x] \/ (x \notin TestsOf(b) /\ run'[x].batch # b)
    PROVE  Evidence(b)'
<1>1. TestsOf(b)' = TestsOf(b)
    BY DEF TestsOf
<1>2. Covered(b)'
    BY DEF Evidence, Covered, Promised, Criteria, Tested
<1>3. TestsOf(b)' \subseteq AtHead(b)'
    BY <1>1 DEF Evidence, AtHead, TestsOf
<1>4. Red(b)' = {}
    BY DEF Evidence, Red, AtHead
<1> QED
    BY <1>2, <1>3, <1>4 DEF Evidence

LEMMA JudgedStep ==
    ASSUME TypeOK, HeadsFollow, JudgedStands, [Next]_vars
    PROVE  JudgedStands'
<1>1. SUFFICES ASSUME NEW b \in Batch, JudgedAtHead(b)' PROVE Evidence(b)'
    BY DEF JudgedStands, JudgedAtHead, Evidence, Running, Grouped
<1>2. head[b] \in Nat /\ judged[b] \in Nat /\ judged[b] <= head[b]
    BY ChainAssumption DEF TypeOK, HeadsFollow
<1>3. batch'[b].status = "running" /\ head'[b] # 0 /\ judged'[b] = head'[b]
    BY <1>1 DEF JudgedAtHead, Running, Grouped
<1>4. JudgedAtHead(b) \/ (RoleTurn /\ Judge(b))
  <2>1. CASE head'[b] = head[b] /\ judged'[b] = judged[b]
    <3>1. batch[b].status = "running"
      BY <1>3, <2>1, StatusSteps DEF HeadsFollow
    <3> QED
      BY <1>3, <2>1, <3>1 DEF JudgedAtHead, Running, Grouped
  <2>2. CASE head'[b] = head[b] + 1 /\ judged'[b] = judged[b]
    BY <1>2, <1>3, <2>2
  <2> QED
    BY <2>1, <2>2, HeadSteps
<1>5. CASE RoleTurn /\ Judge(b)
  <2>1. Evidence(b)
    BY <1>5 DEF RoleTurn, Judge, ReviewDue, HarnessDue, Evidence
  <2> QED
    BY <1>5, <2>1, EvidenceStands DEF Judge, workVars, testVars
<1>6. CASE JudgedAtHead(b)
  <2>1. Evidence(b)
    BY <1>6 DEF JudgedStands, JudgedAtHead, Evidence
  <2>2. ~RoleTurn
    BY <1>6, RolesActOnTheUnjudged
  <2>3. ASSUME NEW a \in Batch, Harness(a) PROVE Evidence(b)'
    <3>1. a # b
      BY <2>1, <2>3 DEF Harness, HarnessDue, Evidence
    <3>2. \A x \in AnyTest : run'[x] = run[x] \/ (x \notin TestsOf(b) /\ run'[x].batch # b)
      BY <2>3, <3>1 DEF Harness, TestsOf
    <3> QED
      BY <2>1, <2>3, <3>2, EvidenceStands DEF Harness, batchVars, workVars
  <2>4. ASSUME NEW a \in Batch, Merge(a) \/ Cancel(a) PROVE Evidence(b)'
    <3>1. batch'[b].tickets = batch[b].tickets
      BY <1>6, StatusSteps DEF JudgedAtHead, Running, Grouped
    <3> QED
      BY <2>1, <2>4, <3>1, EvidenceStands DEF Merge, Cancel, workVars, testVars
  <2>5. CASE \E i \in Item : Approve(i)
    BY <2>1, <2>5, EvidenceStands DEF Approve, workVars, batchVars, testVars
  <2>6. CASE UNCHANGED vars
    BY <2>1, <2>6, EvidenceStands DEF vars, workVars, batchVars, testVars
  <2> QED
    BY <2>2, <2>3, <2>4, <2>5, <2>6, NextSteps
<1> QED
    BY <1>4, <1>5, <1>6

\* What the Critic passed still has what it was passed for, until the batch is
\* merged or cancelled: no role acts in between.
THEOREM VerdictsStand == Spec => [](HeadsFollow /\ JudgedStands)
<1>1. Init => HeadsFollow /\ JudgedStands
    BY HeadsInit
<1>2. TypeOK /\ HeadsFollow /\ JudgedStands /\ [Next]_vars => HeadsFollow' /\ JudgedStands'
    BY HeadsStep, JudgedStep
<1> QED
    BY <1>1, <1>2, TypeCorrect, PTL DEF Spec

\* The parts together, as one inductive invariant of the chain.
THEOREM ChainInvariant == Spec => []IInv
<1>1. Spec => [](NoItemNoTicket /\ DerivedIsOwn)
    BY IdsInit, IdsStep, TypeCorrect, PTL DEF Spec
<1> QED
    BY <1>1, TypeCorrect, EachTestHasItsFile, VerdictsStand, PTL DEF IInv

\* A criterion all of whose tests are the batch's has one that passed at the
\* head when the batch merges; none has no test at all.
THEOREM MergesAreTested == Spec => MergesOnItsOwnTests
<1> DEFINE Merged == \A b \in Running : batch'[b].status = "merged" =>
                       \A c \in Promised(b) : Native(c, b) => Passed(c, b)
<1>1. TypeOK /\ JudgedStands /\ [Next]_vars => Merged
  <2>1. SUFFICES ASSUME TypeOK, JudgedStands, [Next]_vars,
                        NEW b \in Running, batch'[b].status = "merged",
                        NEW c \in Promised(b), Native(c, b)
                 PROVE  Passed(c, b)
    BY DEF Merged
  <2>2. b \in Batch /\ batch[b].status = "running"
    BY DEF Running, Grouped
  <2>3. Merge(b)
    BY <2>1, <2>2, StatusSteps
  <2>4. Evidence(b)
    BY <2>1, <2>3 DEF Merge, MergeTurn, Mergeable, JudgedStands, Evidence
  <2>5. PICK x \in AnyTest : test[x].criterion = c
    BY <2>4 DEF Evidence, Covered, Tested
  <2>6. x \in AtHead(b) \ Red(b)
    BY <2>1, <2>4, <2>5 DEF Native, Evidence, TestsOf
  <2> QED
    BY <2>5, <2>6 DEF Passed, Red
<1>2. TypeOK /\ JudgedStands /\ [Next]_vars => [Merged]_vars
    BY <1>1
<1> QED
    BY <1>2, TypeCorrect, VerdictsStand, PTL DEF Spec, MergesOnItsOwnTests
=============================================================================
