--------------------------- MODULE DispatchProofs --------------------------
(***************************************************************************)
(* Theorems about Dispatch, for every graph of roles and edges, every set  *)
(* of wakes and every cap.  The inductive invariant adds one fact to the   *)
(* types: what is abandoned is at its cap, which is what keeps it from     *)
(* being dispatched, counted or forgotten.                                 *)
(***************************************************************************)
EXTENDS Dispatch, TLAPS

GoneAtCap == \A k \in gone : tries[k] = TickCap

\* The inductive invariant.
IInv == TypeOK /\ GoneAtCap

\* What a step promises what was abandoned before it.
Held(k) == k \in gone' /\ tries'[k] = tries[k]
Holds   == \A k \in gone : Held(k) \/ Matches(k) \cap receipts' # {}

Walks == [1 .. WalkLimit -> Edge \cup {Nothing}]

\* Nothing has been dispatched when the database is new.
LEMMA InitInv == Init => IInv
<1> SUFFICES ASSUME Init PROVE IInv
    OBVIOUS
<1> USE DispatchAssumption
<1>1. Blank \in Walks
    BY DEF Blank, Walks
<1>2. 0 \in 0 .. TickCap /\ 0 \in 0 .. MessageCap
    OBVIOUS
<1>3. TypeOK
    BY <1>1, <1>2 DEF Init, TypeOK, Walks
<1> QED
    BY <1>3 DEF Init, IInv, GoneAtCap

\* The frontier marks what is at its cap and nothing else, and no count of
\* what it marks is dropped.
LEMMA Settled ==
    ASSUME IInv
    PROVE  /\ gone \subseteq GoneNow /\ GoneNow \subseteq Key
           /\ \A k \in GoneNow : tries[k] = TickCap /\ TriesNow[k] = TickCap
           /\ TriesNow \in [Key -> 0 .. TickCap]
           /\ \A k \in Key : TriesNow[k] <= tries[k]
           /\ OpenNow \subseteq Edge /\ DeadNow \subseteq Edge
<1> USE DispatchAssumption DEF IInv, TypeOK
<1>1. /\ gone \subseteq GoneNow /\ GoneNow \subseteq Key
      /\ \A k \in GoneNow : tries[k] = TickCap
    BY DEF GoneNow, GoneAtCap
<1>2. \A k \in Key : TriesNow[k] \in {0, tries[k]}
    BY DEF TriesNow
<1>3. \A k \in GoneNow : TriesNow[k] = tries[k]
    BY <1>1 DEF TriesNow
<1>4. TriesNow \in [Key -> 0 .. TickCap]
    BY <1>2 DEF TriesNow
<1>5. \A k \in Key : TriesNow[k] <= tries[k]
  <2> TAKE k \in Key
  <2>1. tries[k] \in Nat
      OBVIOUS
  <2>2. TriesNow[k] = 0 \/ TriesNow[k] = tries[k]
      BY <1>2
  <2> QED
      BY <2>1, <2>2
<1>6. OpenNow \subseteq Edge /\ DeadNow \subseteq Edge
    BY DEF OpenNow, DeadNow, Looping
<1> QED
    BY <1>1, <1>3, <1>4, <1>5, <1>6

\* Only keys are produced.
LEMMA ProducedKeys == ASSUME IInv PROVE Produced \subseteq Key
<1> USE DispatchAssumption DEF IInv, TypeOK
<1>1. Reports \subseteq Report
  <2> DEFINE untold == GoneNow \ told
             named  == (UNION {Subjects(k) \cap Shown : k \in untold})
                       \cup (UNION {About[e] : e \in DeadNow})
  <2>1. named \subseteq Subject
    <3>1. \A e \in DeadNow : About[e] \subseteq Subject
        BY Settled
    <3> QED
        BY <3>1
  <2>2. Reports \subseteq {[named |-> named]}
      BY DEF Reports
  <2> HIDE DEF named
  <2> QED
      BY <2>1, <2>2 DEF Report
<1> QED
    BY <1>1 DEF Produced, Key

\* Dispatching what is offered counts it within the cap, and touches no count
\* of what is given up.
LEMMA Counted ==
    ASSUME IInv, NEW k \in Offered
    PROVE  /\ k \in Key /\ k \notin GoneNow
           /\ Count(k) \in [Key -> 0 .. TickCap]
           /\ \A j \in GoneNow : Count(k)[j] = TickCap
<1> USE DispatchAssumption
<1>1. k \in Key /\ tries[k] < TickCap
    BY ProducedKeys DEF Offered
<1>2. k \notin GoneNow
    BY <1>1, Settled
<1>3. TriesNow[k] + 1 \in 0 .. TickCap
    BY <1>1, Settled DEF IInv, TypeOK
<1>4. Count(k) \in [Key -> 0 .. TickCap]
    BY <1>3, Settled DEF Count
<1>5. \A j \in GoneNow : Count(k)[j] = TickCap
    BY <1>1, <1>2, Settled DEF Count
<1> QED
    BY <1>1, <1>2, <1>4, <1>5

\* Keeping open messages keeps their columns well typed.
LEMMA KeptType ==
    ASSUME NEW o \in SUBSET Edge,
           NEW count \in [Edge -> 0 .. MessageCap],
           NEW causes \in [Edge -> Walks],
           Kept(o, count, causes)
    PROVE  /\ open' \subseteq Edge
           /\ spent' \in [Edge -> 0 .. MessageCap]
           /\ walk' \in [Edge -> Walks]
<1> USE DispatchAssumption
<1>1. Blank \in Walks
    BY DEF Blank, Walks
<1> QED
    BY <1>1 DEF Kept

\* What a session sends hangs from what woke it.
LEMMA SendsType ==
    ASSUME TypeOK, NEW r, NEW cause \in Edge \cup {Nothing},
           NEW rest \in SUBSET Edge, Sends(r, cause, rest)
    PROVE  /\ open' \subseteq Edge
           /\ spent' \in [Edge -> 0 .. MessageCap]
           /\ walk' \in [Edge -> Walks]
<1> USE DispatchAssumption
<1>1. PICK new \in {{}} \cup {{e} : e \in {f \in Edge \ rest : From[f] = r}} :
          Kept(rest \cup new, [e \in Edge |-> IF e \in new THEN 0 ELSE spent[e]],
               [e \in Edge |-> IF e \in new THEN Caused(e, cause) ELSE walk[e]])
    BY DEF Sends
<1>2. rest \cup new \in SUBSET Edge
    OBVIOUS
<1>3. [e \in Edge |-> IF e \in new THEN 0 ELSE spent[e]] \in [Edge -> 0 .. MessageCap]
    BY DEF TypeOK
<1>4. \A e \in Edge : Caused(e, cause) \in Walks
  <2> TAKE e \in Edge
  <2>1. \A i \in 1 .. WalkLimit : i # 1 => i - 1 \in 1 .. WalkLimit
      OBVIOUS
  <2>2. cause # Nothing => walk[cause] \in [1 .. WalkLimit -> Edge \cup {Nothing}]
      BY DEF TypeOK
  <2> QED
      BY <2>1, <2>2 DEF Caused, Walks
<1>5. [e \in Edge |-> IF e \in new THEN Caused(e, cause) ELSE walk[e]] \in [Edge -> Walks]
    BY <1>4 DEF TypeOK, Walks
<1> QED
    BY <1>1, <1>2, <1>3, <1>5, KeptType

\* The parts of IInv' that a step settles together, and what it owes Holds.
LEMMA Together ==
    ASSUME NEW lifted \in SUBSET Key, NEW counted,
           IInv,
           counted \in [Key -> 0 .. TickCap],
           \A k \in GoneNow : counted[k] = TickCap,
           gone' = GoneNow \ lifted,
           tries' = [k \in Key |-> IF k \in lifted THEN 0 ELSE counted[k]],
           \A k \in lifted \cap gone : Matches(k) \cap receipts' # {}
    PROVE  /\ tries' \in [Key -> 0 .. TickCap]
           /\ gone' \subseteq Key /\ GoneAtCap' /\ Holds
<1> USE DispatchAssumption
<1>1. tries' \in [Key -> 0 .. TickCap]
    OBVIOUS
<1>2. gone' \subseteq Key /\ GoneAtCap'
    BY Settled DEF GoneAtCap
<1>3. \A k \in gone \ lifted : Held(k)
    BY Settled DEF Held
<1> QED
    BY <1>1, <1>2, <1>3 DEF Holds

\* A step that lands nothing lifts nothing.
LEMMA NothingLandsInv ==
    ASSUME IInv, NEW begun \in SUBSET Work, NEW counted, NothingLands(begun, counted),
           counted \in [Key -> 0 .. TickCap],
           \A k \in GoneNow : counted[k] = TickCap
    PROVE  /\ due' \subseteq Work
           /\ tries' \in [Key -> 0 .. TickCap]
           /\ gone' \subseteq Key /\ told' \subseteq gone'
           /\ receipts' \subseteq Subject /\ outside' \in BOOLEAN /\ stirred' \in BOOLEAN
           /\ GoneAtCap' /\ Holds
<1>1. /\ gone' = GoneNow \ {} /\ tries' = [k \in Key |-> IF k \in {} THEN 0 ELSE counted[k]]
    BY DEF NothingLands
<1>2. /\ tries' \in [Key -> 0 .. TickCap]
      /\ gone' \subseteq Key /\ GoneAtCap' /\ Holds
    BY <1>1, Together
<1>3. /\ due' \subseteq Work /\ told' \subseteq gone'
      /\ receipts' \subseteq Subject /\ outside' \in BOOLEAN /\ stirred' \in BOOLEAN
    BY Settled DEF NothingLands, IInv, TypeOK
<1> QED
    BY <1>2, <1>3

\* What a commit lifts matches a row it wrote.
LEMMA CommitsInv ==
    ASSUME IInv, NEW r \in Role, NEW cause \in Edge \cup {Nothing},
           NEW begun \in SUBSET Work, NEW counted, NEW reporting \in BOOLEAN,
           counted \in [Key -> 0 .. TickCap],
           \A k \in GoneNow : counted[k] = TickCap,
           Commits(r, cause, begun, counted, reporting)
    PROVE  IInv' /\ Holds
<1> USE DispatchAssumption
<1>0. PICK rows \in SUBSET Subject : \E heads \in SUBSET rows :
          LET lifted == Lifted(rows, heads)
              said   == IF reporting THEN GoneNow ELSE {}
          IN  /\ receipts' = rows /\ outside' = FALSE
              /\ gone' = GoneNow \ lifted
              /\ told' \in {told \ lifted, (told \cup said) \ lifted}
              /\ tries' = [k \in Key |-> IF k \in lifted THEN 0 ELSE counted[k]]
              /\ Rewritten(begun, rows)
    BY DEF Commits
<1>1. PICK heads \in SUBSET rows :
          /\ receipts' = rows /\ outside' = FALSE
          /\ gone' = GoneNow \ Lifted(rows, heads)
          /\ told' \subseteq (told \cup GoneNow) \ Lifted(rows, heads)
          /\ tries' = [k \in Key |-> IF k \in Lifted(rows, heads) THEN 0 ELSE counted[k]]
          /\ Rewritten(begun, rows)
    BY <1>0
<1> DEFINE lifted == Lifted(rows, heads)
<1>2. lifted \subseteq Key
    BY Settled DEF Lifted, Key
<1>3. \A k \in lifted : Matches(k) \cap rows # {}
    BY DEF Lifted
<1>4. told' \subseteq gone'
    BY <1>1, Settled DEF IInv, TypeOK
<1>5. receipts' \subseteq Subject /\ outside' \in BOOLEAN /\ stirred' \in BOOLEAN
    BY <1>1 DEF Commits
<1>6. due' \subseteq Work
    BY <1>1 DEF Rewritten
<1>7. /\ open' \subseteq Edge
      /\ spent' \in [Edge -> 0 .. MessageCap]
      /\ walk' \in [Edge -> Walks]
  <2>1. OpenNow \ {cause} \in SUBSET Edge
      BY Settled
  <2>2. Sends(r, cause, OpenNow \ {cause})
      BY DEF Commits
  <2> QED
      BY <2>1, <2>2, SendsType DEF IInv
<1>8. dead' \subseteq Edge /\ claims' \subseteq Role
    BY Settled DEF Commits, IInv, TypeOK
<1>9. /\ tries' \in [Key -> 0 .. TickCap]
      /\ gone' \subseteq Key /\ GoneAtCap' /\ Holds
  <2>1. /\ gone' = GoneNow \ lifted
        /\ tries' = [k \in Key |-> IF k \in lifted THEN 0 ELSE counted[k]]
        /\ receipts' = rows
      BY <1>1
  <2> HIDE DEF lifted
  <2> QED
      BY <1>2, <1>3, <2>1, Together
<1> QED
    BY <1>4, <1>5, <1>6, <1>7, <1>8, <1>9 DEF IInv, TypeOK, Walks

\* Any end of a session keeps the invariant and what was abandoned.
LEMMA SessionInv ==
    ASSUME IInv, NEW r \in Role, NEW cause \in Edge \cup {Nothing},
           NEW begun \in SUBSET Work, NEW counted, NEW reporting \in BOOLEAN,
           counted \in [Key -> 0 .. TickCap],
           \A k \in GoneNow : counted[k] = TickCap,
           Session(r, cause, begun, counted, reporting)
    PROVE  IInv' /\ Holds
<1> USE DispatchAssumption
<1>1. CASE Commits(r, cause, begun, counted, reporting)
    BY <1>1, CommitsInv
<1>2. Spend(cause) \in [Edge -> 0 .. MessageCap] /\ spent \in [Edge -> 0 .. MessageCap]
      /\ walk \in [Edge -> Walks]
    BY DEF Spend, IInv, TypeOK, Walks
<1>3. CASE Fails(cause, begun, counted)
  <2> DEFINE over == Exhausted(OpenNow, Spend(cause))
  <2>1. NothingLands(begun, counted) /\ Kept(OpenNow \ over, Spend(cause), walk)
        /\ dead' = DeadNow \cup over /\ claims' = claims
      BY <1>3 DEF Fails
  <2>2. over \subseteq Edge /\ OpenNow \ over \in SUBSET Edge
      BY Settled DEF Exhausted
  <2>3. dead' \subseteq Edge /\ claims' \subseteq Role
      BY <2>1, <2>2, Settled DEF IInv, TypeOK
  <2> HIDE DEF over
  <2>4. open' \subseteq Edge /\ spent' \in [Edge -> 0 .. MessageCap] /\ walk' \in [Edge -> Walks]
      BY <1>2, <2>1, <2>2, KeptType
  <2> QED
      BY <2>1, <2>3, <2>4, NothingLandsInv DEF IInv, TypeOK, Walks
<1>4. CASE Dies(r, cause, begun, counted)
  <2>1. PICK claimed \in BOOLEAN, counts \in BOOLEAN :
            /\ claims' = IF claimed THEN claims \cup {r} ELSE claims
            /\ Kept(OpenNow, IF counts THEN Spend(cause) ELSE spent, walk)
      BY <1>4 DEF Dies
  <2>2. NothingLands(begun, counted) /\ dead' \subseteq Edge /\ claims' \subseteq Role
      BY <1>4, <2>1, Settled DEF Dies, IInv, TypeOK
  <2>3. open' \subseteq Edge /\ spent' \in [Edge -> 0 .. MessageCap] /\ walk' \in [Edge -> Walks]
      BY <1>2, <2>1, Settled, KeptType
  <2> QED
      BY <2>2, <2>3, NothingLandsInv DEF IInv, TypeOK, Walks
<1> QED
    BY <1>1, <1>3, <1>4 DEF Session

\* Looking settles what is abandoned and changes nothing else of it.
LEMMA LookInv == ASSUME IInv, Look PROVE IInv' /\ Holds
<1>1. NothingLands(due, TriesNow) /\ Kept(OpenNow, spent, walk) /\ dead' = DeadNow /\ claims' = claims
    BY DEF Look
<1>2. spent \in [Edge -> 0 .. MessageCap] /\ walk \in [Edge -> Walks]
    BY DEF IInv, TypeOK, Walks
<1>3. open' \subseteq Edge /\ spent' \in [Edge -> 0 .. MessageCap] /\ walk' \in [Edge -> Walks]
    BY <1>1, <1>2, Settled, KeptType
<1>4. dead' \subseteq Edge /\ claims' \subseteq Role
    BY <1>1, Settled DEF IInv, TypeOK
<1> QED
    BY <1>1, <1>3, <1>4, Settled, NothingLandsInv DEF IInv, TypeOK, Walks

\* The scheduler's own wakes are counted like any other, a do: wake not at all.
LEMMA PerformInv == ASSUME IInv, NEW k \in Chores, Perform(k) PROVE IInv' /\ Holds
<1> DEFINE counted == IF k \in Act THEN TriesNow ELSE Count(k)
<1>1. counted \in [Key -> 0 .. TickCap] /\ \A j \in GoneNow : counted[j] = TickCap
    BY Settled, Counted DEF Chores
<1>2. /\ gone' = GoneNow \ {} /\ tries' = [j \in Key |-> IF j \in {} THEN 0 ELSE counted[j]]
    BY <1>1 DEF Perform
<1>3. /\ tries' \in [Key -> 0 .. TickCap]
      /\ gone' \subseteq Key /\ GoneAtCap' /\ Holds
  <2> HIDE DEF counted
  <2> QED
      BY <1>1, <1>2, Together
<1>4. spent \in [Edge -> 0 .. MessageCap] /\ walk \in [Edge -> Walks]
    BY DEF IInv, TypeOK, Walks
<1>5. open' \subseteq Edge /\ spent' \in [Edge -> 0 .. MessageCap] /\ walk' \in [Edge -> Walks]
    BY <1>4, Settled, KeptType DEF Perform
<1>6. /\ due' \subseteq Work /\ told' \subseteq gone' /\ dead' \subseteq Edge
      /\ claims' \subseteq Role /\ receipts' \subseteq Subject /\ outside' \in BOOLEAN /\ stirred' \in BOOLEAN
    BY Settled DEF Perform, IInv, TypeOK
<1> QED
    BY <1>3, <1>5, <1>6 DEF IInv, TypeOK, Walks

\* A message is delivered to a role; no tick is counted.
LEMMA DeliverInv == ASSUME IInv, NEW e \in Tips, Deliver(e) PROVE IInv' /\ Holds
<1>1. e \in Edge /\ e \in OpenNow
    BY Settled DEF Tips
<1>2. To[e] \in Role
    BY <1>1, DispatchAssumption
<1>3. Session(To[e], e, due, TriesNow, FALSE)
    BY DEF Deliver
<1>4. due \in SUBSET Work
    BY DEF IInv, TypeOK
<1> QED
    BY <1>1, <1>2, <1>3, <1>4, Settled, SessionInv

\* A tick is counted and wakes a role.
LEMMA WakeInv == ASSUME IInv, NEW k \in Ticks, Wake(k) PROVE IInv' /\ Holds
<1>1. k \in Offered /\ Addressee(k) # Scheduler
    BY DEF Ticks, Chores
<1>2. Addressee(k) \in Role
    BY <1>1, Counted, DispatchAssumption DEF Addressee, Key
<1>3. (k \in Report) \in BOOLEAN
    OBVIOUS
<1>4. PICK begun \in Begun(k), reporting \in BOOLEAN :
          Session(Addressee(k), Nothing, begun, Count(k), reporting)
    BY <1>3, Zenon DEF Wake
<1>6. begun \in SUBSET Work
    BY DEF Begun, IInv, TypeOK
<1>5. Count(k) \in [Key -> 0 .. TickCap] /\ \A j \in GoneNow : Count(k)[j] = TickCap
    BY <1>1, Counted
<1> QED
    BY <1>2, <1>4, <1>5, <1>6, SessionInv

\* What happens between the loop's steps touches no count and no quarantine.
LEMMA BetweenInv ==
    ASSUME IInv, (\E s \in Subject : World(s)) \/ (\E e \in Edge : Say(e)) \/ Boot
    PROVE  IInv' /\ Holds
<1> USE DispatchAssumption
<1>1. UNCHANGED tickVars => GoneAtCap' /\ Holds
    BY DEF tickVars, GoneAtCap, Holds, Held, IInv
<1>2. CASE \E s \in Subject : World(s)
    BY <1>1, <1>2 DEF World, Rewritten, tickVars, mailVars, IInv, TypeOK
<1>3. CASE \E e \in Edge : Say(e)
  <2> PICK e \in Edge : Say(e)
      BY <1>3
  <2>1. Caused(e, Nothing) \in Walks
      BY DEF Caused, Walks
  <2>2. walk' \in [Edge -> [1 .. WalkLimit -> Edge \cup {Nothing}]]
      BY <2>1 DEF Say, Walks, IInv, TypeOK
  <2>3. TypeOK'
      BY <2>2 DEF Say, tickVars, IInv, TypeOK
  <2> QED
      BY <1>1, <2>3 DEF Say, IInv
<1>4. CASE Boot
  <2> DEFINE over == Exhausted(open, spent)
  <2>1. over \subseteq Edge /\ open \ over \in SUBSET Edge
      BY DEF Exhausted, IInv, TypeOK
  <2>2. Kept(open \ over, spent, walk) /\ dead' = dead \cup over
      BY <1>4 DEF Boot
  <2>3. spent \in [Edge -> 0 .. MessageCap] /\ walk \in [Edge -> Walks]
      BY DEF IInv, TypeOK, Walks
  <2>4. dead' \subseteq Edge
      BY <2>1, <2>2 DEF IInv, TypeOK
  <2> HIDE DEF over
  <2>5. open' \subseteq Edge /\ spent' \in [Edge -> 0 .. MessageCap] /\ walk' \in [Edge -> Walks]
      BY <2>1, <2>2, <2>3, KeptType
  <2>6. TypeOK'
      BY <1>4, <2>4, <2>5 DEF Boot, tickVars, IInv, TypeOK, Walks
  <2> QED
      BY <1>1, <1>4, <2>6 DEF Boot, IInv
<1> QED
    BY <1>2, <1>3, <1>4

LEMMA NextInv == ASSUME IInv, Next PROVE IInv' /\ Holds
<1>1. CASE Step
    BY <1>1, LookInv, PerformInv, DeliverInv, WakeInv DEF Step
<1>2. CASE ~Step
    BY <1>2, BetweenInv DEF Next
<1> QED
    BY <1>1, <1>2

\* The inductive invariant of the specification.
THEOREM DispatchInvariant == Spec => []IInv
<1>1. Init => IInv
    BY InitInv
<1>2. IInv /\ [Next]_vars => IInv'
    BY NextInv DEF vars, tickVars, mailVars, history, IInv, TypeOK, GoneAtCap
<1> QED
    BY <1>1, <1>2, PTL DEF Spec

\* Every count stays within its cap, however sessions end.
THEOREM TypeCorrect == Spec => []TypeOK
<1>1. IInv => TypeOK
    BY DEF IInv
<1> QED
    BY <1>1, DispatchInvariant, PTL

\* What is abandoned stays abandoned, uncounted and remembered until a session
\* commits a row its key matches: one its refs name, or one whose id looks like it.
THEOREM AbandonmentIsKept == Spec => AbandonmentHolds
<1>1. IInv /\ Next
        => \A k \in gone :
              \/ k \in gone' /\ tries'[k] = tries[k]
              \/ Matches(k) \cap receipts' # {}
    BY NextInv DEF Holds, Held
<1>2. IInv /\ [Next]_vars
        => [\A k \in gone :
              \/ k \in gone' /\ tries'[k] = tries[k]
              \/ Matches(k) \cap receipts' # {}]_vars
    BY <1>1
<1> QED
    BY <1>2, DispatchInvariant, PTL DEF Spec, AbandonmentHolds
=============================================================================
