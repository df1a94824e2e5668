----------------------------- MODULE SeatProofs -----------------------------
(***************************************************************************)
(* Theorems about Seat, for every set of items and consoles and every      *)
(* bound.  None of the properties is inductive alone.  A page is ruled on  *)
(* once because the page closes first, one process holds it while it does, *)
(* and nothing opens a message again; a reading keeps its page because no  *)
(* session of a role closes one; an overruled assumption is owed its item  *)
(* while the item is among the rows still to write; and the wakes find     *)
(* every loose end because a note is always in front of the principal.     *)
(***************************************************************************)
EXTENDS Seat, FiniteSetTheorems, TLAPS

\* Who is asked what: words to the Liaison answer a page or a question.
Addressed(i) ==
    /\ Verb(i) = "present" => mail[i].to = "principal"
    /\ Verb(i) = "submit"  => mail[i].to # "principal"
    /\ (Verb(i) = "converse" /\ mail[i].to # "principal")
           => mail[i].cause \in Ids /\ Verb(mail[i].cause) \in {"present", "clarify"}

\* A verdict has answered its page.
AnswersItsPage(i) ==
    Verb(i) = "verdict" => mail[i].cause \in Ids /\ status[mail[i].cause] = "answered"

\* A reading is of a page or a question, and one not landed is of a reply.
ReadsAPage(k) ==
    /\ Verb(readings[k].ask) \in {"present", "clarify"}
    /\ readings[k].status = "open" => readings[k].reply # 0

\* A ruling of the page is landing, or was cut.
Busy(a) == a \in cut \/ \E h \in Hand : landing[h].ask = a

\* What ReadingHasItsPage says of one reading.
HasItsPage(k) ==
    LET a == readings[k].ask
    IN  \/ a \in Open \/ Busy(a) \/ Verb(a) = "clarify" \/ Batch \in mail[a].refs
        \/ \E l \in 1 .. k - 1 : /\ readings[l].ask = a /\ readings[l].reply # 0
                                 /\ readings[l].status = "landed"

\* A process that lands a ruling has closed its page, has not sent its verdict while
\* rows are left, and lands the oldest reading there is.
Holds(h) ==
    LET l == landing[h]
    IN  /\ l.step = "idle" => l = Idle
        /\ l.step # "idle" => /\ l.ask \in Ids /\ Verb(l.ask) \in {"present", "clarify"}
                              /\ status[l.ask] = "answered"
        /\ l.step = "read" => Batch \in mail[l.ask].refs
        /\ l.step = "rows" => \A i \in Ids : Verb(i) = "verdict" => mail[i].cause # l.ask
        /\ l.reading # 0 =>
              /\ l.reading \in DOMAIN readings /\ readings[l.reading].ask = l.ask
              /\ readings[l.reading].reply # 0
              /\ \A n \in DOMAIN readings : readings[n].status = "open" => l.reading <= n

\* What is owed was cut, or is among the rows its landing has still to contest.
Owes(o) ==
    \/ o[1] \in cut
    \/ \E h \in Hand :
          LET l == landing[h]
          IN  /\ l.step = "rows" /\ l.ask = o[1]
              /\ o[2][1] \in l.todo /\ o[2][1] \in DOMAIN l.per /\ l.per[o[2][1]] = "contest"

Letters == \A i \in Ids : Addressed(i)
Closes  == \A i \in Ids : AnswersItsPage(i)
OfPages == \A k \in DOMAIN readings : ReadsAPage(k)
Pledges == \A o \in owed : Owes(o)
Hold    == \A h \in Hand : Holds(h)
Alone   ==
    \A g, h \in Hand :
        (landing[g].step = "rows" /\ landing[h].step = "rows" /\ landing[g].ask = landing[h].ask) => g = h

\* The inductive invariant.
IInv == TypeOK /\ Letters /\ Closes /\ OfPages /\ OneVerdict /\ ReadingHasItsPage
            /\ Hold /\ Alone /\ Pledges

-----------------------------------------------------------------------------
(***************************************************************************)
(* What a step does to the mail: it leaves the rows, or adds one.          *)
(***************************************************************************)
Standing == {"open", "answered"}

\* What was answered stays answered.
StaysAnswered == \A i \in Ids : status[i] = "answered" => status'[i] = "answered"

Keeps ==
    /\ mail' = mail /\ status' \in Seq(Standing) /\ Len(status') = Len(mail)
    /\ StaysAnswered

Posts(m) ==
    /\ m \in Messages /\ mail' = Append(mail, m) /\ Len(mail) < MaxMail
    /\ status' \in Seq(Standing) /\ Len(status') = Len(mail) + 1
    /\ StaysAnswered

\* What the invariant asks of a message the step adds.
WellPosted(m) ==
    /\ m.verb = "present" => m.to = "principal"
    /\ m.verb = "submit"  => m.to # "principal"
    /\ (m.verb = "converse" /\ m.to # "principal")
           => m.cause \in Ids /\ Verb(m.cause) \in {"present", "clarify"}
    /\ m.verb = "verdict"
           => /\ m.cause \in Ids /\ status[m.cause] = "answered"
              /\ \A i \in Ids : Verb(i) = "verdict" => mail[i].cause # m.cause
              /\ \A h \in Hand : landing'[h].step = "rows" => landing'[h].ask # m.cause

MailStep == Keeps \/ \E m : Posts(m) /\ WellPosted(m)

\* No page closes but a note: words and questions may.
NoPageCloses ==
    \A i \in Ids : status'[i] = status[i] \/ Verb(i) # "present" \/ Batch \in mail[i].refs

\* A page an unlanded reading rules on.
Awaited(a) == \E k \in Unlanded : readings[k].ask = a

\* Nor does a page that an unlanded reading rules on, unless its ruling is landing.
PagesStand ==
    \A a \in Ids :
        Awaited(a) => \/ status'[a] = status[a] \/ Verb(a) # "present" \/ Batch \in mail[a].refs
                      \/ Busy(a)'

\* A ruling of the page of an unlanded reading goes on landing, or is cut.
HandsStay == \A a \in Ids : Awaited(a) /\ Busy(a) => Busy(a)'

HandsIdle == UNCHANGED <<landing, cut>> /\ owed' \subseteq owed

MailOK ==
    /\ mail \in Seq(Messages) /\ status \in Seq(Standing)
    /\ Len(status) = Len(mail) /\ Len(mail) <= MaxMail

LEMMA RowsStay ==
    ASSUME TypeOK, MailStep
    PROVE  /\ MailOK'
           /\ Ids \subseteq Ids'
           /\ \A i \in Ids : mail'[i] = mail[i] /\ Verb(i)' = Verb(i)
<1>1. CASE Keeps
    BY <1>1 DEF Keeps, TypeOK, MailOK, Ids, Verb, Standing
<1>2. ASSUME NEW m, Posts(m)
      PROVE  /\ MailOK'
             /\ Ids \subseteq Ids'
             /\ \A i \in Ids : mail'[i] = mail[i] /\ Verb(i)' = Verb(i)
  <2>1. mail \in Seq(Messages) /\ m \in Messages /\ MaxMail \in Nat
    BY <1>2, SeatAssumption DEF Posts, TypeOK
  <2>2. Len(mail') = Len(mail) + 1 /\ mail' \in Seq(Messages)
    BY <1>2, <2>1 DEF Posts
  <2>3. \A i \in 1 .. Len(mail) : mail'[i] = mail[i]
    BY <1>2, <2>1 DEF Posts
  <2> QED
    BY <1>2, <2>1, <2>2, <2>3 DEF Posts, MailOK, Ids, Verb
<1> QED
    BY <1>1, <1>2 DEF MailStep

LEMMA MailKept ==
    ASSUME IInv, MailStep
    PROVE  Letters' /\ Closes' /\ OneVerdict'
<1>0. TypeOK /\ Letters /\ Closes /\ OneVerdict
    BY DEF IInv
<1>1. /\ Ids \subseteq Ids'
      /\ \A i \in Ids : mail'[i] = mail[i] /\ Verb(i)' = Verb(i)
    BY <1>0, RowsStay
<1>2. StaysAnswered
    BY DEF MailStep, Keeps, Posts
<1>3. \A i \in Ids : Addressed(i)' /\ AnswersItsPage(i)'
  <2> SUFFICES ASSUME NEW i \in Ids
               PROVE  Addressed(i)' /\ AnswersItsPage(i)'
    OBVIOUS
  <2>1. Addressed(i) /\ AnswersItsPage(i)
    BY <1>0 DEF Letters, Closes
  <2>2. mail'[i] = mail[i] /\ Verb(i)' = Verb(i)
    BY <1>1
  <2>3. Addressed(i)'
    BY <1>1, <2>1, <2>2 DEF Addressed
  <2>4. AnswersItsPage(i)'
    BY <1>1, <1>2, <2>1, <2>2 DEF AnswersItsPage, StaysAnswered
  <2> QED
    BY <2>3, <2>4
<1>4. CASE Keeps
  <2>1. Ids' = Ids
    BY <1>4 DEF Keeps, Ids
  <2>2. OneVerdict'
    BY <1>0, <1>1, <2>1 DEF OneVerdict
  <2> QED
    BY <1>3, <2>1, <2>2 DEF Letters, Closes
<1>5. ASSUME NEW m, Posts(m), WellPosted(m)
      PROVE  Letters' /\ Closes' /\ OneVerdict'
  <2>0. mail \in Seq(Messages)
    BY <1>0 DEF TypeOK
  <2>1. PICK n \in Nat : n = Len(mail) + 1
    BY <2>0
  <2>2. Ids' = Ids \cup {n} /\ n \notin Ids
    BY <1>5, <2>0, <2>1 DEF Posts, Ids
  <2>3. mail'[n] = m /\ Verb(n)' = m.verb
    BY <1>5, <2>0, <2>1 DEF Posts, Verb
  <2>4. Addressed(n)'
    BY <1>1, <1>5, <2>3 DEF Addressed, WellPosted
  <2>5. AnswersItsPage(n)'
    BY <1>1, <1>2, <1>5, <2>3 DEF AnswersItsPage, WellPosted, StaysAnswered
  <2>6. m.verb = "verdict" => \A i \in Ids : Verb(i) = "verdict" => mail[i].cause # m.cause
    BY <1>5 DEF WellPosted
  <2>8. OneVerdict'
    <3> SUFFICES ASSUME NEW i \in Ids', NEW j \in Ids', Verb(i)' = "verdict", Verb(j)' = "verdict",
                        mail'[i].cause = mail'[j].cause
                 PROVE  i = j
      BY DEF OneVerdict
    <3>1. CASE i \in Ids /\ j \in Ids
      BY <1>0, <1>1, <3>1 DEF OneVerdict
    <3>2. CASE i \in Ids /\ j = n
      BY <1>1, <2>3, <2>6, <3>2
    <3>3. CASE i = n /\ j \in Ids
      BY <1>1, <2>3, <2>6, <3>3
    <3> QED
      BY <2>2, <3>1, <3>2, <3>3
  <2> QED
    BY <1>3, <2>2, <2>4, <2>5, <2>8 DEF Letters, Closes
<1> QED
    BY <1>4, <1>5 DEF MailStep

\* A reading that stays as it was keeps its page while the pages stand.
LEMMA ReadingsKept ==
    ASSUME IInv, MailStep, PagesStand, HandsStay, readings' = readings
    PROVE  OfPages' /\ ReadingHasItsPage'
<1>0. TypeOK /\ OfPages /\ ReadingHasItsPage
    BY DEF IInv
<1>1. \A i \in Ids : mail'[i] = mail[i] /\ Verb(i)' = Verb(i)
    BY <1>0, RowsStay
<1>2. \A k \in DOMAIN readings : readings[k].ask \in Ids
    BY <1>0 DEF TypeOK
<1>3. OfPages'
    BY <1>0, <1>1, <1>2 DEF OfPages, ReadsAPage
<1>4. ReadingHasItsPage'
  <2> SUFFICES ASSUME NEW k \in DOMAIN readings, readings[k].status = "open"
               PROVE  HasItsPage(k)'
    BY DEF ReadingHasItsPage, HasItsPage, Unlanded, Busy
  <2>1. k \in Unlanded
    BY DEF Unlanded
  <2>2. PICK a \in Ids : a = readings[k].ask
    BY <1>2
  <2>3. a \in Ids'
    BY <1>0, RowsStay
  <2>4. Verb(a) \in {"present", "clarify"}
    BY <1>0, <2>1, <2>2 DEF OfPages, ReadsAPage, Unlanded
  <2>5. HasItsPage(k)
    BY <1>0, <2>1 DEF ReadingHasItsPage, HasItsPage, Busy
  <2>6. CASE a \in Open
    <3>1. status'[a] = "open" \/ Verb(a) = "clarify" \/ Batch \in mail[a].refs \/ Busy(a)'
      BY <2>1, <2>2, <2>4, <2>6 DEF PagesStand, Awaited, Open
    <3>2. CASE status'[a] = "open"
      BY <2>2, <2>3, <3>2 DEF Open, HasItsPage
    <3>3. CASE Verb(a) = "clarify"
      BY <1>1, <2>2, <3>3 DEF HasItsPage
    <3>4. CASE Batch \in mail[a].refs
      BY <1>1, <2>2, <3>4 DEF HasItsPage
    <3>5. CASE Busy(a)'
      BY <2>2, <3>5 DEF HasItsPage
    <3> QED
      BY <3>1, <3>2, <3>3, <3>4, <3>5
  <2>7. CASE Busy(a)
    <3>1. Busy(a)'
      BY <2>1, <2>2, <2>7 DEF HandsStay, Awaited
    <3> QED
      BY <2>2, <3>1 DEF HasItsPage
  <2>8. CASE a \notin Open /\ ~Busy(a)
    BY <1>1, <2>2, <2>5, <2>8 DEF HasItsPage
  <2> QED
    BY <2>6, <2>7, <2>8
<1> QED
    BY <1>3, <1>4

-----------------------------------------------------------------------------
(***************************************************************************)
(* Rulings, and the hands that land them.                                  *)
(***************************************************************************)
ItemsOK ==
    /\ version \in [Item -> 0 .. MaxVersion]
    /\ approval \in [Item -> {"draft", "approved", "contested"}]
    /\ approvedAt \in [Item -> 0 .. MaxVersion] /\ \A i \in Item : approvedAt[i] <= version[i]
    /\ ledger \in [Entry -> {"none", "open", "resolved"}]

LEMMA NoneRuling == None \in Rulings
<1>1. None \in [{} -> Verdict]
    BY DEF None
<1> QED
    BY <1>1 DEF Rulings

LEMMA RuledType ==
    ASSUME NEW ruling \in Rulings
    PROVE  Ruled(ruling) \in Rulings /\ DOMAIN Ruled(ruling) \in SUBSET Row
<1>1. DOMAIN ruling \subseteq Row /\ \A r \in DOMAIN ruling : ruling[r] \in Verdict
    BY DEF Rulings
<1>2. Ruled(ruling) \in [DOMAIN ruling \ {Batch} -> Verdict]
    BY <1>1 DEF Ruled
<1>3. DOMAIN ruling \ {Batch} \in SUBSET Row
    BY <1>1
<1> QED
    BY <1>2, <1>3 DEF Rulings

\* What a line's ruling was read as, it stays, or it becomes a contest.
LEMMA PerItemType ==
    ASSUME NEW per \in Rulings, NEW e \in Entry
    PROVE  /\ PerItem(per, e) \in Rulings
           /\ \A r \in DOMAIN per : per[r] = "contest" =>
                 r \in DOMAIN PerItem(per, e) /\ PerItem(per, e)[r] = "contest"
           /\ per[e] = "contest" =>
                 e[1] \in DOMAIN PerItem(per, e) /\ PerItem(per, e)[e[1]] = "contest"
<1>1. CASE per[e] # "contest"
    BY <1>1 DEF PerItem
<1>2. CASE per[e] = "contest"
  <2>1. PerItem(per, e) = [r \in DOMAIN per \cup {e[1]} |-> IF r = e[1] THEN "contest" ELSE per[r]]
    BY <1>2 DEF PerItem
  <2>2. DOMAIN per \subseteq Row /\ \A r \in DOMAIN per : per[r] \in Verdict
    BY DEF Rulings
  <2>3. e[1] \in Row
    BY DEF Entry, Row
  <2>4. PerItem(per, e) \in [DOMAIN per \cup {e[1]} -> Verdict]
    BY <2>1, <2>2 DEF Verdict
  <2>5. DOMAIN per \cup {e[1]} \in SUBSET Row
    BY <2>2, <2>3
  <2>6. PerItem(per, e) \in Rulings
    BY <2>4, <2>5 DEF Rulings
  <2> QED
    BY <2>1, <2>6
<1> QED
    BY <1>1, <1>2

LEMMA IdleType == Idle \in Landings
    BY NoneRuling DEF Idle, At, Landings

LEMMA AnsweredType ==
    ASSUME TypeOK, NEW i \in Ids
    PROVE  /\ Answered(status, i) \in Seq(Standing) /\ Len(Answered(status, i)) = Len(mail)
           /\ Answered(status, i)[i] = "answered"
           /\ \A j \in Ids : j # i => Answered(status, i)[j] = status[j]
    BY DEF TypeOK, Answered, Ids, Standing

-----------------------------------------------------------------------------
(***************************************************************************)
(* The invariant, part by part.                                            *)
(***************************************************************************)
ReadingsOK == readings \in Seq(ReadingRow) /\ \A k \in DOMAIN readings : readings[k].ask \in Ids
ScreensOK  == screen \in [Console -> Screens] /\ \A c \in Console : screen[c].ask \in {0} \cup Ids
HandsOK    ==
    /\ landing \in [Hand -> Landings] /\ cut \subseteq Ids /\ owed \subseteq Ids \X Entry
    /\ Hold /\ Alone /\ Pledges

LEMMA StepKeeps ==
    ASSUME IInv, MailStep, ItemsOK', ReadingsOK', applying' \in BOOLEAN, ScreensOK',
           OfPages', ReadingHasItsPage', HandsOK'
    PROVE  IInv'
<1>1. MailOK' /\ Letters' /\ Closes' /\ OneVerdict'
    BY RowsStay, MailKept DEF IInv
<1>2. TypeOK'
    BY <1>1 DEF TypeOK, MailOK, ItemsOK, ReadingsOK, ScreensOK, HandsOK, Standing
<1> QED
    BY <1>1, <1>2 DEF IInv, HandsOK

LEMMA NothingType == Nothing \in Screens
<1>1. [i \in Item |-> 0] \in [Item -> 0 .. MaxVersion]
    BY SeatAssumption
<1> QED
    BY <1>1 DEF Nothing, Screens

\* A console's screen stays, or goes blank.
LEMMA ScreensKept ==
    ASSUME TypeOK, MailStep,
           screen' = screen \/ \E c \in Console : screen' = [screen EXCEPT ![c] = Nothing]
    PROVE  ScreensOK'
<1>1. Ids \subseteq Ids'
    BY RowsStay
<1>2. \A c \in Console : screen'[c] = screen[c] \/ screen'[c] = Nothing
    BY DEF TypeOK
<1>3. screen' \in [Console -> Screens]
    BY NothingType DEF TypeOK
<1>4. Nothing.ask = 0
    BY DEF Nothing
<1> QED
    BY <1>1, <1>2, <1>3, <1>4 DEF ScreensOK, TypeOK

LEMMA ReadingRowsKept ==
    ASSUME TypeOK, MailStep, readings' = readings
    PROVE  ReadingsOK'
    BY RowsStay DEF ReadingsOK, TypeOK

\* The readings there were are still there, and none of them is open again.
Grows ==
    /\ readings' \in Seq(ReadingRow) /\ Len(readings) <= Len(readings')
    /\ \A k \in DOMAIN readings :
         /\ readings'[k].ask = readings[k].ask /\ readings'[k].reply = readings[k].reply
         /\ readings'[k].status = "open" => readings[k].status = "open"

\* A hand that does not move holds what it held.
LEMMA HandStands ==
    ASSUME IInv, MailStep, Grows, NEW h \in Hand, landing'[h] = landing[h]
    PROVE  Holds(h)'
<1>0. TypeOK /\ Holds(h) /\ readings \in Seq(ReadingRow) /\ mail \in Seq(Messages)
    BY DEF IInv, Hold, TypeOK
<1>1. Ids \subseteq Ids' /\ \A i \in Ids : mail'[i] = mail[i] /\ Verb(i)' = Verb(i)
    BY <1>0, RowsStay
<1>2. PICK l : l = landing[h] /\ l = landing'[h]
    OBVIOUS
<1>3. l \in Landings
    BY <1>0, <1>2 DEF TypeOK
<1>4. ASSUME l.step # "idle"
      PROVE  /\ l.ask \in Ids' /\ Verb(l.ask)' \in {"present", "clarify"}
             /\ status'[l.ask] = "answered"
  <2>1. l.ask \in Ids /\ Verb(l.ask) \in {"present", "clarify"} /\ status[l.ask] = "answered"
    BY <1>0, <1>2, <1>4 DEF Holds
  <2>2. StaysAnswered
    BY DEF MailStep, Keeps, Posts
  <2> QED
    BY <1>1, <2>1, <2>2 DEF StaysAnswered
<1>5. l.step = "read" => Batch \in mail'[l.ask].refs
    BY <1>0, <1>1, <1>2 DEF Holds
<1>6. ASSUME l.step = "rows"
      PROVE  \A i \in Ids' : Verb(i)' = "verdict" => mail'[i].cause # l.ask
  <2>1. \A i \in Ids : Verb(i) = "verdict" => mail[i].cause # l.ask
    BY <1>0, <1>2, <1>6 DEF Holds
  <2>2. CASE Keeps
    BY <2>1, <2>2 DEF Keeps, Ids, Verb
  <2>3. ASSUME NEW m, Posts(m), WellPosted(m)
        PROVE  \A i \in Ids' : Verb(i)' = "verdict" => mail'[i].cause # l.ask
    <3>1. PICK n \in Nat : n = Len(mail) + 1
      BY <1>0
    <3>2. Ids' = Ids \cup {n} /\ mail'[n] = m /\ Verb(n)' = m.verb
      BY <1>0, <2>3, <3>1 DEF Posts, Ids, Verb
    <3>3. m.verb = "verdict" => m.cause # l.ask
      BY <1>2, <1>6, <2>3 DEF WellPosted
    <3> QED
      BY <1>1, <2>1, <3>2, <3>3
  <2> QED
    BY <2>2, <2>3 DEF MailStep
<1>7. ASSUME l.reading # 0
      PROVE  /\ l.reading \in DOMAIN readings' /\ readings'[l.reading].ask = l.ask
             /\ readings'[l.reading].reply # 0
             /\ \A n \in DOMAIN readings' : readings'[n].status = "open" => l.reading <= n
  <2>1. /\ l.reading \in DOMAIN readings /\ readings[l.reading].ask = l.ask
        /\ readings[l.reading].reply # 0
        /\ \A n \in DOMAIN readings : readings[n].status = "open" => l.reading <= n
    BY <1>0, <1>2, <1>7 DEF Holds
  <2>2. /\ DOMAIN readings = 1 .. Len(readings) /\ DOMAIN readings' = 1 .. Len(readings')
        /\ Len(readings) \in Nat /\ Len(readings') \in Nat
    BY <1>0 DEF Grows
  <2> QED
    BY <2>1, <2>2 DEF Grows
<1>8. l.step = "idle" => l = Idle
    BY <1>0, <1>2 DEF Holds
<1> QED
    BY <1>2, <1>4, <1>5, <1>6, <1>7, <1>8 DEF Holds

LEMMA HandsKept ==
    ASSUME IInv, MailStep, Grows, HandsIdle
    PROVE  HandsOK' /\ HandsStay
<1>0. TypeOK /\ Alone /\ Pledges
    BY DEF IInv
<1>1. landing' = landing /\ cut' = cut /\ owed' \subseteq owed
    BY DEF HandsIdle
<1>2. Hold'
    BY <1>1, HandStands DEF Hold
<1>3. Alone'
    BY <1>0, <1>1 DEF Alone
<1>4. Pledges'
    BY <1>0, <1>1 DEF Pledges, Owes
<1>5. Ids \subseteq Ids'
    BY <1>0, RowsStay
<1>6. landing' \in [Hand -> Landings] /\ cut' \subseteq Ids' /\ owed' \subseteq Ids' \X Entry
    BY <1>0, <1>1, <1>5 DEF TypeOK
<1>7. HandsStay
    BY <1>1 DEF HandsStay, Busy
<1> QED
    BY <1>2, <1>3, <1>4, <1>6, <1>7 DEF HandsOK

\* One hand moves: what it lands it was landing already, or the page was open.
LEMMA HandMoves ==
    ASSUME IInv, MailStep, Grows, NEW h \in Hand, NEW l \in Landings,
           landing' = [landing EXCEPT ![h] = l], Holds(h)',
           l.step = "rows" => \/ landing[h].step = "rows" /\ l.ask = landing[h].ask
                              \/ l.ask \in Open,
           cut' \subseteq Ids', owed' \subseteq Ids' \X Entry, Pledges'
    PROVE  HandsOK'
<1>0. TypeOK /\ Alone /\ Hold
    BY DEF IInv
<1>1. landing' \in [Hand -> Landings] /\ landing'[h] = l
    BY <1>0 DEF TypeOK
<1>2. \A g \in Hand : g # h => landing'[g] = landing[g]
    BY <1>0 DEF TypeOK
<1>3. Hold'
  <2>1. \A g \in Hand : g # h => Holds(g)'
    BY <1>2, HandStands
  <2> QED
    BY <2>1 DEF Hold
<1>4. Alone'
  <2>1. \A g \in Hand : g # h /\ landing[g].step = "rows" /\ l.step = "rows" => landing[g].ask # l.ask
    <3> SUFFICES ASSUME NEW g \in Hand, g # h, landing[g].step = "rows", l.step = "rows",
                        landing[g].ask = l.ask
                 PROVE  FALSE
      OBVIOUS
    <3>1. status[landing[g].ask] = "answered"
      BY <1>0 DEF Hold, Holds
    <3>2. CASE landing[h].step = "rows" /\ l.ask = landing[h].ask
      BY <1>0, <3>2 DEF Alone
    <3>3. CASE l.ask \in Open
      BY <3>1, <3>3 DEF Open
    <3> QED
      BY <3>2, <3>3
  <2> SUFFICES ASSUME NEW f \in Hand, NEW g \in Hand, landing'[f].step = "rows",
                      landing'[g].step = "rows", landing'[f].ask = landing'[g].ask
               PROVE  f = g
    BY DEF Alone
  <2>2. CASE f # h /\ g # h
    BY <1>0, <1>2, <2>2 DEF Alone
  <2>3. CASE f = h \/ g = h
    BY <1>1, <1>2, <2>1, <2>3
  <2> QED
    BY <2>2, <2>3
<1> QED
    BY <1>1, <1>3, <1>4 DEF HandsOK

LEMMA SameReadings ==
    ASSUME TypeOK, readings' = readings
    PROVE  Grows
    BY DEF TypeOK, Grows

\* No page closes, so none that a reading rules on.
LEMMA AllStand ==
    ASSUME TypeOK, NoPageCloses
    PROVE  PagesStand
    BY DEF NoPageCloses, PagesStand

\* The step of a role or a console that leaves the readings and closes no page.
LEMMA PlainStep ==
    ASSUME IInv, MailStep, NoPageCloses, ItemsOK', UNCHANGED <<readings, applying>>, HandsIdle,
           screen' = screen \/ \E c \in Console : screen' = [screen EXCEPT ![c] = Nothing]
    PROVE  IInv'
<1>1. TypeOK
    BY DEF IInv
<1>2. HandsOK' /\ HandsStay
    BY <1>1, SameReadings, HandsKept
<1>3. OfPages' /\ ReadingHasItsPage'
    BY <1>1, <1>2, AllStand, ReadingsKept
<1>4. ReadingsOK' /\ ScreensOK'
    BY <1>1, ReadingRowsKept, ScreensKept
<1>5. applying' \in BOOLEAN
    BY <1>1 DEF TypeOK
<1> QED
    BY <1>2, <1>3, <1>4, <1>5, StepKeeps

LEMMA ItemsKept ==
    ASSUME TypeOK, UNCHANGED <<items, ledger>>
    PROVE  ItemsOK'
    BY DEF TypeOK, ItemsOK, items

-----------------------------------------------------------------------------
(***************************************************************************)
(* Sessions: what they send, and the message they answer.                  *)
(***************************************************************************)

\* Nothing woke the session, or a message to a role did.
Woken(i) == i = 0 \/ (i \in Ids /\ mail[i].to # "principal")

LEMMA EndsType ==
    ASSUME IInv, NEW i, Woken(i)
    PROVE  /\ Ends(i) \in Seq(Standing) /\ Len(Ends(i)) = Len(mail)
           /\ \A j \in Ids : status[j] = "answered" => Ends(i)[j] = "answered"
           /\ \A j \in Ids : Ends(i)[j] = status[j] \/ Verb(j) # "present"
<1>0. TypeOK /\ Letters
    BY DEF IInv
<1>1. CASE i = 0
    BY <1>0, <1>1 DEF Ends, TypeOK, Standing
<1>2. CASE i # 0
  <2>1. i \in Ids /\ Verb(i) # "present"
    BY <1>0, <1>2 DEF Woken, Letters, Addressed
  <2>2. Ends(i) = Answered(status, i)
    BY <1>2 DEF Ends
  <2> QED
    BY <1>0, <2>1, <2>2, AnsweredType
<1> QED
    BY <1>1, <1>2

LEMMA SendsNothing ==
    ASSUME IInv, NEW i, Woken(i), Sends(<<>>, i)
    PROVE  MailStep /\ NoPageCloses
<1>1. mail \in Seq(Messages)
    BY DEF IInv, TypeOK
<1>2. mail' = mail
    BY <1>1 DEF Sends
<1>3. [k \in DOMAIN <<>> |-> "open"] = <<>>
    OBVIOUS
<1>4. status' = Ends(i)
    BY <1>3, EndsType DEF Sends
<1>5. Keeps
    BY <1>2, <1>4, EndsType DEF Keeps, StaysAnswered
<1> QED
    BY <1>4, <1>5, EndsType DEF MailStep, NoPageCloses

\* What a session may say: anything but a verdict.
Sayable(m) ==
    /\ m \in Messages /\ m.verb # "verdict"
    /\ m.verb = "present" => m.to = "principal"
    /\ m.verb = "submit" => m.to # "principal"
    /\ m.verb = "converse" => m.to = "principal"

LEMMA SendsOne ==
    ASSUME IInv, NEW i, Woken(i), NEW m, Sayable(m), Sends(<<m>>, i)
    PROVE  MailStep /\ NoPageCloses
<1>1. mail \in Seq(Messages) /\ m \in Messages /\ MaxMail \in Nat
    BY SeatAssumption DEF IInv, TypeOK, Sayable
<1>2. mail' = Append(mail, m) /\ Len(mail) < MaxMail
    BY <1>1 DEF Sends
<1>3. [k \in DOMAIN <<m>> |-> "open"] = <<"open">>
    OBVIOUS
<1>4. status' = Append(Ends(i), "open")
    BY <1>3, EndsType DEF Sends
<1>5. /\ status' \in Seq(Standing) /\ Len(status') = Len(mail) + 1
      /\ \A j \in Ids : status'[j] = Ends(i)[j]
    BY <1>1, <1>4, EndsType DEF Standing, Ids
<1>6. Posts(m)
    BY <1>1, <1>2, <1>5, EndsType DEF Posts, StaysAnswered
<1>7. WellPosted(m)
    BY DEF Sayable, WellPosted
<1> QED
    BY <1>5, <1>6, <1>7, EndsType DEF MailStep, NoPageCloses

LEMMA QuietStep ==
    ASSUME IInv, NEW i, Woken(i), Quiet(i)
    PROVE  IInv'
    BY SendsNothing, ItemsKept, PlainStep DEF Quiet, IInv, seat, HandsIdle

LEMMA SpeaksStep ==
    ASSUME IInv, NEW i, Woken(i), NEW m, Sayable(m), Speaks(m, i)
    PROVE  IInv'
    BY SendsOne, ItemsKept, PlainStep DEF Speaks, IInv, seat, HandsIdle

\* What wakes a session is a message to a role, of rows of the tables.
LEMMA TipWakes ==
    ASSUME IInv, NEW i \in Tips
    PROVE  Woken(i) /\ i \in Ids /\ i \in Nat /\ mail[i].refs \in SUBSET Row
<1>1. i \in Ids /\ mail[i].to # "principal"
    BY DEF Tips, Open
<1>2. mail[i] \in Messages
    BY <1>1 DEF IInv, TypeOK, Ids
<1> QED
    BY <1>1, <1>2 DEF Woken, Messages, Ids

LEMMA SayableForms ==
    ASSUME NEW i \in Nat, NEW refs \in SUBSET Row
    PROVE  /\ \A verb \in {"present", "converse", "clarify"} : Sayable(ToPrincipal(verb, refs, i))
           /\ Sayable(ToOwner(refs, i))
           /\ Sayable(Message("vision_keeper", "submit", "liaison", i, refs))
           /\ Sayable(Message("vision_keeper", "report", "liaison", i, refs))
    BY DEF Sayable, ToPrincipal, ToOwner, Message, Messages

LEMMA WakeRefs ==
    ASSUME TypeOK, NEW w \in Wakes
    PROVE  w.refs \in SUBSET Row
    BY DEF Wakes, ContestedWakes, SignoffWakes, AgendaWakes, NoteWakes, Wake, Items, Firsts,
           Entries, Row

-----------------------------------------------------------------------------
(***************************************************************************)
(* The sessions of the Liaison.                                            *)
(***************************************************************************)

LEMMA PresentsKeeps ==
    ASSUME IInv, NEW i \in Tips, Presents(i)
    PROVE  IInv'
<1>1. CASE Quiet(i)
    BY <1>1, TipWakes, QuietStep
<1>2. CASE \E page \in WithAssumptions(mail[i].refs) : Speaks(ToPrincipal("present", page, i), i)
  <2>1. PICK page \in WithAssumptions(mail[i].refs) : Speaks(ToPrincipal("present", page, i), i)
    BY <1>2
  <2>2. page \in SUBSET Row
    BY TipWakes DEF WithAssumptions, Firsts, Entries, Row
  <2>3. Sayable(ToPrincipal("present", page, i))
    BY <2>2, TipWakes, SayableForms
  <2> QED
    BY <2>1, <2>3, TipWakes, SpeaksStep
<1> QED
    BY <1>1, <1>2 DEF Presents

LEMMA PresentsWakeKeeps ==
    ASSUME IInv, NEW w \in Wakes, PresentsWake(w)
    PROVE  IInv'
<1>1. Speaks(ToPrincipal("present", w.refs, 0), 0) /\ Woken(0)
    BY DEF PresentsWake, Woken
<1>2. Sayable(ToPrincipal("present", w.refs, 0))
    BY WakeRefs, SayableForms DEF IInv
<1> QED
    BY <1>1, <1>2, SpeaksStep

LEMMA AsksBackKeeps ==
    ASSUME IInv, NEW i \in Tips, AsksBack(i)
    PROVE  IInv'
<1>1. Speaks(ToPrincipal("converse", mail[i].refs, i), i)
    BY DEF AsksBack
<1>2. Sayable(ToPrincipal("converse", mail[i].refs, i))
    BY TipWakes, SayableForms
<1> QED
    BY <1>1, <1>2, TipWakes, SpeaksStep

LEMMA RelaysKeeps ==
    ASSUME IInv, NEW i \in Tips, Relays(i)
    PROVE  IInv'
<1>1. Speaks(ToOwner(mail[i].refs, i), i)
    BY DEF Relays
<1>2. Sayable(ToOwner(mail[i].refs, i))
    BY TipWakes, SayableForms
<1> QED
    BY <1>1, <1>2, TipWakes, SpeaksStep

LEMMA ClarifyKeeps ==
    ASSUME IInv, NEW i \in Tips, Clarify(i)
    PROVE  IInv'
<1>1. Speaks(ToPrincipal("clarify", mail[i].refs, i), i)
    BY DEF Clarify
<1>2. Sayable(ToPrincipal("clarify", mail[i].refs, i))
    BY TipWakes, SayableForms
<1> QED
    BY <1>1, <1>2, TipWakes, SpeaksStep

\* Words to the Liaison are about a page or a question the principal had.
LEMMA WordsAnswer ==
    ASSUME IInv, NEW i \in Tips, Verb(i) = "converse"
    PROVE  mail[i].cause \in Ids /\ Verb(mail[i].cause) \in {"present", "clarify"}
<1>1. i \in Ids /\ mail[i].to # "principal"
    BY DEF Tips, Open
<1> QED
    BY <1>1 DEF IInv, Letters, Addressed

LEMMA ReadingType ==
    ASSUME IInv, NEW i \in Tips, Verb(i) = "converse",
           NEW rows \in SUBSET Row, NEW ruling \in [rows -> Verdict]
    PROVE  /\ Reading(i, ruling) \in ReadingRow
           /\ Reading(i, ruling).ask = mail[i].cause
           /\ Reading(i, ruling).reply = i /\ i # 0
           /\ Reading(i, ruling).status = "open"
<1>1. ruling \in Rulings
    BY DEF Rulings
<1>2. mail[i].cause \in Nat /\ i \in Nat /\ i # 0
    BY WordsAnswer, TipWakes DEF Ids
<1> QED
    BY <1>1, <1>2 DEF Reading, ReadingRow

LEMMA AddedGrows ==
    ASSUME TypeOK, NEW r \in ReadingRow, readings' = Append(readings, r)
    PROVE  Grows
    BY DEF TypeOK, Grows

\* A reading is added of a page still open, or of a question.
LEMMA ReadingAdded ==
    ASSUME IInv, MailStep, PagesStand, HandsStay,
           NEW r \in ReadingRow, readings' = Append(readings, r), r.ask \in Ids,
           Verb(r.ask) \in {"present", "clarify"}, r.status = "open" => r.reply # 0,
           r.status = "open" => Verb(r.ask) = "clarify" \/ status'[r.ask] = "open"
    PROVE  ReadingsOK' /\ OfPages' /\ ReadingHasItsPage'
<1>0. /\ TypeOK /\ OfPages /\ ReadingHasItsPage
      /\ readings \in Seq(ReadingRow) /\ \A k \in DOMAIN readings : readings[k].ask \in Ids
    BY DEF IInv, TypeOK
<1>1. /\ Ids \subseteq Ids'
      /\ \A i \in Ids : mail'[i] = mail[i] /\ Verb(i)' = Verb(i)
    BY <1>0, RowsStay
<1>2. PICK n \in Nat : n = Len(readings) + 1
    BY <1>0
<1>3. /\ readings' \in Seq(ReadingRow) /\ DOMAIN readings' = DOMAIN readings \cup {n}
      /\ n \notin DOMAIN readings /\ readings'[n] = r /\ DOMAIN readings = 1 .. n - 1
      /\ \A k \in DOMAIN readings : readings'[k] = readings[k]
    BY <1>0, <1>2
<1>4. ReadingsOK'
    BY <1>0, <1>1, <1>3 DEF ReadingsOK
<1>5. OfPages'
  <2> SUFFICES ASSUME NEW k \in DOMAIN readings'
               PROVE  ReadsAPage(k)'
    BY DEF OfPages
  <2>1. CASE k = n
    BY <1>1, <1>3, <2>1 DEF ReadsAPage
  <2>2. CASE k \in DOMAIN readings
    <3>1. ReadsAPage(k) /\ readings[k].ask \in Ids /\ readings'[k] = readings[k]
      BY <1>0, <1>3, <2>2 DEF OfPages
    <3> QED
      BY <1>1, <3>1 DEF ReadsAPage
  <2> QED
    BY <1>3, <2>1, <2>2
<1>6. ReadingHasItsPage'
  <2> SUFFICES ASSUME NEW k \in DOMAIN readings', readings'[k].status = "open"
               PROVE  HasItsPage(k)'
    BY DEF ReadingHasItsPage, HasItsPage, Unlanded, Busy
  <2>1. PICK a \in Ids : a = readings'[k].ask
    BY <1>0, <1>3
  <2>2. Verb(a) \in {"present", "clarify"}
    BY <1>0, <1>3, <2>1 DEF OfPages, ReadsAPage
  <2>3. CASE a \in Open
    <3>1. status'[a] = "open" \/ Verb(a) = "clarify" \/ Batch \in mail[a].refs
          \/ Busy(a)'
      <4>1. CASE k = n
        BY <1>3, <2>1, <4>1
      <4>2. CASE k \in DOMAIN readings
        <5>1. k \in Unlanded /\ readings[k].ask = a
          BY <1>3, <2>1, <4>2 DEF Unlanded
        <5> QED
          BY <2>2, <2>3, <5>1 DEF PagesStand, Awaited, Open
      <4> QED
        BY <1>3, <4>1, <4>2
    <3>2. CASE status'[a] = "open"
      BY <1>1, <2>1, <3>2 DEF Open, HasItsPage
    <3>3. CASE Verb(a) = "clarify"
      BY <1>1, <2>1, <3>3 DEF HasItsPage, Verb
    <3>4. CASE Batch \in mail[a].refs
      BY <1>1, <2>1, <3>4 DEF HasItsPage
    <3>5. CASE Busy(a)'
      BY <2>1, <3>5 DEF HasItsPage
    <3> QED
      BY <3>1, <3>2, <3>3, <3>4, <3>5
  <2>4. CASE Verb(a) = "clarify"
    BY <1>1, <2>1, <2>4 DEF HasItsPage, Verb
  <2>5. CASE a \notin Open /\ Verb(a) # "clarify" /\ status'[a] # "open"
    <3>1. k \in DOMAIN readings /\ readings'[k] = readings[k]
      <4>1. k # n
        BY <1>3, <2>1, <2>5
      <4> QED
        BY <1>3, <4>1
    <3>2. k \in Unlanded
      BY <3>1 DEF Unlanded
    <3>3. \/ Batch \in mail[a].refs \/ Busy(a)
          \/ \E l \in 1 .. k - 1 : /\ readings[l].ask = a /\ readings[l].reply # 0
                                   /\ readings[l].status = "landed"
      BY <1>0, <2>1, <2>5, <3>1, <3>2 DEF ReadingHasItsPage, Busy
    <3>4. \A l \in 1 .. k - 1 : readings'[l] = readings[l]
      BY <1>3, <3>1
    <3>5. CASE Busy(a)
      <4>1. readings[k].ask = a
        BY <2>1, <3>1
      <4>2. Busy(a)'
        BY <3>2, <3>5, <4>1 DEF HandsStay, Awaited
      <4> QED
        BY <2>1, <4>2 DEF HasItsPage
    <3> QED
      BY <1>1, <2>1, <3>3, <3>4, <3>5 DEF HasItsPage
  <2>6. CASE status'[a] = "open"
    BY <1>1, <2>1, <2>6 DEF Open, HasItsPage
  <2> QED
    BY <2>3, <2>4, <2>5, <2>6
<1> QED
    BY <1>4, <1>5, <1>6

LEMMA ReadsKeeps ==
    ASSUME IInv, NEW i \in Tips, Reads(i)
    PROVE  IInv'
<1>0. TypeOK
    BY DEF IInv
<1>1. PICK ruling \in [Lines(i) -> Verdict] :
         /\ Verb(i) = "converse" /\ AskOf(i) # 0 /\ Verb(AskOf(i)) = "present"
         /\ readings' = Append(readings, Reading(i, ruling))
         /\ status' = Ends(i) /\ applying' = TRUE
         /\ UNCHANGED <<items, ledger, mail, seat>>
    BY DEF Reads
<1>2. Lines(i) \in SUBSET Row
    BY TipWakes DEF Lines
<1>3. Reading(i, ruling) \in ReadingRow /\ Reading(i, ruling).ask = mail[i].cause
      /\ Reading(i, ruling).reply # 0
    BY <1>1, <1>2, ReadingType
<1>4. mail[i].cause \in Ids /\ Verb(mail[i].cause) \in {"present", "clarify"}
    BY <1>1, WordsAnswer
<1>5. Verb(mail[i].cause) = "clarify" \/ status'[mail[i].cause] = "open"
    BY <1>1, <1>4, TipWakes, EndsType DEF AskOf, Open
<1>6. Keeps /\ NoPageCloses
    BY <1>1, TipWakes, EndsType DEF Keeps, NoPageCloses, StaysAnswered
<1>7. HandsOK' /\ HandsStay
    BY <1>0, <1>1, <1>3, <1>6, AddedGrows, HandsKept DEF MailStep, HandsIdle, seat
<1>8. ReadingsOK' /\ OfPages' /\ ReadingHasItsPage'
    BY <1>0, <1>1, <1>3, <1>4, <1>5, <1>6, <1>7, AllStand, ReadingAdded DEF MailStep
<1>9. ItemsOK' /\ ScreensOK'
    BY <1>0, <1>1, <1>6, ItemsKept, ScreensKept DEF MailStep, seat
<1> QED
    BY <1>1, <1>6, <1>7, <1>8, <1>9, StepKeeps DEF MailStep

LEMMA AnswersKeeps ==
    ASSUME IInv, NEW i \in Tips, Answers(i)
    PROVE  IInv'
<1>0. TypeOK
    BY DEF IInv
<1>a. PICK settled \in SUBSET Lines(i) :
      \E ruling \in [settled -> Verdict] : \E relayed \in BOOLEAN :
         /\ Verb(i) = "converse" /\ Verb(mail[i].cause) = "clarify"
         /\ ledger' = [e \in Entry |-> IF e \in ((Lines(i) \ settled) \cap Item) \X {"unaddressed_answer"}
                                       THEN "open" ELSE ledger[e]]
         /\ readings' = IF settled = {} THEN readings ELSE Append(readings, Reading(i, ruling))
         /\ applying' = (settled # {})
         /\ Sends(IF relayed THEN <<ToOwner(mail[i].refs, i)>> ELSE <<>>, i)
         /\ UNCHANGED <<items, seat>>
    BY DEF Answers
<1>1. PICK ruling \in [settled -> Verdict], relayed \in BOOLEAN :
         /\ Verb(i) = "converse" /\ Verb(mail[i].cause) = "clarify"
         /\ ledger' = [e \in Entry |-> IF e \in ((Lines(i) \ settled) \cap Item) \X {"unaddressed_answer"}
                                       THEN "open" ELSE ledger[e]]
         /\ readings' = IF settled = {} THEN readings ELSE Append(readings, Reading(i, ruling))
         /\ applying' = (settled # {})
         /\ Sends(IF relayed THEN <<ToOwner(mail[i].refs, i)>> ELSE <<>>, i)
         /\ UNCHANGED <<items, seat>>
    BY <1>a
<1>2. MailStep /\ NoPageCloses
  <2>1. CASE relayed
    <3>1. Sends(<<ToOwner(mail[i].refs, i)>>, i)
      BY <1>1, <2>1
    <3>2. Sayable(ToOwner(mail[i].refs, i))
      BY TipWakes, SayableForms
    <3> QED
      BY <3>1, <3>2, TipWakes, SendsOne
  <2>2. CASE ~relayed
    BY <1>1, <2>2, TipWakes, SendsNothing
  <2> QED
    BY <2>1, <2>2
<1>3. ItemsOK' /\ ScreensOK' /\ applying' \in BOOLEAN
  <2>1. ledger' \in [Entry -> {"none", "open", "resolved"}]
    BY <1>0, <1>1 DEF TypeOK
  <2>2. ItemsOK'
    BY <1>0, <1>1, <2>1 DEF TypeOK, ItemsOK, items
  <2> QED
    BY <1>0, <1>1, <1>2, <2>2, ScreensKept DEF seat
<1>4. HandsOK' /\ HandsStay
  <2>1. Grows
    <3>1. CASE settled = {}
      BY <1>0, <1>1, <3>1, SameReadings
    <3>2. CASE settled # {}
      <4>1. settled \in SUBSET Row
        BY TipWakes DEF Lines
      <4>2. Reading(i, ruling) \in ReadingRow
        BY <1>1, <4>1, ReadingType
      <4>3. readings' = Append(readings, Reading(i, ruling))
        BY <1>1, <3>2
      <4> QED
        BY <1>0, <4>2, <4>3, AddedGrows
    <3> QED
      BY <3>1, <3>2
  <2> QED
    BY <1>1, <1>2, <2>1, HandsKept DEF HandsIdle, seat
<1>5. ReadingsOK' /\ OfPages' /\ ReadingHasItsPage'
  <2>1. CASE settled = {}
    BY <1>0, <1>1, <1>2, <1>4, <2>1, AllStand, ReadingsKept, ReadingRowsKept
  <2>2. CASE settled # {}
    <3>1. settled \in SUBSET Row
      BY TipWakes DEF Lines
    <3>2. Reading(i, ruling) \in ReadingRow /\ Reading(i, ruling).ask = mail[i].cause
          /\ Reading(i, ruling).reply # 0
      BY <1>1, <3>1, ReadingType
    <3>3. mail[i].cause \in Ids
      BY <1>1, WordsAnswer
    <3>4. readings' = Append(readings, Reading(i, ruling))
      BY <1>1, <2>2
    <3> QED
      BY <1>0, <1>1, <1>2, <1>4, <3>2, <3>3, <3>4, AllStand, ReadingAdded
  <2> QED
    BY <2>1, <2>2
<1> QED
    BY <1>2, <1>3, <1>4, <1>5, StepKeeps

-----------------------------------------------------------------------------
(***************************************************************************)
(* The sessions of the Vision Keeper.                                      *)
(***************************************************************************)

LEMMA NoMail ==
    ASSUME TypeOK, UNCHANGED <<mail, status>>
    PROVE  MailStep /\ NoPageCloses
    BY DEF TypeOK, MailStep, Keeps, NoPageCloses, StaysAnswered, Standing

LEMMA AssertedType ==
    ASSUME TypeOK, NEW i \in Item, Asserted(i)
    PROVE  /\ version' \in [Item -> 0 .. MaxVersion]
           /\ approval' \in [Item -> {"draft", "approved", "contested"}]
           /\ approvedAt' \in [Item -> 0 .. MaxVersion]
           /\ \A j \in Item : approvedAt'[j] <= version'[j]
<1>1. /\ version[i] < MaxVersion /\ version' = [version EXCEPT ![i] = @ + 1]
      /\ approval' = [approval EXCEPT ![i] = "draft"] /\ approvedAt' = approvedAt
    BY DEF Asserted
<1>2. MaxVersion \in Nat
    BY SeatAssumption
<1>3. version' \in [Item -> 0 .. MaxVersion]
    BY <1>1, <1>2 DEF TypeOK
<1>4. \A j \in Item : approvedAt[j] <= version'[j]
  <2> SUFFICES ASSUME NEW j \in Item
               PROVE  approvedAt[j] <= version'[j]
    OBVIOUS
  <2>1. approvedAt[j] \in Nat /\ version[j] \in Nat /\ approvedAt[j] <= version[j]
    BY <1>2 DEF TypeOK
  <2> QED
    BY <1>1, <2>1 DEF TypeOK
<1> QED
    BY <1>1, <1>3, <1>4 DEF TypeOK

LEMMA DeliveredKeeps ==
    ASSUME IInv, NEW i \in Item, Delivered(i)
    PROVE  IInv'
<1>0. TypeOK
    BY DEF IInv
<1>1. PICK logged \in BOOLEAN :
         /\ Asserted(i)
         /\ ledger' = IF logged THEN [ledger EXCEPT ![<<i, "default">>] = "open"] ELSE ledger
         /\ UNCHANGED <<mail, status, readings, applying, seat>>
    BY DEF Delivered
<1>2. ledger' \in [Entry -> {"none", "open", "resolved"}]
    BY <1>0, <1>1 DEF TypeOK
<1>3. ItemsOK'
    BY <1>0, <1>1, <1>2, AssertedType DEF ItemsOK
<1> QED
    BY <1>0, <1>1, <1>3, NoMail, PlainStep DEF HandsIdle, seat

LEMMA SubmitsKeeps ==
    ASSUME IInv, NEW w \in Wakes, Submits(w)
    PROVE  IInv'
<1>1. PICK refs \in SUBSET {i \in Item : version[i] > 0} \ {{}} :
         Speaks(Message("vision_keeper", "submit", "liaison", 0, refs), 0)
    BY DEF Submits
<1>2. Sayable(Message("vision_keeper", "submit", "liaison", 0, refs)) /\ Woken(0)
    BY SayableForms DEF Row, Woken
<1> QED
    BY <1>1, <1>2, SpeaksStep

LEMMA AmendsKeeps ==
    ASSUME IInv, NEW w \in Wakes, Amends(w)
    PROVE  IInv'
<1>0. TypeOK
    BY DEF IInv
<1>1. PICK i \in w.refs : Asserted(i)
    BY DEF Amends
<1>2. i \in Item
    BY DEF Amends, Wakes, ContestedWakes, SignoffWakes, AgendaWakes, NoteWakes, Wake, Items
<1>3. UNCHANGED <<ledger, mail, status, readings, applying, seat>>
    BY DEF Amends
<1>4. ItemsOK'
    BY <1>0, <1>1, <1>2, <1>3, AssertedType DEF ItemsOK, TypeOK
<1> QED
    BY <1>0, <1>3, <1>4, NoMail, PlainStep DEF HandsIdle, seat

LEMMA DefendsKeeps ==
    ASSUME IInv, NEW w \in Wakes, Defends(w)
    PROVE  IInv'
<1>0. TypeOK /\ Woken(0)
    BY DEF IInv, Woken
<1>1. PICK resolved \in SUBSET Entries("open") :
         /\ ledger' = [e \in Entry |-> IF e \in resolved THEN "resolved" ELSE ledger[e]]
         /\ Sends(<<Message("vision_keeper", "report", "liaison", 0, w.refs)>>, 0)
         /\ UNCHANGED <<items, readings, applying, seat>>
    BY DEF Defends
<1>2. Sayable(Message("vision_keeper", "report", "liaison", 0, w.refs))
    BY <1>0, WakeRefs, SayableForms
<1>3. MailStep /\ NoPageCloses
    BY <1>0, <1>1, <1>2, SendsOne
<1>4. ledger' \in [Entry -> {"none", "open", "resolved"}]
    BY <1>0, <1>1 DEF TypeOK
<1>5. ItemsOK'
    BY <1>0, <1>1, <1>4 DEF ItemsOK, TypeOK, items
<1> QED
    BY <1>1, <1>3, <1>5, PlainStep DEF HandsIdle, seat

LEMMA AppliesKeeps ==
    ASSUME IInv, NEW i \in Tips, Applies(i)
    PROVE  IInv'
<1>0. TypeOK
    BY DEF IInv
<1>1. PICK which \in SUBSET {x \in Item : version[x] > 0}, state \in {"approved", "contested"} :
         /\ approval' = [x \in Item |-> IF x \in which THEN state ELSE approval[x]]
         /\ approvedAt' = [x \in Item |-> IF x \in which THEN version[x] ELSE approvedAt[x]]
         /\ status' = Ends(i) /\ owed' = StillOwed(approval')
         /\ UNCHANGED <<version, ledger, mail, readings, applying, landing, cut, screen>>
    BY DEF Applies
<1>2. MailStep /\ NoPageCloses
    BY <1>1, TipWakes, EndsType DEF MailStep, Keeps, NoPageCloses, StaysAnswered
<1>3. \A x \in Item : version[x] \in 0 .. MaxVersion /\ approvedAt[x] \in 0 .. MaxVersion
                     /\ approvedAt[x] <= version[x] /\ version[x] <= version[x]
    BY <1>0, SeatAssumption DEF TypeOK
<1>4. /\ approvedAt' \in [Item -> 0 .. MaxVersion]
      /\ \A x \in Item : approvedAt'[x] <= version[x]
    BY <1>1, <1>3
<1>5. approval' \in [Item -> {"draft", "approved", "contested"}]
    BY <1>0, <1>1 DEF TypeOK
<1>6. ItemsOK'
    BY <1>0, <1>1, <1>4, <1>5 DEF ItemsOK, TypeOK
<1> QED
    BY <1>1, <1>2, <1>6, PlainStep DEF HandsIdle, StillOwed

-----------------------------------------------------------------------------
(***************************************************************************)
(* Landing what was read, and the consoles.                                *)
(***************************************************************************)

LEMMA ShowRepliesKeeps ==
    ASSUME IInv, ShowReplies
    PROVE  IInv'
<1>0. TypeOK
    BY DEF IInv
<1>1. /\ status' = [i \in Ids |-> IF i \in Replies THEN "answered" ELSE status[i]]
      /\ UNCHANGED <<items, ledger, mail, readings, applying, seat>>
    BY DEF ShowReplies
<1>2. status \in Seq(Standing) /\ Len(status) = Len(mail) /\ Len(mail) \in Nat
    BY <1>0 DEF TypeOK, Standing
<1>3. status' \in Seq(Standing) /\ Len(status') = Len(mail)
    BY <1>1, <1>2 DEF Ids, Standing
<1>4. \A i \in Replies : Verb(i) = "converse"
    BY DEF Replies, Pages
<1>5. Keeps /\ NoPageCloses
    BY <1>1, <1>3, <1>4 DEF Keeps, NoPageCloses, StaysAnswered
<1> QED
    BY <1>0, <1>1, <1>5, ItemsKept, PlainStep DEF MailStep, HandsIdle, seat

LEMMA ShowKeeps ==
    ASSUME IInv, NEW c \in Console, Show(c)
    PROVE  IInv'
<1>0. TypeOK
    BY DEF IInv
<1>1. PICK i \in Pages :
         /\ screen' = [screen EXCEPT ![c] = [ask |-> i, seen |-> version]]
         /\ UNCHANGED <<items, ledger, mail, status, readings, applying, landing, cut, owed>>
    BY DEF Show
<1>2. MailStep /\ NoPageCloses
    BY <1>0, <1>1, NoMail
<1>3. i \in Ids /\ i \in Nat
    BY DEF Pages, Waiting, Open, Ids
<1>4. [ask |-> i, seen |-> version] \in Screens
    BY <1>0, <1>3 DEF Screens, TypeOK
<1>5. ScreensOK'
  <2>1. Ids' = Ids
    BY <1>1 DEF Ids
  <2>2. screen' \in [Console -> Screens]
    BY <1>0, <1>1, <1>4 DEF TypeOK
  <2>3. \A d \in Console : screen'[d].ask = screen[d].ask \/ screen'[d].ask = i
    BY <1>0, <1>1 DEF TypeOK
  <2> QED
    BY <1>0, <1>3, <2>1, <2>2, <2>3 DEF ScreensOK, TypeOK
<1>a. HandsOK' /\ HandsStay
    BY <1>0, <1>1, <1>2, SameReadings, HandsKept DEF HandsIdle
<1>6. OfPages' /\ ReadingHasItsPage' /\ ReadingsOK' /\ ItemsOK'
    BY <1>0, <1>1, <1>2, <1>a, AllStand, ReadingsKept, ReadingRowsKept, ItemsKept
<1>7. applying' \in BOOLEAN
    BY <1>0, <1>1 DEF TypeOK
<1> QED
    BY <1>2, <1>5, <1>6, <1>7, <1>a, StepKeeps

\* The principal's words, sent on a page or a question.
LEMMA WordsPost ==
    ASSUME IInv, NEW i \in Ids, Verb(i) \in {"present", "clarify"}, Len(mail) < MaxMail,
           NEW s \in Seq(Standing), Len(s) = Len(mail),
           \A j \in Ids : status[j] = "answered" => s[j] = "answered",
           mail' = Append(mail, Message("principal", "converse", "liaison", i, mail[i].refs)),
           status' = Append(s, "open")
    PROVE  MailStep /\ \A j \in Ids : status'[j] = s[j]
<1> DEFINE m == Message("principal", "converse", "liaison", i, mail[i].refs)
<1>0. mail \in Seq(Messages) /\ mail[i] \in Messages /\ i \in Nat
    BY DEF IInv, TypeOK, Ids
<1>1. m \in Messages /\ m.verb = "converse" /\ m.cause = i
    BY <1>0 DEF Message, Messages
<1> HIDE DEF m
<1>2. /\ status' \in Seq(Standing) /\ Len(status') = Len(mail) + 1
      /\ \A j \in Ids : status'[j] = s[j]
    BY <1>0 DEF Standing, Ids
<1>3. Posts(m)
    BY <1>1, <1>2 DEF Posts, StaysAnswered, m
<1>4. WellPosted(m)
    BY <1>1 DEF WellPosted
<1> QED
    BY <1>2, <1>3, <1>4 DEF MailStep

LEMMA SayKeeps ==
    ASSUME IInv, NEW c \in Console, Say(c)
    PROVE  IInv'
<1>0. TypeOK
    BY DEF IInv
<1>1. PICK i : i = screen[c].ask
    OBVIOUS
<1>2. /\ i \in Open /\ Verb(i) = "present" /\ Len(mail) < MaxMail
      /\ mail' = Append(mail, Message("principal", "converse", "liaison", i, mail[i].refs))
      /\ status' = Append(status, "open")
      /\ screen' = Off(c)
      /\ UNCHANGED <<items, ledger, readings, applying, landing, cut, owed>>
    BY <1>1 DEF Say
<1>3. i \in Ids /\ status \in Seq(Standing) /\ Len(status) = Len(mail)
    BY <1>0, <1>2 DEF Open, TypeOK, Standing
<1>4. MailStep /\ \A j \in Ids : status'[j] = status[j]
    BY <1>2, <1>3, WordsPost
<1>5. NoPageCloses
    BY <1>4 DEF NoPageCloses
<1> QED
    BY <1>0, <1>2, <1>4, <1>5, ItemsKept, PlainStep DEF Off, HandsIdle

LEMMA ClarifiesKeeps ==
    ASSUME IInv, NEW c \in Console, Clarifies(c)
    PROVE  IInv'
<1>0. TypeOK
    BY DEF IInv
<1>1. PICK i : i = screen[c].ask
    OBVIOUS
<1> DEFINE r == [ask |-> i, reply |-> 0, ruling |-> None, status |-> "landed"]
<1>2. /\ i \in Open /\ Verb(i) = "clarify" /\ Len(mail) < MaxMail
      /\ mail' = Append(mail, Message("principal", "converse", "liaison", i, mail[i].refs))
      /\ status' = Append(Answered(status, i), "open")
      /\ readings' = Append(readings, r)
      /\ screen' = Off(c)
      /\ UNCHANGED <<items, ledger, applying, landing, cut, owed>>
    BY <1>1 DEF Clarifies
<1>3. i \in Ids /\ i \in Nat
    BY <1>2 DEF Open, Ids
<1>4. /\ Answered(status, i) \in Seq(Standing) /\ Len(Answered(status, i)) = Len(mail)
      /\ \A j \in Ids : status[j] = "answered" => Answered(status, i)[j] = "answered"
      /\ \A j \in Ids : j # i => Answered(status, i)[j] = status[j]
    BY <1>0, <1>3, AnsweredType
<1>5. MailStep /\ \A j \in Ids : status'[j] = Answered(status, i)[j]
    BY <1>2, <1>3, <1>4, WordsPost
<1>6. NoPageCloses
    BY <1>2, <1>4, <1>5 DEF NoPageCloses
<1>7. r \in ReadingRow /\ r.ask = i /\ r.status = "landed"
    BY <1>3, NoneRuling DEF ReadingRow
<1> HIDE DEF r
<1>a. HandsOK' /\ HandsStay
    BY <1>0, <1>2, <1>5, <1>7, AddedGrows, HandsKept DEF HandsIdle
<1>8. ReadingsOK' /\ OfPages' /\ ReadingHasItsPage'
    BY <1>0, <1>2, <1>3, <1>5, <1>6, <1>7, <1>a, AllStand, ReadingAdded
<1>9. ItemsOK' /\ ScreensOK' /\ applying' \in BOOLEAN
    BY <1>0, <1>2, <1>5, ItemsKept, ScreensKept DEF TypeOK, Off
<1> QED
    BY <1>5, <1>8, <1>9, <1>a, StepKeeps

\* Readings land where they are; every other one keeps its page.
LEMMA ReadingsLand ==
    ASSUME IInv, MailStep,
           readings' \in Seq(ReadingRow), DOMAIN readings' = DOMAIN readings,
           \A k \in DOMAIN readings :
              /\ readings'[k].ask = readings[k].ask /\ readings'[k].reply = readings[k].reply
              /\ readings'[k].status \in {readings[k].status, "landed"},
           \A k \in DOMAIN readings, a \in Ids :
              readings[k].ask = a /\ readings'[k].status = "open" =>
                     \/ status'[a] = status[a] /\ (Busy(a) => Busy(a)')
                     \/ \E l \in 1 .. k - 1 : /\ readings[l].ask = a /\ readings[l].reply # 0
                                              /\ readings'[l].status = "landed"
    PROVE  ReadingsOK' /\ OfPages' /\ ReadingHasItsPage'
<1>0. /\ TypeOK /\ OfPages /\ ReadingHasItsPage
      /\ readings \in Seq(ReadingRow) /\ \A k \in DOMAIN readings : readings[k].ask \in Ids
    BY DEF IInv, TypeOK
<1>1. /\ Ids \subseteq Ids'
      /\ \A i \in Ids : mail'[i] = mail[i] /\ Verb(i)' = Verb(i)
    BY <1>0, RowsStay
<1>2. ReadingsOK'
    BY <1>0, <1>1 DEF ReadingsOK
<1>3. OfPages'
  <2> SUFFICES ASSUME NEW k \in DOMAIN readings
               PROVE  ReadsAPage(k)'
    BY DEF OfPages
  <2>1. ReadsAPage(k) /\ readings[k].ask \in Ids
    BY <1>0 DEF OfPages
  <2> QED
    BY <1>1, <2>1 DEF ReadsAPage
<1>4. ReadingHasItsPage'
  <2> SUFFICES ASSUME NEW k \in DOMAIN readings, readings'[k].status = "open"
               PROVE  HasItsPage(k)'
    BY DEF ReadingHasItsPage, HasItsPage, Unlanded, Busy
  <2>1. PICK a \in Ids : a = readings[k].ask
    BY <1>0
  <2>2. readings'[k].ask = a /\ k \in Unlanded
    BY <2>1 DEF Unlanded
  <2>3. \A l \in 1 .. k - 1 : l \in DOMAIN readings
    BY <1>0
  <2>4. CASE \E l \in 1 .. k - 1 : /\ readings[l].ask = a /\ readings[l].reply # 0
                                   /\ readings'[l].status = "landed"
    BY <2>2, <2>3, <2>4 DEF HasItsPage
  <2>5. CASE status'[a] = status[a] /\ (Busy(a) => Busy(a)')
    <3>1. \/ a \in Open \/ Busy(a) \/ Verb(a) = "clarify" \/ Batch \in mail[a].refs
          \/ \E l \in 1 .. k - 1 : /\ readings[l].ask = a /\ readings[l].reply # 0
                                   /\ readings[l].status = "landed"
      BY <1>0, <2>1, <2>2 DEF ReadingHasItsPage, Busy
    <3>2. CASE a \in Open
      BY <1>1, <2>2, <2>5, <3>2 DEF Open, HasItsPage
    <3>3. CASE Verb(a) = "clarify"
      BY <1>1, <2>2, <3>3 DEF Verb, HasItsPage
    <3>4. CASE Batch \in mail[a].refs
      BY <1>1, <2>2, <3>4 DEF HasItsPage
    <3>5. CASE \E l \in 1 .. k - 1 : /\ readings[l].ask = a /\ readings[l].reply # 0
                                     /\ readings[l].status = "landed"
      <4>1. PICK l \in 1 .. k - 1 : /\ readings[l].ask = a /\ readings[l].reply # 0
                                    /\ readings[l].status = "landed"
        BY <3>5
      <4>2. /\ readings'[l].ask = a /\ readings'[l].reply # 0
            /\ readings'[l].status = "landed"
        BY <2>3, <4>1
      <4> QED
        BY <2>2, <4>2 DEF HasItsPage
    <3>6. CASE Busy(a)
      BY <2>2, <2>5, <3>6 DEF HasItsPage
    <3> QED
      BY <3>1, <3>2, <3>3, <3>4, <3>5, <3>6
  <2> QED
    BY <2>1, <2>4, <2>5
<1> QED
    BY <1>2, <1>3, <1>4

\* A set of naturals with a member has a least one.
LEMMA LeastOne ==
    ASSUME NEW S \in SUBSET Nat, S # {}
    PROVE  \E l \in S : \A n \in S : l <= n
<1>1. PICK R : R = {ss \in Nat \X Nat : ss[1] < ss[2]}
    OBVIOUS
<1>2. IsWellFoundedOn(R, Nat)
    BY <1>1, NatLessThanWellFounded DEF OpToRel
<1>3. PICK l \in S : \A n \in S : ~(<<n, l>> \in R)
    BY <1>2, WFMin
<1>4. ASSUME NEW n \in S
      PROVE  l <= n
  <2>1. n \in Nat /\ l \in Nat /\ <<n, l>> \in Nat \X Nat
    OBVIOUS
  <2>2. ~(n < l)
    BY <1>1, <1>3, <2>1
  <2> QED
    BY <2>1, <2>2
<1> QED
    BY <1>4

\* A page closes, and the hand that closed it holds it.
LEMMA ClaimsKeep ==
    ASSUME IInv, NEW h \in Hand, NEW i \in Open, Verb(i) \in {"present", "clarify"},
           NEW ruling \in Rulings, NEW k \in Nat, Claims(h, i, ruling, k),
           k # 0 => /\ k \in DOMAIN readings /\ readings[k].ask = i /\ readings[k].reply # 0
                    /\ \A n \in DOMAIN readings : readings[n].status = "open" => k <= n,
           UNCHANGED <<items, ledger, mail, readings, applying, cut, owed, screen>>
    PROVE  IInv'
<1>0. TypeOK /\ Closes /\ Pledges /\ i \in Ids /\ i \in Nat /\ i # 0
    BY DEF IInv, Open, Ids
<1> DEFINE r == [step |-> "read", ask |-> i, reading |-> k, per |-> None, todo |-> {},
                 closed |-> {}, n |-> 0]
           f == [step |-> "rows", ask |-> i, reading |-> k, per |-> Ruled(ruling),
                 todo |-> DOMAIN Ruled(ruling), closed |-> {}, n |-> Len(mail)]
           l == IF Acknowledged(i, ruling) THEN r ELSE f
<1>1. landing[h] = Idle /\ status' = Answered(status, i) /\ landing' = [landing EXCEPT ![h] = l]
    BY DEF Claims, At
<1>2. r \in Landings /\ f \in Landings
  <2>1. Len(mail) \in Nat
    BY <1>0 DEF TypeOK
  <2> QED
    BY <1>0, <2>1, NoneRuling, RuledType DEF Landings
<1>3. l \in Landings /\ l.ask = i /\ l.reading = k /\ l.step \in {"read", "rows"}
      /\ (l.step = "read" => Batch \in mail[i].refs)
    BY <1>2 DEF Acknowledged
<1> HIDE DEF r, f, l
<1>4. /\ Answered(status, i) \in Seq(Standing) /\ Len(Answered(status, i)) = Len(mail)
      /\ status'[i] = "answered" /\ \A j \in Ids : j # i => status'[j] = status[j]
    BY <1>0, <1>1, AnsweredType
<1>5. Keeps /\ MailStep
    BY <1>1, <1>4 DEF Keeps, MailStep, StaysAnswered
<1>6. landing'[h] = l /\ \A g \in Hand : g # h => landing'[g] = landing[g]
    BY <1>0, <1>1 DEF TypeOK
<1>7. Ids' = Ids /\ mail' = mail /\ readings' = readings /\ cut' = cut /\ owed' = owed
    BY DEF Ids
<1>8. Grows
    BY <1>0, SameReadings
<1>9. Holds(h)'
  <2>1. \A j \in Ids : Verb(j) = "verdict" => mail[j].cause # i
    BY <1>0 DEF Closes, AnswersItsPage, Open
  <2> QED
    BY <1>0, <1>3, <1>4, <1>6, <1>7, <2>1 DEF Holds, Verb
<1>10. Pledges'
  <2> SUFFICES ASSUME NEW o \in owed
               PROVE  Owes(o)'
    BY <1>7 DEF Pledges
  <2>1. Owes(o)
    BY <1>0 DEF Pledges
  <2>2. landing[h].step # "rows"
    BY <1>1 DEF Idle, At
  <2> QED
    BY <1>6, <1>7, <2>1, <2>2 DEF Owes
<1>11. HandsOK'
  <2>1. cut' \subseteq Ids' /\ owed' \subseteq Ids' \X Entry
    BY <1>0, <1>7 DEF TypeOK
  <2> QED
    BY <1>1, <1>3, <1>5, <1>8, <1>9, <1>10, <2>1, HandMoves
<1>12. HandsStay /\ PagesStand
  <2>1. Busy(i)'
    BY <1>3, <1>6 DEF Busy
  <2>2. Idle.ask = 0
    BY DEF Idle, At
  <2>3. \A n \in Unlanded : readings[n].ask \in Ids
    BY <1>0 DEF TypeOK, Unlanded
  <2>4. \A a \in Ids : Busy(a) => Busy(a)'
    BY <1>1, <1>6, <1>7, <2>2 DEF Busy, Ids
  <2> QED
    BY <1>4, <2>1, <2>3, <2>4 DEF HandsStay, PagesStand
<1>13. OfPages' /\ ReadingHasItsPage' /\ ReadingsOK' /\ ItemsOK' /\ ScreensOK'
    BY <1>0, <1>5, <1>7, <1>12, ReadingsKept, ReadingRowsKept, ItemsKept, ScreensKept
<1>14. applying' \in BOOLEAN
    BY <1>0 DEF TypeOK
<1> QED
    BY <1>5, <1>11, <1>13, <1>14, StepKeeps

LEMMA RowsOfReadings ==
    ASSUME readings \in Seq(ReadingRow), readings' \in [1 .. Len(readings) -> ReadingRow]
    PROVE  readings' \in Seq(ReadingRow) /\ Len(readings') = Len(readings)
    OBVIOUS

\* One reading is marked landed.
LEMMA OneLands ==
    ASSUME TypeOK, NEW k \in DOMAIN readings, readings' = [readings EXCEPT ![k].status = "landed"]
    PROVE  /\ readings' \in Seq(ReadingRow) /\ DOMAIN readings' = DOMAIN readings
           /\ readings'[k].status = "landed" /\ readings'[k].ask = readings[k].ask
           /\ readings'[k].reply = readings[k].reply
           /\ \A n \in DOMAIN readings : n # k => readings'[n] = readings[n]
           /\ Grows
<1>0. readings \in Seq(ReadingRow) /\ readings[k] \in ReadingRow
    BY DEF TypeOK
<1>1. /\ DOMAIN readings' = DOMAIN readings
      /\ readings'[k] = [ask |-> readings[k].ask, reply |-> readings[k].reply,
                         ruling |-> readings[k].ruling, status |-> "landed"]
      /\ \A n \in DOMAIN readings : n # k => readings'[n] = readings[n]
    BY <1>0 DEF ReadingRow
<1>2. readings'[k] \in ReadingRow
    BY <1>0, <1>1 DEF ReadingRow
<1>3. DOMAIN readings = 1 .. Len(readings) /\ Len(readings) \in Nat
    BY <1>0
<1>4. \A n \in DOMAIN readings : readings'[n] \in ReadingRow
    BY <1>0, <1>1, <1>2
<1>5. readings' = [n \in DOMAIN readings |-> readings'[n]]
    OBVIOUS
<1>6. readings' \in [1 .. Len(readings) -> ReadingRow]
    BY <1>3, <1>4, <1>5
<1>7. readings' \in Seq(ReadingRow) /\ Len(readings') = Len(readings)
    BY <1>0, <1>6, RowsOfReadings
<1>8. /\ readings'[k].status = "landed" /\ readings'[k].ask = readings[k].ask
      /\ readings'[k].reply = readings[k].reply
    BY <1>1
<1>9. Grows
  <2>1. \A n \in DOMAIN readings :
          /\ readings'[n].ask = readings[n].ask /\ readings'[n].reply = readings[n].reply
          /\ readings'[n].status = "open" => readings[n].status = "open"
    BY <1>1, <1>8
  <2>2. Len(readings) <= Len(readings')
    BY <1>3, <1>7
  <2> QED
    BY <1>7, <2>1, <2>2 DEF Grows
<1> QED
    BY <1>1, <1>7, <1>8, <1>9

\* What the loop lands first is the oldest: whatever else reads that page is later.
LEMMA OldestLands ==
    ASSUME IInv, MailStep, NEW k \in DOMAIN readings, readings[k].reply # 0,
           readings' = [readings EXCEPT ![k].status = "landed"],
           \A n \in DOMAIN readings : readings[n].status = "open" => k <= n,
           \A a \in Ids : a # readings[k].ask => status'[a] = status[a] /\ (Busy(a) => Busy(a)')
    PROVE  ReadingsOK' /\ OfPages' /\ ReadingHasItsPage'
<1>0. /\ TypeOK /\ DOMAIN readings = 1 .. Len(readings) /\ Len(readings) \in Nat
    BY DEF IInv, TypeOK
<1>1. /\ readings' \in Seq(ReadingRow) /\ DOMAIN readings' = DOMAIN readings
      /\ readings'[k].status = "landed" /\ readings'[k].ask = readings[k].ask
      /\ readings'[k].reply = readings[k].reply
      /\ \A n \in DOMAIN readings : n # k => readings'[n] = readings[n]
    BY <1>0, OneLands
<1>2. \A n \in DOMAIN readings :
         /\ readings'[n].ask = readings[n].ask /\ readings'[n].reply = readings[n].reply
         /\ readings'[n].status \in {readings[n].status, "landed"}
    BY <1>1
<1>3. \A n \in DOMAIN readings, a \in Ids :
         readings[n].ask = a /\ readings'[n].status = "open" =>
                \/ status'[a] = status[a] /\ (Busy(a) => Busy(a)')
                \/ \E l \in 1 .. n - 1 : /\ readings[l].ask = a /\ readings[l].reply # 0
                                         /\ readings'[l].status = "landed"
  <2> SUFFICES ASSUME NEW n \in DOMAIN readings, readings'[n].status = "open",
                      readings[n].ask = readings[k].ask
               PROVE  \E l \in 1 .. n - 1 : /\ readings[l].ask = readings[k].ask /\ readings[l].reply # 0
                                            /\ readings'[l].status = "landed"
    OBVIOUS
  <2>1. n # k /\ readings[n].status = "open"
    BY <1>1
  <2>2. k \in 1 .. n - 1
    BY <1>0, <2>1
  <2> QED
    BY <1>1, <2>2
<1> QED
    BY <1>1, <1>2, <1>3, ReadingsLand

LEMMA ApplyRulingKeeps ==
    ASSUME IInv, ApplyRuling
    PROVE  IInv'
<1>0. /\ TypeOK /\ OfPages /\ readings \in Seq(ReadingRow) /\ Loop \in Hand
      /\ \A k \in DOMAIN readings : readings[k].ask \in Ids
    BY DEF IInv, TypeOK, Hand
<1>a. /\ landing[Loop] = Idle /\ applying
      /\ UNCHANGED <<items, ledger, mail, cut, owed, screen>>
    BY DEF ApplyRuling
<1>1. CASE Unlanded = {}
  <2>1. applying' = FALSE /\ UNCHANGED <<status, readings, landing>>
    BY <1>1 DEF ApplyRuling
  <2>2. MailStep /\ NoPageCloses
    BY <1>0, <1>a, <2>1, NoMail
  <2>3. HandsOK' /\ HandsStay
    BY <1>0, <1>a, <2>1, <2>2, SameReadings, HandsKept DEF HandsIdle
  <2>4. OfPages' /\ ReadingHasItsPage' /\ ReadingsOK' /\ ScreensOK' /\ ItemsOK'
    BY <1>0, <1>a, <2>1, <2>2, <2>3, AllStand, ReadingsKept, ReadingRowsKept, ScreensKept, ItemsKept
  <2> QED
    BY <2>1, <2>2, <2>3, <2>4, StepKeeps
<1>2. CASE Unlanded # {}
  <2> DEFINE First1 == CHOOSE l \in Unlanded : \A n \in Unlanded : l <= n
  <2>1. Unlanded \subseteq Nat
    BY <1>0 DEF Unlanded
  <2>2. First1 \in Unlanded /\ \A n \in Unlanded : First1 <= n
    <3>1. \E l \in Unlanded : \A n \in Unlanded : l <= n
      BY <1>2, <2>1, LeastOne
    <3> QED
      BY <3>1
  <2>3. PICK k \in Unlanded : k = First1
    BY <2>2
  <2>4. \A n \in DOMAIN readings : readings[n].status = "open" => k <= n
    BY <2>2, <2>3 DEF Unlanded
  <2>5. PICK ask \in Ids : ask = readings[k].ask
    BY <1>0 DEF Unlanded
  <2>6. PICK ruling \in Rulings : ruling = readings[k].ruling
    <3>1. readings[k] \in ReadingRow
      BY <1>0 DEF Unlanded
    <3>2. readings[k].ruling \in Rulings
      BY <3>1 DEF ReadingRow
    <3> QED
      BY <3>2
  <2>7. /\ UNCHANGED applying
        /\ IF Lands(ask) THEN Claims(Loop, ask, ruling, k) /\ UNCHANGED readings
           ELSE /\ readings' = [readings EXCEPT ![k].status = "landed"]
                /\ UNCHANGED <<status, landing>>
    BY <1>2, <2>3, <2>5, <2>6 DEF ApplyRuling
  <2>8. k \in DOMAIN readings /\ k \in Nat /\ readings[k].reply # 0
    BY <1>0 DEF Unlanded, OfPages, ReadsAPage
  <2>9. CASE Lands(ask)
    <3>1. Claims(Loop, ask, ruling, k) /\ UNCHANGED readings
      BY <2>7, <2>9
    <3>2. ask \in Open /\ Verb(ask) \in {"present", "clarify"}
      BY <1>0, <2>5, <2>8, <2>9 DEF Lands, OfPages, ReadsAPage
    <3> QED
      BY <1>0, <1>a, <2>4, <2>5, <2>7, <2>8, <3>1, <3>2, ClaimsKeep
  <2>10. CASE ~Lands(ask)
    <3>1. readings' = [readings EXCEPT ![k].status = "landed"] /\ UNCHANGED <<status, landing>>
      BY <2>7, <2>10
    <3>2. MailStep /\ ItemsOK'
      BY <1>0, <1>a, <3>1, NoMail, ItemsKept
    <3>3. \A a : Busy(a) => Busy(a)'
      BY <1>a, <3>1 DEF Busy
    <3>4. ReadingsOK' /\ OfPages' /\ ReadingHasItsPage'
      BY <2>4, <2>8, <3>1, <3>2, <3>3, OldestLands
    <3>5. HandsOK'
      BY <1>0, <1>a, <2>8, <3>1, <3>2, OneLands, HandsKept DEF HandsIdle
    <3>6. ScreensOK' /\ applying' \in BOOLEAN
      BY <1>0, <1>a, <2>7, <3>2, ScreensKept DEF TypeOK
    <3> QED
      BY <3>2, <3>4, <3>5, <3>6, StepKeeps
  <2> QED
    BY <2>9, <2>10
<1> QED
    BY <1>1, <1>2

LEMMA SignKeeps ==
    ASSUME IInv, NEW c \in Console, Sign(c)
    PROVE  IInv'
<1>0. TypeOK
    BY DEF IInv
<1>1. PICK i : i = screen[c].ask
    OBVIOUS
<1>2. PICK rows \in SUBSET (IF i = 0 THEN {} ELSE mail[i].refs) \ {{}} :
      \E ruling \in [rows -> Verdict] :
        /\ Verb(i) = "present" /\ Lands(i)
        /\ Claims(c, i, ruling, 0)
        /\ UNCHANGED <<items, ledger, mail, readings, applying, cut, owed, screen>>
    BY <1>1 DEF Sign
<1>3. PICK ruling \in [rows -> Verdict] :
        /\ Verb(i) = "present" /\ Lands(i)
        /\ Claims(c, i, ruling, 0)
        /\ UNCHANGED <<items, ledger, mail, readings, applying, cut, owed, screen>>
    BY <1>2
<1>4. i \in Open /\ i \in Ids /\ c \in Hand
    BY <1>3 DEF Lands, Open, Hand
<1>5. ruling \in Rulings
  <2>1. mail[i] \in Messages
    BY <1>0, <1>4 DEF TypeOK, Ids
  <2>2. i # 0 /\ rows \subseteq mail[i].refs
    BY <1>4 DEF Ids
  <2>3. rows \in SUBSET Row
    BY <2>1, <2>2 DEF Messages
  <2> QED
    BY <2>3 DEF Rulings
<1> QED
  <2>1. Claims(c, i, ruling, 0)
    BY <1>3
  <2>2. 0 \in Nat
    OBVIOUS
  <2>3. UNCHANGED <<items, ledger, mail, readings, applying, cut, owed, screen>>
    BY <1>3
  <2>4. Verb(i) \in {"present", "clarify"}
    BY <1>3
  <2> QED
    BY <1>4, <1>5, <2>1, <2>2, <2>3, <2>4, ClaimsKeep

-----------------------------------------------------------------------------
(***************************************************************************)
(* Landing, statement by statement.                                        *)
(***************************************************************************)

\* A statement on the rows of the ruling: the hand stays on its page.
LEMMA RowWritten ==
    ASSUME IInv, NEW h \in Hand, landing[h].step = "rows", NEW per \in Rulings,
           NEW todo \in SUBSET Row, NEW closed \in SUBSET Entry,
           landing' = [landing EXCEPT ![h] =
              [landing[h] EXCEPT !.per = per, !.closed = closed, !.todo = todo]],
           UNCHANGED <<mail, status, readings, applying, cut, screen>>,
           ItemsOK', owed' \subseteq Ids \X Entry, Pledges'
    PROVE  IInv'
<1>0. TypeOK /\ Hold /\ landing[h] \in Landings
    BY DEF IInv, TypeOK
<1> DEFINE l == [landing[h] EXCEPT !.per = per, !.closed = closed, !.todo = todo]
<1>1. l \in Landings /\ landing' = [landing EXCEPT ![h] = l]
    BY <1>0 DEF Landings
<1>2. l.step = "rows" /\ l.ask = landing[h].ask /\ l.reading = landing[h].reading
    BY <1>0 DEF Landings
<1> HIDE DEF l
<1>3. MailStep /\ NoPageCloses /\ Grows /\ Ids' = Ids
    BY <1>0, NoMail, SameReadings DEF Ids
<1>4. landing'[h] = l /\ \A g \in Hand : g # h => landing'[g] = landing[g]
    BY <1>0, <1>1 DEF TypeOK
<1>5. Holds(h)'
    BY <1>0, <1>2, <1>3, <1>4 DEF Hold, Holds, Verb
<1>6. HandsOK'
  <2>1. cut' \subseteq Ids' /\ owed' \subseteq Ids' \X Entry
    BY <1>0, <1>3 DEF TypeOK
  <2> QED
    BY <1>1, <1>2, <1>3, <1>5, <2>1, HandMoves
<1>7. HandsStay
    BY <1>2, <1>4 DEF HandsStay, Busy
<1>8. OfPages' /\ ReadingHasItsPage' /\ ReadingsOK' /\ ScreensOK'
    BY <1>0, <1>3, <1>7, AllStand, ReadingsKept, ReadingRowsKept, ScreensKept
<1>9. applying' \in BOOLEAN
    BY <1>0 DEF TypeOK
<1> QED
    BY <1>3, <1>6, <1>8, <1>9, StepKeeps

LEMMA ClosesEntryKeeps ==
    ASSUME IInv, NEW h \in Hand, ClosesEntry(h)
    PROVE  IInv'
<1>0. TypeOK /\ Pledges /\ landing[h] \in Landings
    BY DEF IInv, TypeOK
<1> DEFINE l == landing[h]
<1>1. PICK e \in l.todo \cap Entry :
        /\ l.step = "rows"
        /\ IF ledger[e] = "open"
           THEN /\ ledger' = [ledger EXCEPT ![e] = "resolved"]
                /\ landing' = [landing EXCEPT ![h] =
                      [l EXCEPT !.per = PerItem(l.per, e), !.closed = @ \cup {e},
                                !.todo = (@ \ {e}) \cup IF l.per[e] = "contest" THEN {e[1]} ELSE {}]]
                /\ owed' = IF l.per[e] = "contest" THEN owed \cup {<<l.ask, e>>} ELSE owed
           ELSE /\ landing' = [landing EXCEPT ![h] = [l EXCEPT !.todo = @ \ {e}]]
                /\ UNCHANGED <<ledger, owed>>
        /\ UNCHANGED <<items, mail, status, readings, applying, cut, screen>>
    BY DEF ClosesEntry
<1>2. l.per \in Rulings /\ l.todo \in SUBSET Row /\ l.closed \in SUBSET Entry /\ l.ask \in Ids
  <2>1. l.ask \in Ids
    BY <1>1 DEF IInv, Hold, Holds
  <2> QED
    BY <1>0, <2>1 DEF Landings
<1>3. e[1] \in Item /\ e[1] \in Row
    BY <1>1 DEF Entry, Row
<1>4. \A x \in Item : x # e
    BY <1>1, SeatAssumption
<1>5. ItemsOK'
  <2>1. ledger' \in [Entry -> {"none", "open", "resolved"}]
    BY <1>0, <1>1 DEF TypeOK
  <2> QED
    BY <1>0, <1>1, <2>1 DEF TypeOK, ItemsOK, items
<1>6. \A o \in owed : o[2][1] \in Item /\ Owes(o)
    BY <1>0 DEF TypeOK, Pledges, Entry
<1>7. CASE ledger[e] = "open"
  <2> DEFINE per == PerItem(l.per, e)
             todo == (l.todo \ {e}) \cup IF l.per[e] = "contest" THEN {e[1]} ELSE {}
             closed == l.closed \cup {e}
  <2>1. /\ landing' = [landing EXCEPT ![h] = [l EXCEPT !.per = per, !.closed = closed, !.todo = todo]]
        /\ owed' = IF l.per[e] = "contest" THEN owed \cup {<<l.ask, e>>} ELSE owed
    BY <1>1, <1>7
  <2>2. per \in Rulings /\ todo \in SUBSET Row /\ closed \in SUBSET Entry
    BY <1>1, <1>2, <1>3, PerItemType
  <2>3. /\ \A r \in DOMAIN l.per : l.per[r] = "contest" => r \in DOMAIN per /\ per[r] = "contest"
        /\ l.per[e] = "contest" => e[1] \in DOMAIN per /\ per[e[1]] = "contest" /\ e[1] \in todo
        /\ \A x \in Item \cap l.todo : x \in todo
    BY <1>1, <1>2, <1>4, PerItemType
  <2> HIDE DEF per, todo, closed
  <2>4. /\ landing'[h].step = "rows" /\ landing'[h].ask = l.ask
        /\ landing'[h].per = per /\ landing'[h].todo = todo
        /\ \A g \in Hand : g # h => landing'[g] = landing[g]
    BY <1>0, <1>1, <2>1 DEF TypeOK, Landings
  <2>5. Pledges'
    <3> SUFFICES ASSUME NEW o \in owed'
                 PROVE  Owes(o)'
      BY DEF Pledges
    <3>1. CASE o \in owed
      <4>1. Owes(o) /\ o[2][1] \in Item
        BY <1>6, <3>1
      <4>2. CASE o[1] \in cut
        BY <1>1, <4>2 DEF Owes
      <4>3. CASE o[1] \notin cut
        <5>1. PICK g \in Hand :
                /\ landing[g].step = "rows" /\ landing[g].ask = o[1]
                /\ o[2][1] \in landing[g].todo /\ o[2][1] \in DOMAIN landing[g].per
                /\ landing[g].per[o[2][1]] = "contest"
          BY <4>1, <4>3 DEF Owes
        <5>2. CASE g = h
          BY <2>3, <2>4, <4>1, <5>1, <5>2 DEF Owes
        <5>3. CASE g # h
          BY <2>4, <5>1, <5>3 DEF Owes
        <5> QED
          BY <5>2, <5>3
      <4> QED
        BY <4>2, <4>3
    <3>2. CASE o \notin owed
      <4>1. l.per[e] = "contest" /\ o = <<l.ask, e>>
        BY <2>1, <3>2
      <4> QED
        BY <2>3, <2>4, <4>1 DEF Owes
    <3> QED
      BY <3>1, <3>2
  <2>6. owed' \subseteq Ids \X Entry
    BY <1>0, <1>1, <1>2, <2>1 DEF TypeOK
  <2> QED
    BY <1>1, <1>5, <2>1, <2>2, <2>5, <2>6, RowWritten
<1>8. CASE ledger[e] # "open"
  <2>1. landing' = [landing EXCEPT ![h] = [l EXCEPT !.todo = @ \ {e}]] /\ owed' = owed
    BY <1>1, <1>8
  <2>2. landing' = [landing EXCEPT ![h] =
                      [l EXCEPT !.per = l.per, !.closed = l.closed, !.todo = l.todo \ {e}]]
    BY <1>0, <2>1 DEF Landings
  <2>3. l.todo \ {e} \in SUBSET Row
    BY <1>2
  <2>4. /\ landing'[h].step = "rows" /\ landing'[h].ask = l.ask
        /\ landing'[h].per = l.per /\ landing'[h].todo = l.todo \ {e}
        /\ \A g \in Hand : g # h => landing'[g] = landing[g]
    BY <1>0, <1>1, <2>1 DEF TypeOK, Landings
  <2>5. Pledges'
    <3> SUFFICES ASSUME NEW o \in owed
                 PROVE  Owes(o)'
      BY <2>1 DEF Pledges
    <3>1. Owes(o) /\ o[2][1] \in Item
      BY <1>6
    <3>2. CASE o[1] \in cut
      BY <1>1, <3>2 DEF Owes
    <3>3. CASE o[1] \notin cut
      <4>1. PICK g \in Hand :
              /\ landing[g].step = "rows" /\ landing[g].ask = o[1]
              /\ o[2][1] \in landing[g].todo /\ o[2][1] \in DOMAIN landing[g].per
              /\ landing[g].per[o[2][1]] = "contest"
        BY <3>1, <3>3 DEF Owes
      <4>2. CASE g = h
        BY <1>4, <2>4, <3>1, <4>1, <4>2 DEF Owes
      <4>3. CASE g # h
        BY <2>4, <4>1, <4>3 DEF Owes
      <4> QED
        BY <4>2, <4>3
    <3> QED
      BY <3>2, <3>3
  <2>6. owed' \subseteq Ids \X Entry
    BY <1>0, <2>1 DEF TypeOK
  <2> QED
    BY <1>1, <1>2, <1>5, <2>2, <2>3, <2>5, <2>6, RowWritten
<1> QED
    BY <1>7, <1>8

LEMMA WritesItemKeeps ==
    ASSUME IInv, NEW h \in Hand, WritesItem(h)
    PROVE  IInv'
<1>0. TypeOK /\ Pledges /\ landing[h] \in Landings
    BY DEF IInv, TypeOK
<1> DEFINE l == landing[h]
<1>1. PICK x \in l.todo \cap Item :
        /\ l.step = "rows"
        /\ approval' = [approval EXCEPT ![x] = StateOf(l.per[x])]
        /\ approvedAt' = IF approval[x] = StateOf(l.per[x]) THEN approvedAt
                         ELSE [approvedAt EXCEPT ![x] = version[x]]
        /\ landing' = [landing EXCEPT ![h] = [l EXCEPT !.todo = @ \ {x}]]
        /\ owed' = StillOwed(approval')
        /\ UNCHANGED <<version, ledger, mail, status, readings, applying, cut, screen>>
    BY DEF WritesItem
<1>2. l.per \in Rulings /\ l.todo \ {x} \in SUBSET Row /\ l.closed \in SUBSET Entry
    BY <1>0 DEF Landings
<1>3. landing' = [landing EXCEPT ![h] =
                    [l EXCEPT !.per = l.per, !.closed = l.closed, !.todo = l.todo \ {x}]]
    BY <1>0, <1>1 DEF Landings
<1>4. /\ landing'[h].step = "rows" /\ landing'[h].ask = l.ask
      /\ landing'[h].per = l.per /\ landing'[h].todo = l.todo \ {x}
      /\ \A g \in Hand : g # h => landing'[g] = landing[g]
    BY <1>0, <1>1 DEF TypeOK, Landings
<1>5. ItemsOK'
  <2>1. StateOf(l.per[x]) \in {"draft", "approved", "contested"}
    BY DEF StateOf
  <2>2. approval' \in [Item -> {"draft", "approved", "contested"}]
    BY <1>0, <1>1, <2>1 DEF TypeOK
  <2>3. \A y \in Item : version[y] \in 0 .. MaxVersion /\ approvedAt[y] \in 0 .. MaxVersion
                       /\ approvedAt[y] <= version[y] /\ version[y] <= version[y]
    BY <1>0, SeatAssumption DEF TypeOK
  <2>4. /\ approvedAt' \in [Item -> 0 .. MaxVersion]
        /\ \A y \in Item : approvedAt'[y] <= version[y]
    BY <1>0, <1>1, <2>3 DEF TypeOK
  <2> QED
    BY <1>0, <1>1, <2>2, <2>4 DEF ItemsOK, TypeOK
<1>6. owed' \subseteq owed /\ \A o \in owed' : approval'[o[2][1]] # "contested"
    BY <1>1 DEF StillOwed
<1>7. Pledges'
  <2> SUFFICES ASSUME NEW o \in owed'
               PROVE  Owes(o)'
    BY DEF Pledges
  <2>1. Owes(o)
    BY <1>0, <1>6 DEF Pledges
  <2>2. CASE o[1] \in cut
    BY <1>1, <2>2 DEF Owes
  <2>3. CASE o[1] \notin cut
    <3>1. PICK g \in Hand :
            /\ landing[g].step = "rows" /\ landing[g].ask = o[1]
            /\ o[2][1] \in landing[g].todo /\ o[2][1] \in DOMAIN landing[g].per
            /\ landing[g].per[o[2][1]] = "contest"
      BY <2>1, <2>3 DEF Owes
    <3>2. CASE g = h
      <4>1. CASE o[2][1] = x
        <5>1. approval'[x] = "contested"
          BY <1>0, <1>1, <3>1, <3>2, <4>1 DEF StateOf, TypeOK
        <5> QED
          BY <1>6, <4>1, <5>1
      <4>2. CASE o[2][1] # x
        BY <1>4, <3>1, <3>2, <4>2 DEF Owes
      <4> QED
        BY <4>1, <4>2
    <3>3. CASE g # h
      BY <1>4, <3>1, <3>3 DEF Owes
    <3> QED
      BY <3>2, <3>3
  <2> QED
    BY <2>2, <2>3
<1>8. owed' \subseteq Ids \X Entry
    BY <1>0, <1>6 DEF TypeOK
<1>9. /\ landing[h].step = "rows"
      /\ landing' = [landing EXCEPT ![h] = [landing[h] EXCEPT !.per = landing[h].per,
                        !.closed = landing[h].closed, !.todo = landing[h].todo \ {x}]]
      /\ UNCHANGED <<mail, status, readings, applying, cut, screen>>
    BY <1>1, <1>3
<1> HIDE DEF l
<1>10. /\ landing[h].per \in Rulings /\ landing[h].closed \in SUBSET Entry
       /\ landing[h].todo \ {x} \in SUBSET Row
    BY <1>2 DEF l
<1> QED
    BY <1>5, <1>7, <1>8, <1>9, <1>10, RowWritten

LEMMA VerdictType ==
    ASSUME TypeOK, NEW l \in Landings, l.ask \in Ids
    PROVE  /\ VerdictMessage(l) \in Messages
           /\ VerdictMessage(l).verb = "verdict"
           /\ VerdictMessage(l).cause = l.ask
<1> DEFINE rows == (IF DOMAIN l.per = {} THEN mail[l.ask].refs ELSE DOMAIN l.per) \ l.closed
<1>1. VerdictMessage(l) = [from |-> "principal", verb |-> "verdict", to |-> "liaison",
                           cause |-> l.ask, refs |-> rows]
    BY DEF VerdictMessage, Message
<1>2. mail[l.ask] \in Messages
    BY DEF TypeOK, Ids
<1>3. rows \subseteq Row
    BY <1>2 DEF Messages, Landings, Rulings
<1>4. l.ask \in Nat
    BY DEF Ids
<1> HIDE DEF rows
<1> QED
    BY <1>1, <1>3, <1>4 DEF Messages

LEMMA SendsVerdictKeeps ==
    ASSUME IInv, NEW h \in Hand, SendsVerdict(h)
    PROVE  IInv'
<1>0. TypeOK /\ Hold /\ Alone /\ Pledges /\ landing[h] \in Landings /\ mail \in Seq(Messages)
    BY DEF IInv, TypeOK
<1> DEFINE m == VerdictMessage(landing[h])
           d == IF Settled(landing[h]) THEN "answered" ELSE "open"
           l == [step |-> "sent", ask |-> landing[h].ask, reading |-> landing[h].reading,
                 per |-> None, todo |-> {}, closed |-> {}, n |-> 0]
<1>1. /\ landing[h].step = "rows" /\ landing[h].todo = {} /\ Len(mail) < MaxMail
      /\ mail' = Append(mail, m) /\ status' = Append(status, d)
      /\ landing' = [landing EXCEPT ![h] = l]
      /\ UNCHANGED <<items, ledger, readings, applying, cut, owed, screen>>
    BY DEF SendsVerdict, At
<1>2. /\ landing[h].ask \in Ids /\ status[landing[h].ask] = "answered"
      /\ Verb(landing[h].ask) \in {"present", "clarify"}
      /\ \A i \in Ids : Verb(i) = "verdict" => mail[i].cause # landing[h].ask
    BY <1>0, <1>1 DEF Hold, Holds
<1>3. m \in Messages /\ m.verb = "verdict" /\ m.cause = landing[h].ask
    BY <1>0, <1>2, VerdictType
<1>4. d \in Standing
    BY DEF Standing
<1>5. l \in Landings /\ l.step = "sent" /\ l.ask = landing[h].ask /\ l.reading = landing[h].reading
    BY <1>0, NoneRuling DEF Landings
<1> HIDE DEF m, d, l
<1>6. landing'[h] = l /\ \A g \in Hand : g # h => landing'[g] = landing[g]
    BY <1>0, <1>1 DEF TypeOK
<1>7. /\ status \in Seq(Standing) /\ Len(status) = Len(mail)
      /\ status' \in Seq(Standing) /\ Len(status') = Len(mail) + 1
      /\ \A j \in Ids : status'[j] = status[j]
    BY <1>0, <1>1, <1>4 DEF TypeOK, Standing, Ids
<1>8. Posts(m)
    BY <1>1, <1>3, <1>7 DEF Posts, StaysAnswered
<1>9. \A g \in Hand : landing'[g].step = "rows" => landing'[g].ask # m.cause
    BY <1>0, <1>1, <1>3, <1>5, <1>6 DEF Alone
<1>10. WellPosted(m)
    BY <1>2, <1>3, <1>9 DEF WellPosted
<1>11. MailStep /\ NoPageCloses
    BY <1>7, <1>8, <1>10 DEF MailStep, NoPageCloses
<1>12. Grows
    BY <1>0, <1>1, SameReadings
<1>13. Holds(h)'
  <2>1. Ids \subseteq Ids' /\ \A i \in Ids : mail'[i] = mail[i] /\ Verb(i)' = Verb(i)
    BY <1>0, <1>11, RowsStay
  <2>2. PICK a \in Ids, k \in Nat : a = landing[h].ask /\ k = landing[h].reading
    BY <1>0, <1>2 DEF Landings
  <2>3. landing'[h].step = "sent" /\ landing'[h].ask = a /\ landing'[h].reading = k
    BY <1>5, <1>6, <2>2
  <2>4. a \in Ids' /\ Verb(a)' \in {"present", "clarify"} /\ status'[a] = "answered"
    BY <1>2, <1>7, <2>1, <2>2
  <2>5. k # 0 => /\ k \in DOMAIN readings /\ readings[k].ask = a /\ readings[k].reply # 0
                 /\ \A n \in DOMAIN readings : readings[n].status = "open" => k <= n
    BY <1>0, <2>2 DEF Hold, Holds
  <2> QED
    BY <1>1, <2>3, <2>4, <2>5 DEF Holds, Verb
<1>14. Pledges'
  <2> SUFFICES ASSUME NEW o \in owed
               PROVE  Owes(o)'
    BY <1>1 DEF Pledges
  <2>1. Owes(o)
    BY <1>0 DEF Pledges
  <2> QED
    BY <1>1, <1>6, <2>1 DEF Owes
<1>15. HandsOK'
  <2>1. cut' \subseteq Ids' /\ owed' \subseteq Ids' \X Entry
    BY <1>0, <1>1, <1>11, RowsStay DEF TypeOK
  <2> QED
    BY <1>1, <1>5, <1>11, <1>12, <1>13, <1>14, <2>1, HandMoves
<1>16. HandsStay
    BY <1>1, <1>5, <1>6 DEF HandsStay, Busy
<1>17. OfPages' /\ ReadingHasItsPage' /\ ReadingsOK' /\ ScreensOK' /\ ItemsOK'
    BY <1>0, <1>1, <1>11, <1>16, AllStand, ReadingsKept, ReadingRowsKept, ScreensKept, ItemsKept
<1>18. applying' \in BOOLEAN
    BY <1>0, <1>1 DEF TypeOK
<1> QED
    BY <1>11, <1>15, <1>17, <1>18, StepKeeps

\* A verdict of the seat's own lands the readings of its page, or is one.
LEMMA MarksKeep ==
    ASSUME IInv, MailStep, NEW i \in Ids, Verb(i) \in {"present", "clarify"}, readings' = Marks(i),
           UNCHANGED <<status, cut>>,
           \A a \in Ids : a # i /\ Busy(a) => Busy(a)'
    PROVE  ReadingsOK' /\ OfPages' /\ ReadingHasItsPage' /\ Grows
<1>0. /\ TypeOK /\ readings \in Seq(ReadingRow) /\ i \in Nat
      /\ \A k \in DOMAIN readings : readings[k].ask \in Ids
    BY DEF IInv, TypeOK, Ids
<1>1. CASE \E k \in DOMAIN readings : readings[k].ask = i
  <2>1. readings' = [k \in DOMAIN readings |->
                       IF readings[k].ask = i /\ readings[k].status = "open"
                       THEN [readings[k] EXCEPT !.status = "landed"] ELSE readings[k]]
    BY <1>1 DEF Marks
  <2>2. ASSUME NEW k \in DOMAIN readings
        PROVE  /\ readings'[k] \in ReadingRow
               /\ readings'[k].ask = readings[k].ask /\ readings'[k].reply = readings[k].reply
               /\ readings'[k].status \in {readings[k].status, "landed"}
               /\ readings'[k].status = "open" => readings[k].ask # i
    <3>1. readings[k] \in ReadingRow
      BY <1>0
    <3>2. CASE readings[k].ask = i /\ readings[k].status = "open"
      <4>1. readings'[k] = [readings[k] EXCEPT !.status = "landed"]
        BY <2>1, <3>2
      <4>2. readings'[k] = [ask |-> readings[k].ask, reply |-> readings[k].reply,
                            ruling |-> readings[k].ruling, status |-> "landed"]
        BY <3>1, <4>1 DEF ReadingRow
      <4> QED
        BY <3>1, <4>2 DEF ReadingRow
    <3>3. CASE ~(readings[k].ask = i /\ readings[k].status = "open")
      <4>1. readings'[k] = readings[k]
        BY <2>1, <3>3
      <4> QED
        BY <3>1, <3>3, <4>1
    <3> QED
      BY <3>2, <3>3
  <2>3. DOMAIN readings' = DOMAIN readings
    BY <2>1
  <2>4. readings' \in Seq(ReadingRow) /\ Len(readings') = Len(readings)
    <3>1. DOMAIN readings = 1 .. Len(readings) /\ Len(readings) \in Nat
      BY <1>0
    <3>2. readings' = [n \in DOMAIN readings |-> readings'[n]]
      BY <2>1
    <3>3. readings' \in [1 .. Len(readings) -> ReadingRow]
      BY <2>2, <3>1, <3>2
    <3> QED
      BY <3>1, <3>3
  <2>5. \A k \in DOMAIN readings :
          /\ readings'[k].ask = readings[k].ask /\ readings'[k].reply = readings[k].reply
          /\ readings'[k].status \in {readings[k].status, "landed"}
    BY <2>2
  <2>6. \A k \in DOMAIN readings, a \in Ids :
          readings[k].ask = a /\ readings'[k].status = "open" =>
             status'[a] = status[a] /\ (Busy(a) => Busy(a)')
    BY <1>0, <2>2
  <2>7. Len(readings) <= Len(readings')
    BY <1>0, <2>4
  <2>8. Grows
    BY <2>2, <2>4, <2>7 DEF Grows
  <2> QED
    BY <2>3, <2>4, <2>5, <2>6, <2>8, ReadingsLand
<1>2. CASE ~\E k \in DOMAIN readings : readings[k].ask = i
  <2> DEFINE r == [ask |-> i, reply |-> 0, ruling |-> None, status |-> "landed"]
  <2>1. readings' = Append(readings, r)
    BY <1>2 DEF Marks
  <2>2. r \in ReadingRow /\ r.ask = i /\ r.status = "landed"
    BY <1>0, NoneRuling DEF ReadingRow
  <2> HIDE DEF r
  <2>3. PagesStand
    BY DEF PagesStand
  <2>4. HandsStay
    BY <1>2 DEF HandsStay, Awaited, Unlanded
  <2>5. Grows
    BY <1>0, <2>1, <2>2, AddedGrows
  <2> QED
    BY <2>1, <2>2, <2>3, <2>4, <2>5, ReadingAdded
<1> QED
    BY <1>1, <1>2

LEMMA DoneKeeps ==
    ASSUME IInv, NEW h \in Hand, Done(h)
    PROVE  IInv'
<1>0. TypeOK /\ Hold /\ Pledges /\ landing[h] \in Landings
    BY DEF IInv, TypeOK
<1>1. PICK i : i = landing[h].ask
    OBVIOUS
<1>2. /\ landing[h].step \in {"sent", "read"} /\ landing' = [landing EXCEPT ![h] = Idle]
      /\ readings' = IF landing[h].reading # 0
                     THEN [readings EXCEPT ![landing[h].reading].status = "landed"]
                     ELSE IF landing[h].step = "sent" THEN Marks(i) ELSE readings
      /\ screen' = Off(h)
      /\ UNCHANGED <<items, ledger, mail, status, applying, cut, owed>>
    BY <1>1 DEF Done
<1>3. /\ i \in Ids /\ Verb(i) \in {"present", "clarify"}
      /\ landing[h].step = "read" => Batch \in mail[i].refs
    BY <1>0, <1>1, <1>2 DEF Hold, Holds
<1>4. MailStep /\ NoPageCloses
    BY <1>0, <1>2, NoMail
<1>5. \A g \in Hand : g # h => landing'[g] = landing[g]
    BY <1>0, <1>2 DEF TypeOK
<1>6. \A a \in Ids : a # i /\ Busy(a) => Busy(a)'
    BY <1>1, <1>2, <1>5 DEF Busy
<1>7. ReadingsOK' /\ OfPages' /\ ReadingHasItsPage' /\ Grows
  <2>1. CASE landing[h].reading # 0
    <3>1. PICK k \in DOMAIN readings :
             /\ k = landing[h].reading /\ readings[k].ask = i /\ readings[k].reply # 0
             /\ \A n \in DOMAIN readings : readings[n].status = "open" => k <= n
      BY <1>0, <1>1, <2>1 DEF Hold, Holds
    <3>2. readings' = [readings EXCEPT ![k].status = "landed"]
      BY <1>2, <2>1, <3>1
    <3>3. \A a \in Ids : a # readings[k].ask => status'[a] = status[a] /\ (Busy(a) => Busy(a)')
      BY <1>0, <1>2, <1>6, <3>1 DEF TypeOK
    <3>4. Grows
      BY <1>0, <3>2, OneLands
    <3> QED
      BY <1>4, <3>1, <3>2, <3>3, <3>4, OldestLands
  <2>2. CASE landing[h].reading = 0 /\ landing[h].step = "sent"
    <3>1. readings' = Marks(i)
      BY <1>2, <2>2
    <3> QED
      BY <1>2, <1>3, <1>4, <1>6, <3>1, MarksKeep
  <2>3. CASE landing[h].reading = 0 /\ landing[h].step = "read"
    <3>1. readings' = readings /\ Batch \in mail[i].refs
      BY <1>2, <1>3, <2>3
    <3>2. Grows /\ ReadingsOK' /\ DOMAIN readings' = DOMAIN readings /\ readings \in Seq(ReadingRow)
      BY <1>0, <1>4, <3>1, SameReadings, ReadingRowsKept DEF TypeOK
    <3>3. OfPages'
      BY <1>2, <3>1 DEF IInv, OfPages, ReadsAPage, Verb
    <3>4. ReadingHasItsPage'
      <4> SUFFICES ASSUME NEW k \in DOMAIN readings, readings[k].status = "open"
                   PROVE  HasItsPage(k)'
        BY <3>1 DEF ReadingHasItsPage, HasItsPage, Unlanded, Busy
      <4>1. HasItsPage(k) /\ readings[k].ask \in Ids
        BY <1>0 DEF IInv, ReadingHasItsPage, HasItsPage, Unlanded, Busy, TypeOK
      <4>2. CASE readings[k].ask = i
        BY <1>2, <3>1, <4>2 DEF HasItsPage
      <4>3. CASE readings[k].ask # i
        <5>1. PICK a \in Ids : a = readings[k].ask /\ a = readings'[k].ask
          BY <3>1, <4>1
        <5>2. Busy(a) => Busy(a)'
          BY <1>6, <4>3, <5>1
        <5> QED
          BY <1>2, <3>1, <4>1, <5>1, <5>2 DEF HasItsPage, Open, Ids, Verb
      <4> QED
        BY <4>2, <4>3
    <3> QED
      BY <3>2, <3>3, <3>4
  <2> QED
    BY <1>2, <2>1, <2>2, <2>3
<1>8. Holds(h)' /\ landing'[h] = Idle
  <2>1. landing'[h] = Idle
    BY <1>0, <1>2 DEF TypeOK
  <2>2. Idle.step = "idle" /\ Idle.reading = 0
    BY DEF Idle, At
  <2> QED
    BY <2>1, <2>2 DEF Holds
<1>9. Pledges'
  <2> SUFFICES ASSUME NEW o \in owed
               PROVE  Owes(o)'
    BY <1>2 DEF Pledges
  <2>1. Owes(o)
    BY <1>0 DEF Pledges
  <2> QED
    BY <1>2, <1>5, <2>1 DEF Owes
<1>10. HandsOK'
  <2>1. cut' \subseteq Ids' /\ owed' \subseteq Ids' \X Entry
    BY <1>0, <1>2 DEF TypeOK, Ids
  <2>2. Idle.step # "rows"
    BY DEF Idle, At
  <2> QED
    BY <1>2, <1>4, <1>7, <1>8, <1>9, <2>1, <2>2, IdleType, HandMoves
<1>11. ScreensOK' /\ ItemsOK' /\ applying' \in BOOLEAN
    BY <1>0, <1>2, <1>4, ScreensKept, ItemsKept DEF Off, TypeOK
<1> QED
    BY <1>4, <1>7, <1>10, <1>11, StepKeeps

LEMMA KilledKeeps ==
    ASSUME IInv, NEW h \in Hand, Killed(h)
    PROVE  IInv'
<1>0. TypeOK /\ Hold /\ Pledges /\ landing[h] \in Landings
    BY DEF IInv, TypeOK
<1>1. /\ landing' = [landing EXCEPT ![h] = Idle]
      /\ cut' = IF landing[h] = Idle THEN cut ELSE cut \cup {landing[h].ask}
      /\ applying' = (applying /\ h # Loop) /\ screen' = Off(h)
      /\ UNCHANGED <<items, ledger, mail, status, readings, owed>>
    BY DEF Killed
<1>2. MailStep /\ NoPageCloses /\ Grows
    BY <1>0, <1>1, NoMail, SameReadings
<1>3. landing'[h] = Idle /\ \A g \in Hand : g # h => landing'[g] = landing[g]
    BY <1>0, <1>1 DEF TypeOK
<1>4. Idle.step = "idle" /\ Idle.reading = 0 /\ Idle.ask = 0
    BY DEF Idle, At
<1>5. Holds(h)'
    BY <1>3, <1>4 DEF Holds
<1>6. landing[h] # Idle => landing[h].ask \in Ids
    BY <1>0 DEF Hold, Holds
<1>7. \A a \in Ids : Busy(a) => Busy(a)'
    BY <1>1, <1>3, <1>4 DEF Busy, Ids
<1>8. Pledges'
  <2> SUFFICES ASSUME NEW o \in owed
               PROVE  Owes(o)'
    BY <1>1 DEF Pledges
  <2>1. Owes(o)
    BY <1>0 DEF Pledges
  <2> QED
    BY <1>1, <1>3, <1>4, <2>1 DEF Owes
<1>9. HandsOK'
  <2>1. cut' \subseteq Ids' /\ owed' \subseteq Ids' \X Entry
    BY <1>0, <1>1, <1>6 DEF TypeOK, Ids
  <2> QED
    BY <1>1, <1>2, <1>4, <1>5, <1>8, <2>1, IdleType, HandMoves
<1>10. HandsStay
  <2>1. \A k \in Unlanded : readings[k].ask \in Ids
    BY <1>0 DEF TypeOK, Unlanded
  <2> QED
    BY <1>7, <2>1 DEF HandsStay
<1>11. OfPages' /\ ReadingHasItsPage' /\ ReadingsOK' /\ ScreensOK' /\ ItemsOK'
    BY <1>0, <1>1, <1>2, <1>10, AllStand, ReadingsKept, ReadingRowsKept, ScreensKept, ItemsKept DEF Off
<1>12. applying' \in BOOLEAN
    BY <1>1
<1> QED
    BY <1>2, <1>9, <1>11, <1>12, StepKeeps

-----------------------------------------------------------------------------
(***************************************************************************)
(* No loose end is left to nobody.                                         *)
(***************************************************************************)

\* A page always has rows to show.
LEMMA FirstsThere ==
    ASSUME NEW S, IsFiniteSet(S)
    PROVE  Firsts(S) # {}
<1>0. PageLimit \in Nat
    BY SeatAssumption
<1>1. PICK n \in Nat : ExistsBijection(1 .. n, S)
    BY FS_NatBijection
<1>2. Cardinality(S) = n
    BY <1>1, FS_CountingElements
<1>3. CASE n <= PageLimit
    BY <1>2, <1>3 DEF Firsts
<1>4. CASE n > PageLimit
  <2>1. PICK f : f \in Bijection(1 .. n, S)
    BY <1>1 DEF ExistsBijection
  <2>2. f \in [1 .. n -> S] /\ \A a, b \in 1 .. n : f[a] = f[b] => a = b
    BY <2>1 DEF Bijection, Injection, IsInjective
  <2> DEFINE T == {f[k] : k \in 1 .. PageLimit}
             g == [k \in 1 .. PageLimit |-> f[k]]
  <2>3. 1 .. PageLimit \subseteq 1 .. n
    BY <1>0, <1>4
  <2>4. T \in SUBSET S
    BY <2>2, <2>3
  <2>5. g \in Bijection(1 .. PageLimit, T)
    BY <2>2, <2>3 DEF Bijection, Injection, IsInjective, Surjection
  <2>6. ExistsBijection(1 .. PageLimit, T)
    BY <2>5 DEF ExistsBijection
  <2>7. Cardinality(T) = PageLimit
    BY <1>0, <2>6, FS_CountingElements
  <2> QED
    BY <2>4, <2>7 DEF Firsts
<1> QED
    BY <1>0, <1>3, <1>4

LEMMA EntriesFinite == IsFiniteSet(Entries("open"))
<1>1. IsFiniteSet({"default", "unaddressed_answer"})
  <2>1. IsFiniteSet({"default"} \cup {"unaddressed_answer"})
    BY FS_Singleton, FS_AddElement
  <2>2. {"default"} \cup {"unaddressed_answer"} = {"default", "unaddressed_answer"}
    OBVIOUS
  <2> QED
    BY <2>1, <2>2
<1>2. IsFiniteSet(Entry)
    BY <1>1, SeatAssumption, FS_Product DEF Entry, Kind
<1> QED
    BY <1>2, FS_Subset DEF Entries

\* With nothing said to a role and no page but notes, only notes are open.
LEMMA OnlyNotes ==
    ASSUME IInv, Tips = {}, Pages \subseteq Notes, Replies = {}
    PROVE  /\ Waiting = Notes
           /\ {i \in Open : Verb(i) \in {"submit", "present"}} = Notes
<1>1. \A i \in Open : mail[i].to = "principal"
    BY DEF Tips
<1>2. \A i \in Open : Addressed(i)
    BY DEF IInv, Letters, Open
<1>3. Waiting = Notes
    BY <1>1, <1>2 DEF Waiting, Replies, Notes
<1>4. \A i \in Open : Verb(i) # "submit"
    BY <1>1, <1>2 DEF Addressed
<1> QED
    BY <1>1, <1>3, <1>4 DEF Waiting, Notes

\* At a seat that shows replies the wakes find every loose end.
LEMMA LooseEndsFound ==
    ASSUME IInv, Displayed
    PROVE  LooseEndsAreCarried
<1> SUFFICES ASSUME Items("draft") \cup Items("contested") # {} \/ Entries("open") # {},
                    Tips = {}, Pages \subseteq Notes, Replies = {}
             PROVE  Wakes # {}
    BY DEF LooseEndsAreCarried
<1>1. /\ Waiting = Notes
      /\ {i \in Open : Verb(i) \in {"submit", "present"}} = Notes
    BY OnlyNotes
<1>2. CASE Items("contested") # {}
    BY <1>2 DEF Wakes, ContestedWakes
<1>3. CASE Items("draft") # {}
    BY <1>1, <1>3 DEF Wakes, SignoffWakes
<1>4. CASE Entries("open") # {}
  <2>1. PICK s : s \in Firsts(Entries("open"))
    BY EntriesFinite, FirstsThere
  <2> QED
    BY <1>1, <1>4, <2>1 DEF Wakes, AgendaWakes
<1> QED
    BY <1>2, <1>3, <1>4

-----------------------------------------------------------------------------
(***************************************************************************)
(* The theorems.                                                           *)
(***************************************************************************)

LEMMA IInvInit == Init => IInv
<1> SUFFICES ASSUME Init
             PROVE  IInv
    OBVIOUS
<1>1. /\ <<>> \in Seq(Messages) /\ <<>> \in Seq(Standing) /\ <<>> \in Seq(ReadingRow)
      /\ Len(<<>>) = 0 /\ DOMAIN <<>> = {}
    OBVIOUS
<1>2. MaxVersion \in Nat /\ MaxMail \in Nat /\ 0 \in 0 .. MaxVersion
    BY SeatAssumption
<1>3. version = [i \in Item |-> 0] /\ approvedAt = version
    BY DEF Init
<1>4. version \in [Item -> 0 .. MaxVersion] /\ \A i \in Item : approvedAt[i] <= version[i]
    BY <1>2, <1>3
<1>b. /\ landing = [h \in Hand |-> Idle] /\ cut = {} /\ owed = {}
      /\ Idle.step = "idle" /\ Idle.reading = 0
    BY DEF Init, Idle, At
<1>c. landing \in [Hand -> Landings] /\ \A h \in Hand : landing[h] = Idle
    BY <1>b, IdleType
<1>5. screen = [c \in Console |-> Nothing] /\ Nothing.ask = 0
    BY DEF Init, Nothing
<1>6. screen \in [Console -> Screens] /\ \A c \in Console : screen[c].ask = 0
    BY <1>5, NothingType
<1>7. Ids = {} /\ DOMAIN readings = {} /\ Unlanded = {}
    BY <1>1 DEF Init, Ids, Unlanded
<1>8. /\ approval \in [Item -> {"draft", "approved", "contested"}]
      /\ ledger \in [Entry -> {"none", "open", "resolved"}]
    BY DEF Init
<1>9. /\ mail \in Seq(Messages) /\ status \in Seq({"open", "answered"})
      /\ Len(status) = Len(mail) /\ Len(mail) <= MaxMail
      /\ readings \in Seq(ReadingRow) /\ applying \in BOOLEAN
  <2>1. mail = <<>> /\ status = <<>> /\ readings = <<>> /\ applying = FALSE
    BY DEF Init
  <2>2. Len(status) = 0 /\ Len(mail) = 0 /\ 0 <= MaxMail
    BY <1>1, <1>2, <2>1
  <2>3. mail \in Seq(Messages) /\ status \in Seq({"open", "answered"}) /\ readings \in Seq(ReadingRow)
    BY <1>1, <2>1 DEF Standing
  <2> QED
    BY <2>1, <2>2, <2>3
<1>10. TypeOK
    BY <1>3, <1>4, <1>6, <1>7, <1>8, <1>9, <1>b, <1>c DEF TypeOK
<1>11. Hold /\ Alone /\ Pledges
    BY <1>b, <1>c DEF Hold, Holds, Alone, Pledges
<1> QED
    BY <1>7, <1>10, <1>11 DEF IInv, Letters, Closes, OfPages, OneVerdict, ReadingHasItsPage

LEMMA IInvStutter ==
    ASSUME IInv, UNCHANGED vars
    PROVE  IInv'
<1>0. TypeOK
    BY DEF IInv
<1>1. UNCHANGED <<items, ledger, mail, status, readings, applying, landing, cut, owed, screen>>
    BY DEF vars, items
<1> QED
    BY <1>0, <1>1, NoMail, ItemsKept, PlainStep DEF HandsIdle

LEMMA IInvNext ==
    ASSUME IInv, [Next]_vars
    PROVE  IInv'
<1>1. CASE Liaison
  <2>1. CASE \E i \in Tips : Presents(i) \/ AsksBack(i) \/ Reads(i)
    BY <2>1, PresentsKeeps, AsksBackKeeps, ReadsKeeps
  <2>2. CASE \E i \in Tips : Answers(i) \/ Relays(i) \/ Clarify(i)
    BY <2>2, AnswersKeeps, RelaysKeeps, ClarifyKeeps
  <2>3. CASE \E i \in Tips : Quiet(i)
    BY <2>3, TipWakes, QuietStep
  <2>4. CASE \E w \in Wakes : PresentsWake(w)
    BY <2>4, PresentsWakeKeeps
  <2> QED
    BY <1>1, <2>1, <2>2, <2>3, <2>4 DEF Liaison
<1>2. CASE VisionKeeper
  <2>1. CASE \E i \in Item : Delivered(i)
    BY <2>1, DeliveredKeeps
  <2>2. CASE \E w \in Wakes : Submits(w) \/ Amends(w) \/ Defends(w)
    BY <2>2, SubmitsKeeps, AmendsKeeps, DefendsKeeps
  <2>3. CASE \E i \in Tips : Applies(i)
    BY <2>3, AppliesKeeps
  <2> QED
    BY <1>2, <2>1, <2>2, <2>3 DEF VisionKeeper
<1>3. CASE ApplyRuling
    BY <1>3, ApplyRulingKeeps
<1>4. CASE \E h \in Hand : Landing(h)
    BY <1>4, ClosesEntryKeeps, WritesItemKeeps, SendsVerdictKeeps, DoneKeeps, KilledKeeps DEF Landing
<1>5. CASE ShowReplies
    BY <1>5, ShowRepliesKeeps
<1>6. CASE \E c \in Console : AtConsole(c)
    BY <1>6, ShowKeeps, SayKeeps, ClarifiesKeeps, SignKeeps DEF AtConsole
<1>7. CASE UNCHANGED vars
    BY <1>7, IInvStutter
<1> QED
    BY <1>1, <1>2, <1>3, <1>4, <1>5, <1>6, <1>7 DEF Next

\* Everything the invariant says holds of every state: who was asked what, that
\* a verdict has answered its page and that a reading is of a page.
THEOREM SeatInvariant == Spec => []IInv
<1> QED
    BY IInvInit, IInvNext, PTL DEF Spec

\* Rows stay well formed, every id names a message, and no approval is of a
\* version yet to come.
THEOREM TypeCorrect == Spec => []TypeOK
<1>1. IInv => TypeOK
    BY DEF IInv
<1> QED
    BY <1>1, SeatInvariant, PTL

\* principal.land: a page is ruled on once, however many consoles, command lines
\* and readings rule on it and in whatever order they arrive.
THEOREM RuledOnOnce == Spec => []OneVerdict
<1>1. IInv => OneVerdict
    BY DEF IInv
<1> QED
    BY <1>1, SeatInvariant, PTL

\* principal.apply_rulings: what a killed process left unlanded can still land, or
\* another ruling of the same page came first, and is landing, landed or was cut.
THEOREM ReadingsCanLand == Spec => []ReadingHasItsPage
<1>1. IInv => ReadingHasItsPage
    BY DEF IInv
<1> QED
    BY <1>1, SeatInvariant, PTL

\* principal.land: an assumption overruled on a page has its item contested before
\* the verdict goes out, whatever the page's own line about the item was given and
\* whoever else lands meanwhile, unless its landing was cut.
THEOREM OverrulingCounts == Spec => []OverruledContests
<1>1. IInv => OverruledContests
    BY DEF IInv, Pledges, Owes, OverruledContests
<1> QED
    BY <1>1, SeatInvariant, PTL

\* scheduler.step: where the seat shows what it is told, every draft, contested
\* item and open assumption is on its way, offered to a role, or on a page that
\* waits.  At a command line, which shows no reply, it is not so.
THEOREM LooseEndsCarried == Displayed => (Spec => []LooseEndsAreCarried)
<1>1. IInv /\ Displayed => LooseEndsAreCarried
    BY LooseEndsFound
<1>2. CASE Displayed
  <2>1. IInv => LooseEndsAreCarried
    BY <1>1, <1>2
  <2> QED
    BY <2>1, SeatInvariant, PTL
<1> QED
    BY <1>2
=============================================================================
