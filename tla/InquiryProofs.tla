--------------------------- MODULE InquiryProofs ----------------------------
(***************************************************************************)
(* Theorems about Inquiry, for every set of roles, owners and starters and *)
(* every bound.  What a session can send is bounded by what its mode       *)
(* offers, what it does to the statuses by the blocks of session_commit;   *)
(* from the two follow how a thread grows and what an open message means.  *)
(***************************************************************************)
EXTENDS Inquiry, WellFoundedInduction, TLAPS

Standing == {"open", "answered", "unresolved", "quarantined"}
Asking   == {"question", "ask", "challenge"}

-----------------------------------------------------------------------------
(***************************************************************************)
(* The inductive invariant.                                                *)
(***************************************************************************)

\* The principal's own words: what opens a thread of theirs.
IsRoot(r) == r \in Ids /\ Verb(r) = "converse" /\ Cause(r) = 0 /\ mail[r].to = "liaison"

\* A message is in its cause's thread, or is a thread.
InItsThread(i) ==
    /\ Cause(i) # 0 => Thread(i) = Thread(Cause(i))
    /\ Cause(i) = 0 => Thread(i) = i
    /\ Thread(Thread(i)) = Thread(i)

\* Who sends what to whom, and about what.
WellSent(i) ==
    /\ Verb(i) = "converse" /\ mail[i].to # "principal"
          => mail[i].to = "liaison" /\ (Cause(i) # 0 => Verb(Cause(i)) = "clarify")
    /\ Verb(i) = "ask" => From(i) = "liaison" /\ mail[i].to \in Role /\ IsRoot(Cause(i))
    /\ Verb(i) = "confirm" => IsRoot(Cause(i))
    /\ Verb(i) = "verdict" => Cause(i) # 0 /\ Verb(Cause(i)) \in {"confirm", "present"}
    /\ Verb(i) = "deliver" => /\ From(i) = "liaison" /\ Cause(i) # 0 /\ Cause(Cause(i)) # 0
                             /\ Verb(Cause(Cause(i))) = "confirm"
    /\ Verb(i) \in {"question", "challenge"} => From(i) # "liaison" /\ mail[i].to \in Role
    /\ Verb(i) = "answer" /\ RepliesToAsk(i) => mail[i].to = "liaison"
    /\ Verb(i) = "submit" => mail[i].to = "liaison"

\* Words not taken up yet are alone in their thread.
AloneWhileOpen(r) == IsRoot(r) /\ status[r] = "open" => In(r) = {r}

\* The same words are passed on or confirmed, never both.
OneTurn == \A a, c \in Ids : Verb(a) = "ask" /\ Verb(c) = "confirm" => Cause(a) # Cause(c)

\* What a reply to an inquiry was composed of is answered.
IsReply(i) ==
    From(i) = "liaison" /\ Verb(i) = "converse" /\ Cause(i) # 0 /\ RepliesToAsk(Cause(i))
Spent(i) ==
    IsReply(i) => \A a \in In(Thread(i)) :
                     a < i /\ Verb(a) = "answer" /\ RepliesToAsk(a) => status[a] # "open"

\* The Liaison has spoken to the principal after q, in its thread.
CameBack(q) ==
    \E j \in In(Thread(q)) : j > q /\ From(j) = "liaison" /\ mail[j].to = "principal"

\* Until then the thread of an ask holds the words, asks, and what they got.
OfAnInquiry(m) ==
    \/ Verb(m) = "ask" \/ Verb(m) = "submit"
    \/ Verb(m) \in {"answer", "report"} /\ RepliesToAsk(m)
Kept(q) ==
    Verb(q) = "ask" =>
        CameBack(q) \/ \A m \in In(Thread(q)) : m = Thread(q) \/ OfAnInquiry(m)

\* What a thread of an ask still waits for.
Awaited(x) ==
    \/ Verb(x) = "ask" /\ status[x] \in {"open", "unresolved"}
    \/ Verb(x) = "answer" /\ RepliesToAsk(x) /\ status[x] = "open"
    \/ Verb(x) = "submit" /\ status[x] = "open"
Pursued(q) ==
    Verb(q) = "ask" =>
        \/ Thread(q) \in quiet \/ CameBack(q) \/ \E x \in In(Thread(q)) : Awaited(x)

\* A wake that was given up has left its thread quiet.
GivenUp == \A w \in gone : w.src \in Ids /\ Thread(w.src) \in quiet

\* What else is true of a message by who sends it, and of a challenge left
\* without an answer: the session had nothing to say.
Workers == {"developer", "tester"}
Trade(i) ==
    /\ From(i) \in Workers => Verb(i) = "question"
    /\ Verb(i) = "answer" => Cause(i) # 0 /\ mail[i].to = From(Cause(i))
    /\ mail[i].to \in Role \cup Person
    /\ mail[i].to = "principal" => From(i) = "liaison"
    /\ Verb(i) \in {"clarify", "present"} => mail[i].to = "principal"
    /\ Verb(i) = "verdict" => mail[i].to = "liaison"
    /\ Verb(i) \in {"question", "challenge"}
          => IsRound(Thread(i)) \/ From(Thread(i)) \in Workers
    /\ Verb(i) = "challenge" /\ status[i] = "unresolved" => Thread(i) \in quiet

\* The thread a worker opened: one message of it is open at a time, and once the
\* Liaison has spoken in it what is left is between the Liaison and the principal.
Errand(t) == Thread(t) = t /\ From(t) \in Workers
Spoke(t)  == \E i \in In(t) : From(i) = "liaison"
Late      == {"clarify", "present", "converse", "verdict", "relay"}
Handed(t) == \A i \in In(t) : status[i] # "unresolved" /\ (status[i] = "open" => Verb(i) \in Late)
Tended(t) ==
    Errand(t) /\ t \notin quiet =>
        /\ \A i, j \in In(t) : status[i] = "open" /\ status[j] = "open" => i = j
        /\ Spoke(t) => Handed(t)

Trades  == \A i \in Ids : Trade(i)
Errands == \A t \in Ids : Tended(t)

Shape   == \A i \in Ids : InItsThread(i) /\ WellSent(i) /\ AloneWhileOpen(i)
Inquest == \A q \in Ids : Kept(q) /\ Pursued(q)
AllSpent == \A i \in Ids : Spent(i)

IInv ==
    /\ TypeOK /\ Shape /\ OneTurn /\ AllSpent /\ Inquest /\ GivenUp
    /\ EachReplyIsNew /\ RoundIsOneQuestion /\ Trades /\ Errands

-----------------------------------------------------------------------------
(***************************************************************************)
(* What the modes offer.                                                   *)
(***************************************************************************)

\* No mode offers a question of the Liaison's, its fan-out, or words to a role.
GrantOK(g) ==
    /\ g[1] \in Roles /\ g[3] \in Verbs /\ g[4] \in Roles \cup Person
    /\ g[3] \notin {"ask", "deliver", "verdict"}
    /\ g[3] = "converse" => g[1] = "liaison" /\ g[4] = "principal"
    /\ g[3] \in {"question", "challenge"} => g[1] # "liaison"
    /\ g[2] = "ask" => g[3] \in {"answer", "report"}

LEMMA LiaisonGrants == \A g \in LiaisonGrant : GrantOK(g)
    BY DEF LiaisonGrant, GrantOK, Roles, Verbs, Person, Held

LEMMA OwnerGrants == \A g \in OwnerGrant : GrantOK(g)
    BY DEF OwnerGrant, GrantOK, Roles, Verbs, Person, Held, Up

LEMMA WorkerGrants == \A g \in WorkerGrant : GrantOK(g)
    BY DEF WorkerGrant, GrantOK, Roles, Verbs, Person, Held

LEMMA Grants == \A g \in Grant : GrantOK(g)
    BY LiaisonGrants, OwnerGrants, WorkerGrants DEF Grant

\* Which mode a message of the Liaison's to the principal, or a question, is from.
ModeOK(g) ==
    /\ g[3] = "confirm"  => g[1] = "liaison" /\ g[2] = "converse"
    /\ g[3] = "converse" => g[2] \in {"converse", "answer"}
    /\ g[3] = "clarify"  => g[1] = "liaison" /\ g[2] \in {"converse", "unresolved", "report", "round_close"}
    /\ g[3] = "submit"   => g[4] = "liaison" /\ g[2] \in {"answer", "unresolved"}
    /\ g[3] = "question" => g[4] \in Roles
    /\ g[3] = "challenge" => g[4] \in Roles
    /\ g[2] = "unresolved" /\ g[1] = "liaison" => g[4] = "principal"
    /\ g[2] = "unresolved" /\ g[1] # "liaison" => g[3] \in {"answer", "report", "submit"}
    /\ g[1] = "liaison" /\ g[2] \in {"answer", "submit"} => g[4] = "principal"

LEMMA LiaisonModes == \A g \in LiaisonGrant : ModeOK(g)
    BY DEF LiaisonGrant, ModeOK, Roles, Person, Held

LEMMA OwnerModes == \A g \in OwnerGrant : ModeOK(g)
    BY DEF OwnerGrant, ModeOK, Roles, Person, Held, Up

LEMMA WorkerModes == \A g \in WorkerGrant : ModeOK(g)
    BY DEF WorkerGrant, ModeOK, Roles, Person, Held

LEMMA Modes == \A g \in Grant : ModeOK(g)
    BY LiaisonModes, OwnerModes, WorkerModes DEF Grant

\* What the workers' modes offer, and what only the Liaison's do.
TradeOK(g) ==
    /\ g[1] \in Workers => g[3] = "question"
    /\ g[2] \in {"batch_start", "tests_missing"} => g[1] \in Workers
    /\ g[3] \in {"clarify", "present"} => g[4] = "principal"
    /\ g[4] = "principal" => g[1] = "liaison"
    /\ g[3] = "question" => g[2] = "deliver" \/ g[1] \in Workers
    /\ g[1] \in Workers => g[2] \in {"batch_start", "tests_missing", "answer"}
    /\ g[3] = "challenge" => g[2] \in {"deliver", "criterion_repair"}
    /\ g[1] = "liaison" => g[3] \in Late \cup {"confirm"}
    /\ g[2] # "relay"

LEMMA LiaisonTrades == \A g \in LiaisonGrant : TradeOK(g)
    BY DEF LiaisonGrant, TradeOK, Workers, Person, Held, Late

LEMMA OwnerTrades == \A g \in OwnerGrant : TradeOK(g)
    BY DEF OwnerGrant, TradeOK, Workers, Person, Held, Up, Late

\* A researcher answers, and is no worker.
LEMMA WorkerTrades == \A g \in WorkerGrant : g[1] \in {"developer", "tester", "researcher"} /\ TradeOK(g)
    BY DEF WorkerGrant, TradeOK, Workers, Person, Held, Late

LEMMA TradeGrants == \A g \in Grant : TradeOK(g)
    BY LiaisonTrades, OwnerTrades, WorkerTrades DEF Grant

-----------------------------------------------------------------------------
(***************************************************************************)
(* What wakes a session: a message, or a tick.                             *)
(***************************************************************************)
OfMessage(w) ==
    /\ ~IsTick(w) /\ w.src \in Tips /\ w.role = mail[w.src].to /\ w.mode = ModeOf(w.src)
OfTick(w) ==
    /\ IsTick(w) /\ w.role \in Role
    /\ \/ w \in Climbs /\ w.mode = "unresolved"
       \/ w \in Repairs /\ w.mode = "criterion_repair"
       \/ w \in Harvests /\ w.mode = "round_close"
       \/ w \in Starts /\ w.mode \in {"batch_start", "tests_missing"} /\ w.src = 0

LEMMA RowType ==
    ASSUME TypeOK, NEW i \in Ids
    PROVE  /\ i \in Nat /\ i # 0 /\ mail[i] \in Messages
           /\ From(i) \in Roles \cup Person /\ Verb(i) \in Verbs /\ mail[i].to \in Roles \cup Person
           /\ Cause(i) \in Nat /\ Cause(i) < i /\ (Cause(i) # 0 => Cause(i) \in Ids)
           /\ Thread(i) \in Ids /\ Thread(i) <= i
<1>1. i \in Nat /\ i # 0 /\ mail[i] \in Messages
    BY DEF TypeOK, Ids
<1>2. Cause(i) < i /\ Thread(i) \in 1 .. i
    BY DEF TypeOK
<1>3. From(i) \in Roles \cup Person /\ Verb(i) \in Verbs /\ mail[i].to \in Roles \cup Person /\ Cause(i) \in Nat
    BY <1>1 DEF Messages, From, Verb, Cause
<1>4. Len(mail) \in Nat
    BY DEF TypeOK
<1> QED
    BY <1>1, <1>2, <1>3, <1>4 DEF Ids

LEMMA WakeKinds ==
    ASSUME TypeOK, NEW w \in Frontier
    PROVE  OfMessage(w) \/ OfTick(w)
<1>1. CASE Tips # {}
  <2>1. PICK i \in Tips : w = Wake(mail[i].to, ModeOf(i), i)
    BY <1>1 DEF Frontier
  <2>2. i \in Ids
    BY <2>1 DEF Tips, Is
  <2>3. Verb(i) \in Verbs
    BY <2>2, RowType
  <2>4. ModeOf(i) \in Verbs \cup {"verdict_signoff", "answering"}
    BY <2>3 DEF ModeOf
  <2>5. w.role = mail[i].to /\ w.mode = ModeOf(i) /\ w.src = i
    BY <2>1 DEF Wake
  <2>6. ~IsTick(w)
    BY <2>4, <2>5 DEF IsTick, Verbs
  <2> QED
    BY <2>1, <2>5, <2>6 DEF OfMessage
<1>2. CASE Tips = {}
  <2>1. w \in Climbs \cup Repairs \cup Harvests \cup Starts /\ w.role \in Role
    BY <1>2 DEF Frontier, Offered
  <2>2. w \in Climbs => w.mode = "unresolved"
    BY DEF Climbs, Wake
  <2>3. w \in Repairs => w.mode = "criterion_repair"
    BY DEF Repairs, Wake
  <2>4. w \in Harvests => w.mode = "round_close"
    BY DEF Harvests, Wake
  <2>5. w \in Starts => w.mode \in {"batch_start", "tests_missing"} /\ w.src = 0
    BY InquiryAssumption DEF Starts, Wake
  <2> QED
    BY <2>1, <2>2, <2>3, <2>4, <2>5 DEF OfTick, IsTick
<1> QED
    BY <1>1, <1>2

\* What a tick is about: a question nobody could answer, a round, or nothing.
LEMMA TickSources ==
    ASSUME TypeOK, NEW w, OfTick(w)
    PROVE  /\ w.mode = "unresolved" =>
                /\ w.src \in Is("unresolved") /\ w.role \in NextRung(w.src) /\ w.src \in Ids
           /\ w.mode = "criterion_repair" =>
                /\ w.src \in Is("unresolved") /\ w.src \in Ids /\ From(w.src) = "tester"
           /\ w.mode = "round_close" =>
                /\ w.src \in Ids /\ IsRound(w.src) /\ ~Harvested(w.src)
           /\ w.mode \in {"batch_start", "tests_missing"} => w.src = 0
           /\ w.mode \in {"unresolved", "criterion_repair", "round_close", "batch_start", "tests_missing"}
<1>1. CASE w \in Climbs /\ w.mode = "unresolved"
    BY <1>1 DEF Climbs, Wake, Is
<1>2. CASE w \in Repairs /\ w.mode = "criterion_repair"
    BY <1>2 DEF Repairs, Wake, Is, Ceded
<1>3. CASE w \in Harvests /\ w.mode = "round_close"
    BY <1>3 DEF Harvests, Wake
<1>4. CASE w \in Starts /\ w.mode \in {"batch_start", "tests_missing"} /\ w.src = 0
    BY <1>4
<1> QED
    BY <1>1, <1>2, <1>3, <1>4 DEF OfTick

LEMMA SourceKnown ==
    ASSUME TypeOK, NEW w \in Frontier
    PROVE  w.src \in Ids \/ w.src = 0
<1>1. CASE OfMessage(w)
    BY <1>1 DEF OfMessage, Tips, Is
<1>2. CASE OfTick(w)
    BY <1>2, TickSources
<1> QED
    BY <1>1, <1>2, WakeKinds

\* A question that has nobody is one of those that ask for something.
LEMMA UnresolvedAsks ==
    ASSUME TypeOK, NEW q \in Is("unresolved")
    PROVE  Verb(q) \in Asking
    BY DEF TypeOK, Asking

-----------------------------------------------------------------------------
(***************************************************************************)
(* What a session sends.                                                   *)
(***************************************************************************)

\* One message of its mode's, or a fan-out of one kind to the owners.
SentOne(w, out) ==
    /\ Len(out) = 1 /\ <<w.role, w.mode, out[1].verb, out[1].to>> \in Grant
    /\ out[1].to \in Role \cup Person
    /\ out[1].verb = "answer" /\ w.src # 0 => out[1].to = From(w.src)
SentAll(w, out, verb) ==
    /\ w.role = "liaison" /\ Len(out) = Len(Owners)
    /\ \A k \in DOMAIN out : out[k].verb = verb /\ out[k].to \in Role \ {"liaison"}
Outgoing(w, out) ==
    /\ out \in Seq(Messages)
    /\ \A k \in DOMAIN out : /\ out[k].from = w.role /\ out[k].cause = w.src
                              /\ out[k].thread = ThreadOf(w.src, Len(mail) + k)
    /\ \/ out = <<>>
       \/ SentOne(w, out)
       \/ w.mode = "converse" /\ SentAll(w, out, "ask")
       \/ w.mode = "verdict" /\ SentAll(w, out, "deliver")

LEMMA MessageType ==
    ASSUME TypeOK, NEW src, src \in Ids \/ src = 0, NEW from \in Roles \cup Person, NEW verb \in Verbs,
           NEW to \in Roles \cup Person, NEW about \in {"other", "criterion", "settled"}, NEW id \in Nat
    PROVE  Message(from, verb, to, about, src, id) \in Messages
<1>1. src \in Nat /\ ThreadOf(src, id) \in Nat
    BY RowType DEF ThreadOf, Ids
<1> QED
    BY <1>1 DEF Message, Messages

LEMMA SingleOut ==
    ASSUME TypeOK, NEW w \in Frontier, NEW out \in Single(w)
    PROVE  Outgoing(w, out)
<1>1. PICK g \in {h \in Grant : h[1] = w.role /\ h[2] = w.mode} :
         out \in {<<Message(w.role, g[3], g[4], a, w.src, Len(mail) + 1)>> :
                      a \in {b \in Subjects(w, g[3]) : Allowed(w, g[3], g[4], b)}}
    BY DEF Single
<1>2. PICK a \in Subjects(w, g[3]) :
         /\ Allowed(w, g[3], g[4], a)
         /\ out = <<Message(w.role, g[3], g[4], a, w.src, Len(mail) + 1)>>
    BY <1>1
<1>3. g \in Grant /\ g[1] = w.role /\ g[2] = w.mode
    BY <1>1
<1>4. w.role \in Roles /\ g[3] \in Verbs /\ g[4] \in Roles \cup Person
    BY <1>3, Grants DEF GrantOK
<1>5. g = <<w.role, w.mode, g[3], g[4]>>
    BY <1>3 DEF Grant, LiaisonGrant, OwnerGrant, WorkerGrant
<1>6. a \in {"other", "criterion", "settled"}
    BY <1>2 DEF Subjects
<1>7. Len(mail) + 1 \in Nat
    BY DEF TypeOK
<1> DEFINE m == Message(w.role, g[3], g[4], a, w.src, Len(mail) + 1)
<1>8. m \in Messages
    BY <1>4, <1>6, <1>7, SourceKnown, MessageType
<1>9. /\ m.from = w.role /\ m.cause = w.src /\ m.verb = g[3] /\ m.to = g[4]
      /\ m.thread = ThreadOf(w.src, Len(mail) + 1)
    BY DEF Message
<1>10. out = <<m>>
    BY <1>2
<1> HIDE DEF m
<1>11. out \in Seq(Messages) /\ Len(out) = 1 /\ DOMAIN out = {1} /\ out[1] = m
    BY <1>8, <1>10
<1>12. /\ m.to \in Role \cup Person
       /\ m.verb = "answer" /\ w.src # 0 => m.to = From(w.src)
    BY <1>2, <1>9 DEF Allowed
<1>13. SentOne(w, out)
    BY <1>3, <1>5, <1>9, <1>11, <1>12 DEF SentOne
<1> QED
    BY <1>9, <1>11, <1>13 DEF Outgoing

LEMMA BroadcastOut ==
    ASSUME TypeOK, NEW w \in Frontier, NEW out \in Broadcast(w)
    PROVE  Outgoing(w, out)
<1>1. PICK verb \in {"ask", "deliver"} :
        /\ out = [k \in 1 .. Len(Owners) |->
                     Message("liaison", verb, Owners[k], "other", w.src, Len(mail) + k)]
        /\ w.role = "liaison"
        /\ (w.mode = "converse" /\ verb = "ask") \/ (w.mode = "verdict" /\ verb = "deliver")
    BY DEF Broadcast
<1>2. Owners \in Seq(Role \ {"liaison"}) /\ Role \subseteq Roles /\ Len(Owners) \in Nat
    BY InquiryAssumption
<1>3. Len(mail) \in Nat
    BY DEF TypeOK
<1>4. ASSUME NEW k \in 1 .. Len(Owners)
      PROVE  /\ out[k] \in Messages
             /\ out[k].from = w.role /\ out[k].cause = w.src /\ out[k].verb = verb
             /\ out[k].to \in Role \ {"liaison"}
             /\ out[k].thread = ThreadOf(w.src, Len(mail) + k)
  <2>1. Owners[k] \in Role \ {"liaison"} /\ Owners[k] \in Roles
    BY <1>2
  <2>2. Len(mail) + k \in Nat
    BY <1>3
  <2>3. out[k] = Message("liaison", verb, Owners[k], "other", w.src, Len(mail) + k)
    BY <1>1
  <2>4. "liaison" \in Roles /\ verb \in Verbs
    BY DEF Roles, Verbs
  <2>5. out[k] \in Messages
    BY <2>1, <2>2, <2>3, <2>4, SourceKnown, MessageType
  <2> QED
    BY <1>1, <2>1, <2>3, <2>5 DEF Message
<1>5. out \in [1 .. Len(Owners) -> Messages]
    BY <1>1, <1>4
<1>6. out \in Seq(Messages) /\ Len(out) = Len(Owners) /\ DOMAIN out = 1 .. Len(Owners)
    BY <1>2, <1>5
<1> QED
    BY <1>1, <1>4, <1>6 DEF Outgoing, SentAll

LEMMA OutgoingForms ==
    ASSUME TypeOK, NEW w \in Frontier, NEW out \in Outbound(w)
    PROVE  Outgoing(w, out)
<1>1. CASE out = <<>>
  <2>1. <<>> \in Seq(Messages) /\ DOMAIN <<>> = {}
    OBVIOUS
  <2> QED
    BY <1>1, <2>1 DEF Outgoing
<1> QED
    BY <1>1, SingleOut, BroadcastOut DEF Outbound

-----------------------------------------------------------------------------
(***************************************************************************)
(* What a commit leaves of the statuses.                                   *)
(***************************************************************************)

\* A block of session_commit changes the rows it is about, and no other.
LEMMA WhereIs ==
    ASSUME NEW N \in Nat, NEW s \in [1 .. N -> Standing], NEW which, NEW v \in Standing
    PROVE  /\ Where(s, which, v) \in [1 .. N -> Standing]
           /\ \A i \in 1 .. N : Where(s, which, v)[i] = IF i \in which THEN v ELSE s[i]
    BY DEF Where

\* A column with more appended.
LEMMA Appended ==
    ASSUME NEW N \in Nat, NEW M \in Nat, NEW a \in [1 .. N -> Standing],
           NEW b \in Seq(Standing), Len(b) = M
    PROVE  /\ a \o b \in [1 .. N + M -> Standing]
           /\ \A i \in 1 .. N : (a \o b)[i] = a[i]
           /\ \A i \in (1 .. N + M) \ (1 .. N) : (a \o b)[i] = b[i - N] /\ i - N \in 1 .. M
<1>1. a \in Seq(Standing) /\ DOMAIN a = 1 .. N
    OBVIOUS
<1>2. Len(a) = N
    BY <1>1
<1>3. a \o b \in [1 .. N + M -> Standing]
  <2>1. a \o b \in Seq(Standing) /\ Len(a \o b) = N + M
    BY <1>1, <1>2
  <2> DEFINE c == a \o b
  <2> HIDE DEF c
  <2>2. c \in Seq(Standing) => c \in [1 .. Len(c) -> Standing]
    OBVIOUS
  <2> QED
    BY <2>1, <2>2 DEF c
<1>4. \A i \in 1 .. N : (a \o b)[i] = a[i]
    BY <1>1, <1>2
<1>5. \A i \in (1 .. N + M) \ (1 .. N) : (a \o b)[i] = b[i - N] /\ i - N \in 1 .. M
    BY <1>1, <1>2
<1> QED
    BY <1>3, <1>4, <1>5

LEMMA StagedIs ==
    ASSUME TypeOK, NEW w, NEW out \in Seq(Messages), NEW reask \in BOOLEAN
    PROVE  /\ Staged(w, out, reask) \in [1 .. Len(mail) + Len(out) -> Standing]
           /\ \A i \in Ids : Staged(w, out, reask)[i]
                 = IF reask /\ i = Cause(w.src) THEN "unresolved" ELSE status[i]
           /\ \A i \in (1 .. Len(mail) + Len(out)) \ Ids : Staged(w, out, reask)[i] = "open"
<1> DEFINE which == IF reask THEN {Cause(w.src)} ELSE {}
           a == Where(status, which, "unresolved")
           b == [k \in DOMAIN out |-> "open"]
<1>1. Len(mail) \in Nat /\ status \in [1 .. Len(mail) -> Standing]
    BY DEF TypeOK, Standing
<1>2. /\ a \in [1 .. Len(mail) -> Standing]
      /\ \A i \in 1 .. Len(mail) : a[i] = IF i \in which THEN "unresolved" ELSE status[i]
  <2>1. "unresolved" \in Standing
    BY DEF Standing
  <2> HIDE DEF which
  <2> QED
    BY <1>1, <2>1, WhereIs
<1>3. \A i : i \in which <=> (reask /\ i = Cause(w.src))
    OBVIOUS
<1>4. b \in Seq(Standing) /\ Len(b) = Len(out) /\ Len(out) \in Nat /\ \A k \in 1 .. Len(out) : b[k] = "open"
    BY DEF Standing
<1>5. Staged(w, out, reask) = a \o b
    BY DEF Staged
<1> HIDE DEF a, b, which
<1>6. /\ a \o b \in [1 .. Len(mail) + Len(out) -> Standing]
      /\ \A i \in 1 .. Len(mail) : (a \o b)[i] = a[i]
      /\ \A i \in (1 .. Len(mail) + Len(out)) \ (1 .. Len(mail)) :
            (a \o b)[i] = b[i - Len(mail)] /\ i - Len(mail) \in 1 .. Len(out)
    BY <1>1, <1>2, <1>4, Appended, Zenon
<1> QED
    BY <1>2, <1>3, <1>4, <1>5, <1>6 DEF Ids

\* What a session may do to the statuses.
CommitOK(w, out, reask, s) ==
    /\ s \in [1 .. Len(mail) + Len(out) -> Standing]
    /\ \A i \in (1 .. Len(mail) + Len(out)) \ Ids : s[i] = "open"
    /\ \A i \in Ids : /\ s[i] = "open" => status[i] = "open"
                      /\ s[i] = "unresolved" => Verb(i) \in Asking
                      /\ (w.src = 0 \/ Thread(i) # Thread(w.src)) => s[i] = status[i]
    /\ ~IsTick(w) => s[w.src] # "open"
    /\ ~IsTick(w) /\ RepliesToAsk(w.src) =>
          \A i \in In(Thread(w.src)) : Verb(i) = "answer" /\ RepliesToAsk(i) => s[i] # "open"
    /\ reask /\ out = <<>> => s[Cause(w.src)] = "unresolved"
    /\ w.src # 0 /\ Verb(w.src) = "ask" /\ (\E k \in DOMAIN out : out[k].verb = "report")
          => s[w.src] = "unresolved"

\* What is left without an answer: what was and nobody else has spoken of, what
\* was declared so, and what a session that did nothing was woken for.
CommitLeaves(w, out, reask, wall, s) ==
    \A i \in Ids : s[i] = "unresolved" =>
        \/ status[i] = "unresolved" /\ (From(i) = w.role \/ Thread(i) \notin Threads(out))
        \/ (reask \/ wall) /\ i = Cause(w.src)
        \/ i = w.src /\ Verb(i) = "challenge" /\ out = <<>> /\ ~reask
        \/ i = w.src /\ Verb(i) = "ask"

\* The message it declares unanswered is one that asks for something.
LEMMA ReaskCause ==
    ASSUME TypeOK, Shape, NEW w \in Frontier, CanReask(w)
    PROVE  /\ ~IsTick(w) /\ w.src \in Ids /\ Cause(w.src) \in Ids
           /\ Verb(Cause(w.src)) \in Asking /\ Thread(Cause(w.src)) = Thread(w.src)
           /\ Verb(w.src) = "answer" /\ Cause(w.src) # w.src
<1>1. w.mode = "answer" /\ Cause(w.src) # 0 /\ Verb(Cause(w.src)) \in {"question", "ask"}
    BY DEF CanReask, MayReask
<1>2. ~IsTick(w)
    BY <1>1 DEF IsTick
<1>3. OfMessage(w)
    BY <1>2, WakeKinds DEF OfTick
<1>4. w.src \in Ids
    BY <1>3 DEF OfMessage, Tips, Is
<1>5. ModeOf(w.src) = "answer"
    BY <1>1, <1>3 DEF OfMessage
<1>6. Verb(w.src) = "answer"
    BY <1>5 DEF ModeOf
<1>7. Cause(w.src) \in Ids /\ Cause(w.src) < w.src /\ w.src \in Nat /\ Cause(w.src) \in Nat
    BY <1>1, <1>4, RowType
<1>8. Thread(w.src) = Thread(Cause(w.src))
    BY <1>1, <1>4 DEF Shape, InItsThread
<1> QED
    BY <1>1, <1>2, <1>4, <1>6, <1>7, <1>8 DEF Asking

\* Only the thread it was woken in, or threads of its own, are spoken in.
LEMMA SpokenThreads ==
    ASSUME TypeOK, NEW w \in Frontier, NEW out, Outgoing(w, out), NEW i \in Ids,
           w.src = 0 \/ Thread(i) # Thread(w.src)
    PROVE  Thread(i) \notin Threads(out)
<1>1. \A k \in DOMAIN out : out[k].thread = ThreadOf(w.src, Len(mail) + k) /\ k \in Nat /\ k # 0
    BY DEF Outgoing
<1>2. Thread(i) \in Nat /\ Thread(i) <= Len(mail) /\ Len(mail) \in Nat
    BY RowType DEF TypeOK, Ids
<1>3. CASE w.src = 0
  <2>1. \A k \in DOMAIN out : out[k].thread = Len(mail) + k
    BY <1>1, <1>3 DEF ThreadOf
  <2>2. \A k \in DOMAIN out : Len(mail) + k # Thread(i)
    BY <1>1, <1>2
  <2> QED
    BY <2>1, <2>2 DEF Threads
<1>4. CASE w.src # 0
    BY <1>1, <1>4 DEF ThreadOf, Threads
<1> QED
    BY <1>3, <1>4

LEMMA CommitShape ==
    ASSUME TypeOK, Shape, NEW w \in Frontier, NEW out, Outgoing(w, out),
           NEW reask \in BOOLEAN, NEW wrote \in BOOLEAN, NEW wall \in BOOLEAN,
           reask => CanReask(w), wall => CanMeetWall(w)
    PROVE  /\ CommitOK(w, out, reask, Committed(w, out, reask, wrote, wall))
           /\ CommitLeaves(w, out, reask, wall, Committed(w, out, reask, wrote, wall))
<1> DEFINE all    == mail \o out
           barren == out = <<>> /\ ~reask /\ ~wrote
           M      == Len(mail) + Len(out)
           s1 == Staged(w, out, reask)
           s2 == Swept(s1, w, all, out)
           s3 == Discharged(s2, w, barren)
           s4 == Composed(s3, w)
           s5 == Drained(s4, w, all, out)
           s6 == Walled(s5, w, wall)
           s7 == Disowned(s6, out)
<1>0. /\ out \in Seq(Messages) /\ Len(mail) \in Nat /\ Len(out) \in Nat /\ M \in Nat
      /\ \A k \in DOMAIN out : out[k].cause = w.src
      /\ (w.src \in Ids \/ w.src = 0) /\ Ids \subseteq 1 .. M /\ Ids = 1 .. Len(mail)
  <2>1. out \in Seq(Messages) /\ \A k \in DOMAIN out : out[k].cause = w.src
    BY DEF Outgoing
  <2>2. w.src \in Ids \/ w.src = 0
    BY SourceKnown
  <2>3. Len(mail) \in Nat /\ Ids = 1 .. Len(mail) /\ Len(out) \in Nat
    BY <2>1 DEF TypeOK, Ids
  <2> QED
    BY <2>1, <2>2, <2>3
<1>1. /\ s1 \in [1 .. M -> Standing]
      /\ \A i \in Ids : s1[i] = IF reask /\ i = Cause(w.src) THEN "unresolved" ELSE status[i]
      /\ \A i \in (1 .. M) \ Ids : s1[i] = "open"
  <2>1. out \in Seq(Messages)
    BY <1>0
  <2>2. /\ Staged(w, out, reask) \in [1 .. Len(mail) + Len(out) -> Standing]
        /\ \A i \in Ids : Staged(w, out, reask)[i]
               = IF reask /\ i = Cause(w.src) THEN "unresolved" ELSE status[i]
        /\ \A i \in (1 .. Len(mail) + Len(out)) \ Ids : Staged(w, out, reask)[i] = "open"
    BY <2>1, StagedIs
  <2> QED
    BY <2>2
<1>r. reask \/ wall => /\ w.src \in Ids /\ Cause(w.src) \in Ids /\ Verb(Cause(w.src)) \in Asking
                      /\ Thread(Cause(w.src)) = Thread(w.src) /\ Cause(w.src) # w.src
                      /\ Verb(w.src) = "answer"
    BY ReaskCause DEF CanMeetWall
<1>t. \A i \in Ids : (w.src = 0 \/ Thread(i) # Thread(w.src)) => Thread(i) \notin Threads(out)
    BY SpokenThreads
<1>a. \A i \in Ids : all[i] = mail[i]
    BY <1>0 DEF TypeOK
<1>o. {"open", "answered", "unresolved"} \subseteq Standing
    BY DEF Standing
<1>m. ~IsTick(w) => w.src \in Ids
    BY WakeKinds DEF OfMessage, OfTick, Tips, Is
<1> HIDE DEF s1, all, M
<1>2. /\ s2 \in [1 .. M -> Standing]
      /\ \A i \in 1 .. M : s2[i] = s1[i] \/ (s2[i] = "answered" /\ s1[i] = "unresolved"
                                            /\ all[i].thread \in Threads(out))
      /\ \A i \in 1 .. M : s2[i] = "unresolved" =>
            all[i].from = w.role \/ all[i].thread \notin Threads(out)
  <2> DEFINE which == {i \in Having(s1, "unresolved") :
                         all[i].from # w.role /\ all[i].thread \in Threads(out)}
  <2>1. s2 = Where(s1, which, "answered")
    BY DEF Swept
  <2>2. \A i \in which : s1[i] = "unresolved" /\ all[i].thread \in Threads(out)
    BY DEF Having
  <2>4. \A i \in 1 .. M : (/\ s1[i] = "unresolved" /\ all[i].from # w.role
                           /\ all[i].thread \in Threads(out)) => i \in which
    BY <1>1 DEF Having
  <2> HIDE DEF which
  <2>3. /\ s2 \in [1 .. M -> Standing]
        /\ \A i \in 1 .. M : s2[i] = IF i \in which THEN "answered" ELSE s1[i]
    BY <1>0, <1>1, <1>o, <2>1, WhereIs
  <2> QED
    BY <1>o, <2>2, <2>3, <2>4
<1> HIDE DEF s2
<1>3. /\ s3 \in [1 .. M -> Standing]
      /\ \A i \in 1 .. M : s3[i] = s2[i] \/ (i = w.src /\ ~IsTick(w))
      /\ ~IsTick(w) => /\ s3[w.src] # "open"
                       /\ s3[w.src] = "unresolved" => Verb(w.src) = "challenge" /\ barren
  <2>1. CASE IsTick(w)
    BY <1>2, <2>1 DEF Discharged
  <2>2. CASE ~IsTick(w)
    <3> DEFINE v == IF barren /\ Verb(w.src) = "challenge" THEN "unresolved" ELSE "answered"
    <3>1. v \in Standing /\ v # "open" /\ (v = "unresolved" => Verb(w.src) = "challenge" /\ barren)
      BY <1>o
    <3>2. s3 = Where(s2, {w.src}, v)
      BY <2>2 DEF Discharged
    <3>3. w.src \in 1 .. M
      BY <1>0, <1>m, <2>2
    <3> HIDE DEF v
    <3> QED
      BY <1>0, <1>2, <2>2, <3>1, <3>2, <3>3, WhereIs
  <2> QED
    BY <2>1, <2>2
<1> HIDE DEF s3, barren
<1>4. /\ s4 \in [1 .. M -> Standing]
      /\ \A i \in 1 .. M : s4[i] = s3[i] \/ (s4[i] = "answered" /\ s3[i] = "open"
                                            /\ i \in In(Thread(w.src)) /\ ~IsTick(w))
      /\ ~IsTick(w) /\ RepliesToAsk(w.src) =>
            \A i \in In(Thread(w.src)) : Verb(i) = "answer" /\ RepliesToAsk(i) => s4[i] # "open"
  <2>1. CASE IsTick(w) \/ ~RepliesToAsk(w.src)
    BY <1>3, <2>1 DEF Composed
  <2>2. CASE ~(IsTick(w) \/ ~RepliesToAsk(w.src))
    <3> DEFINE which == {i \in Having(s3, "open") \cap In(Thread(w.src)) : Verb(i) = "answer" /\ RepliesToAsk(i)}
    <3>1. s4 = Where(s3, which, "answered")
      BY <2>2 DEF Composed
    <3>2. \A i \in 1 .. M : s4[i] = IF i \in which THEN "answered" ELSE s3[i]
      BY <1>0, <1>3, <1>o, <3>1, WhereIs
    <3>3. s4 \in [1 .. M -> Standing]
      BY <1>0, <1>3, <1>o, <3>1, WhereIs
    <3>4. DOMAIN s3 = 1 .. M /\ In(Thread(w.src)) \subseteq 1 .. M
      BY <1>0, <1>3 DEF In
    <3> QED
      BY <2>2, <3>2, <3>3, <3>4 DEF Having
  <2> QED
    BY <2>1, <2>2
<1> HIDE DEF s4
<1>5. /\ s5 \in [1 .. M -> Standing]
      /\ \A i \in 1 .. M : s5[i] = s4[i] \/ (s5[i] = "answered" /\ s4[i] = "unresolved"
                                            /\ all[i].thread \in Threads(out))
      /\ out = <<>> => s5 = s4
  <2>1. CASE \A k \in DOMAIN out : out[k].to # "principal"
    BY <1>4, <2>1 DEF Drained
  <2>2. CASE ~(\A k \in DOMAIN out : out[k].to # "principal")
    <3> DEFINE which == {i \in Having(s4, "unresolved") : all[i].from = w.role /\ all[i].thread \in Threads(out)}
    <3>1. s5 = Where(s4, which, "answered")
      BY <2>2 DEF Drained
    <3>2. out # <<>>
      BY <2>2
    <3>3. \A i \in which : i \in DOMAIN s4 /\ s4[i] = "unresolved" /\ all[i].thread \in Threads(out)
      BY DEF Having
    <3> HIDE DEF which
    <3>4. /\ s5 \in [1 .. M -> Standing]
          /\ \A i \in 1 .. M : s5[i] = IF i \in which THEN "answered" ELSE s4[i]
      BY <1>0, <1>4, <1>o, <3>1, WhereIs
    <3> QED
      BY <3>2, <3>3, <3>4
  <2> QED
    BY <2>1, <2>2
<1> HIDE DEF s5
<1>6. /\ s6 \in [1 .. M -> Standing]
      /\ \A i \in 1 .. M : s6[i] = IF wall /\ i = Cause(w.src) THEN "unresolved" ELSE s5[i]
    BY <1>0, <1>5, <1>o, WhereIs DEF Walled
<1> HIDE DEF s6
<1>7. /\ s7 \in [1 .. M -> Standing]
      /\ \A i \in 1 .. M : s7[i] = s6[i] \/ (s7[i] = "unresolved" /\ i = w.src /\ i # 0 /\ Verb(i) = "ask")
      /\ w.src # 0 /\ Verb(w.src) = "ask" /\ (\E k \in DOMAIN out : out[k].verb = "report")
            => s7[w.src] = "unresolved"
  <2> DEFINE which == {out[k].cause : k \in {l \in DOMAIN out :
                         out[l].verb = "report" /\ out[l].cause # 0 /\ Verb(out[l].cause) = "ask"}}
  <2>1. s7 = Where(s6, which, "unresolved")
    BY DEF Disowned
  <2>2. \A i \in which : i = w.src /\ i # 0 /\ Verb(i) = "ask"
    BY <1>0
  <2>3. w.src # 0 /\ Verb(w.src) = "ask" /\ (\E k \in DOMAIN out : out[k].verb = "report")
           => w.src \in which
    BY <1>0
  <2> HIDE DEF which
  <2>4. /\ s7 \in [1 .. M -> Standing]
        /\ \A i \in 1 .. M : s7[i] = IF i \in which THEN "unresolved" ELSE s6[i]
    BY <1>0, <1>6, <1>o, <2>1, WhereIs
  <2>5. w.src # 0 => w.src \in 1 .. M
    BY <1>0
  <2> QED
    BY <2>2, <2>3, <2>4, <2>5
<1>8. Committed(w, out, reask, wrote, wall) = s7
    BY DEF Committed, s1, s2, s3, s4, s5, s6, s7, all, barren
<1> HIDE DEF s7
<1>9. ASSUME NEW i \in (1 .. M) \ Ids
      PROVE  s7[i] = "open"
  <2>2. i \notin In(Thread(w.src))
    BY DEF In
  <2>3. s1[i] = "open" /\ s2[i] = "open"
    BY <1>1, <1>2
  <2>4. s3[i] = "open"
    BY <1>3, <1>m, <2>3
  <2>5. s4[i] = "open" /\ s5[i] = "open"
    BY <1>4, <1>5, <2>2, <2>4
  <2>6. s6[i] = "open"
    BY <1>6, <1>r, <2>5
  <2>7. i # w.src \/ i = 0
    BY <1>0
  <2> QED
    BY <1>7, <2>6, <2>7
<1>10. ASSUME NEW i \in Ids
       PROVE  /\ s7[i] = "open" => status[i] = "open"
              /\ s7[i] = "unresolved" => Verb(i) \in Asking
              /\ (w.src = 0 \/ Thread(i) # Thread(w.src)) => s7[i] = status[i]
  <2>1. i \in 1 .. M /\ all[i].thread = Thread(i)
    BY <1>0, <1>a DEF Thread
  <2>2. status[i] = "unresolved" => Verb(i) \in Asking
    BY UnresolvedAsks DEF Is
  <2>3. s7[i] = "open" => status[i] = "open"
    <3>1. s7[i] = "open" => s6[i] = "open"
      BY <1>7, <2>1
    <3>2. s6[i] = "open" => s5[i] = "open"
      BY <1>6, <2>1
    <3>3. s5[i] = "open" => s4[i] = "open"
      BY <1>5, <2>1
    <3>4. s4[i] = "open" => s3[i] = "open"
      BY <1>4, <2>1
    <3>5. s3[i] = "open" => s2[i] = "open"
      BY <1>3, <2>1
    <3>6. s2[i] = "open" => s1[i] = "open"
      BY <1>2, <2>1
    <3>7. s1[i] = "open" => status[i] = "open"
      BY <1>1
    <3> QED
      BY <3>1, <3>2, <3>3, <3>4, <3>5, <3>6, <3>7
  <2>4. s7[i] = "unresolved" => Verb(i) \in Asking
    BY <1>1, <1>2, <1>3, <1>4, <1>5, <1>6, <1>7, <1>r, <2>1, <2>2 DEF Asking
  <2>5. ASSUME w.src = 0 \/ Thread(i) # Thread(w.src)
        PROVE  s7[i] = status[i]
    <3>1. Thread(i) \notin Threads(out)
      BY <1>t, <2>5
    <3>2. i # w.src /\ (w.src # 0 => i \notin In(Thread(w.src)))
      BY <1>0, <2>5 DEF In, Ids
    <3>3. ~IsTick(w) => w.src # 0
      BY <1>0, <1>m
    <3>4. reask \/ wall => i # Cause(w.src)
      BY <1>0, <1>r, <2>5 DEF Ids
    <3> QED
      BY <1>1, <1>2, <1>3, <1>4, <1>5, <1>6, <1>7, <2>1, <3>1, <3>2, <3>3, <3>4
  <2> QED
    BY <2>3, <2>4, <2>5
<1>11. ~IsTick(w) => s7[w.src] # "open"
    BY <1>0, <1>3, <1>4, <1>5, <1>6, <1>7, <1>m
<1>12. ~IsTick(w) /\ RepliesToAsk(w.src) =>
          \A i \in In(Thread(w.src)) : Verb(i) = "answer" /\ RepliesToAsk(i) => s7[i] # "open"
  <2>1. \A i \in 1 .. M : s7[i] = "open" => s4[i] = "open"
    BY <1>5, <1>6, <1>7
  <2>2. In(Thread(w.src)) \subseteq 1 .. M
    BY <1>0 DEF In
  <2> QED
    BY <1>4, <2>1, <2>2
<1>13. reask /\ out = <<>> => s7[Cause(w.src)] = "unresolved"
  <2> SUFFICES ASSUME reask, out = <<>>
               PROVE  s7[Cause(w.src)] = "unresolved"
    OBVIOUS
  <2> DEFINE c == Cause(w.src)
  <2>1. c \in Ids /\ c \in 1 .. M /\ c # w.src
    BY <1>0, <1>r
  <2>2. Threads(out) = {}
    BY DEF Threads
  <2>3. s1[c] = "unresolved"
    BY <1>1, <2>1
  <2>4. s2[c] = "unresolved"
    BY <1>2, <2>1, <2>2, <2>3
  <2>5. s4[c] = "unresolved"
    BY <1>3, <1>4, <2>1, <2>4
  <2>6. s6[c] = "unresolved"
    BY <1>5, <1>6, <2>1, <2>5
  <2> QED
    BY <1>7, <2>1, <2>6
<1>14. ASSUME NEW i \in Ids, s7[i] = "unresolved",
              ~((reask \/ wall) /\ i = Cause(w.src)), ~(i = w.src /\ Verb(i) = "ask"),
              ~(i = w.src /\ Verb(i) = "challenge" /\ out = <<>> /\ ~reask)
       PROVE  status[i] = "unresolved" /\ (From(i) = w.role \/ Thread(i) \notin Threads(out))
  <2>1. i \in 1 .. M /\ all[i].thread = Thread(i) /\ all[i].from = From(i)
    BY <1>0, <1>a DEF Thread, From
  <2>2. s6[i] = "unresolved"
    BY <1>7, <1>14, <2>1
  <2>3. s4[i] = "unresolved"
    BY <1>5, <1>6, <1>14, <2>1, <2>2
  <2>4. s3[i] = "unresolved"
    BY <1>4, <2>1, <2>3
  <2>5. s2[i] = "unresolved"
    BY <1>3, <1>14, <2>1, <2>4 DEF barren
  <2>6. From(i) = w.role \/ Thread(i) \notin Threads(out)
    BY <1>2, <2>1, <2>5
  <2>7. s1[i] = "unresolved"
    BY <1>2, <2>1, <2>5
  <2> QED
    BY <1>1, <1>14, <2>6, <2>7
<1>15. CommitLeaves(w, out, reask, wall, s7)
    BY <1>14 DEF CommitLeaves
<1> QED
    BY <1>7, <1>8, <1>9, <1>10, <1>11, <1>12, <1>13, <1>15 DEF CommitOK, M

-----------------------------------------------------------------------------
(***************************************************************************)
(* What any step does: it appends messages of one cause and settles rows   *)
(* of that cause's thread.                                                 *)
(***************************************************************************)
Grows(src, out) ==
    /\ src \in Ids \/ src = 0
    /\ out \in Seq(Messages)
    /\ \A k \in DOMAIN out :
          out[k].cause = src /\ out[k].thread = ThreadOf(src, Len(mail) + k)
    /\ mail' = mail \o out
    /\ Len(mail) + Len(out) <= MaxMail

Settles(src, out) ==
    /\ status' \in [1 .. Len(mail) + Len(out) -> Standing]
    /\ \A i \in (1 .. Len(mail) + Len(out)) \ Ids : status'[i] = "open"
    /\ \A i \in Ids : /\ status'[i] = "open" => status[i] = "open"
                      /\ status'[i] = "unresolved" => Verb(i) \in Asking
                      /\ (src = 0 \/ Thread(i) # Thread(src)) => status'[i] = status[i]

\* What a message can be, by what it follows.
Posted(src, m) ==
    /\ m.verb = "converse" /\ m.to # "principal"
          => m.to = "liaison" /\ (src # 0 => Verb(src) = "clarify")
    /\ m.verb = "ask" => m.from = "liaison" /\ m.to \in Role /\ IsRoot(src) /\ status[src] = "open"
    /\ m.verb = "confirm" => IsRoot(src) /\ status[src] = "open"
    /\ m.verb = "verdict" => src # 0 /\ Verb(src) \in {"confirm", "present"}
    /\ m.verb = "deliver" => /\ m.from = "liaison" /\ src # 0 /\ Cause(src) # 0
                             /\ Verb(Cause(src)) = "confirm"
    /\ m.verb \in {"question", "challenge"} => m.from # "liaison" /\ m.to \in Role
    /\ m.verb = "answer" /\ src # 0 /\ Verb(src) = "ask" => m.to = "liaison"
    /\ m.verb = "submit" => m.to = "liaison"

\* What is sent together is alike, and the words it was sent for are taken up.
Together(src, out) ==
    /\ out # <<>> /\ IsRoot(src) => status'[src] # "open"
    /\ \A k, l \in DOMAIN out : out[k].verb = out[l].verb
    /\ \A k \in DOMAIN out : out[k].verb \notin {"ask", "deliver"} => Len(out) = 1

\* A reply to an inquiry takes all there is to carry.
TakesAll(src, out) ==
    \A k \in DOMAIN out :
        (/\ out[k].from = "liaison" /\ out[k].verb = "converse" /\ src # 0 /\ RepliesToAsk(src))
        => /\ Verb(src) = "answer" /\ status[src] = "open"
           /\ \A a \in In(Thread(src)) :
                 Verb(a) = "answer" /\ RepliesToAsk(a) => status'[a] # "open"

\* A round is asked about once.
AsksOnce(src, out) ==
    \A k \in DOMAIN out :
        (out[k].from = "liaison" /\ out[k].verb = "clarify" /\ src # 0) =>
            ~ /\ \E i \in In(Thread(src)) : From(i) = "liaison" /\ Verb(i) = "clarify"
              /\ \E d \in In(Thread(src)) : Verb(d) = "deliver"

\* What follows in the thread of an ask the Liaison has not come back with.
ToPerson(m) == m.from = "liaison" /\ m.to = "principal"
InPursuit(src, q) == src # 0 /\ Verb(q) = "ask" /\ Thread(q) = Thread(src) /\ ~CameBack(q)
StaysInquiry(src, out) ==
    \A q \in Ids : InPursuit(src, q) =>
        \A k \in DOMAIN out : \/ ToPerson(out[k]) \/ out[k].verb = "submit"
                              \/ out[k].verb \in {"answer", "report"} /\ Verb(src) = "ask"
StaysAwaited(src, out) ==
    \A q \in Ids : InPursuit(src, q) =>
        \/ Thread(q) \in quiet'
        \/ \E k \in DOMAIN out : \/ ToPerson(out[k]) \/ out[k].verb = "submit"
                                 \/ out[k].verb = "answer" /\ Verb(src) = "ask"
        \/ \E x \in In(Thread(q)) : Verb(x) = "ask" /\ status'[x] = "unresolved"
        \/ \A x \in In(Thread(q)) :
              Verb(x) \in {"ask", "answer", "submit"} => status'[x] = status[x]

\* What a message is by who sends it, and what follows in a worker's thread.
Bound(src, m) ==
    /\ m.from \in Workers => m.verb = "question"
    /\ m.verb = "answer" => src # 0 /\ m.to = From(src)
    /\ m.to \in Role \cup Person
    /\ m.to = "principal" => m.from = "liaison"
    /\ m.verb \in {"clarify", "present"} => m.to = "principal"
    /\ m.verb = "verdict" => m.to = "liaison"
    /\ m.verb \in {"question", "challenge"} =>
          IF src = 0 THEN m.from \in Workers
          ELSE IsRound(Thread(src)) \/ From(Thread(src)) \in Workers
Tends(src, out) ==
    \A t \in Ids : (Errand(t) /\ src # 0 /\ Thread(src) = t /\ t \notin quiet') =>
        /\ Len(out) <= 1 /\ (out # <<>> => \A i \in In(t) : status'[i] # "open")
        /\ Spoke(t) \/ (\E k \in DOMAIN out : out[k].from = "liaison") =>
              /\ \A k \in DOMAIN out : out[k].verb \in Late
              /\ \A i \in In(t) : /\ status'[i] # "unresolved"
                                  /\ status'[i] = "open" => Verb(i) \in Late
Gives(out) ==
    \A i \in Ids : Verb(i) = "challenge" /\ status'[i] = "unresolved" =>
        status[i] = "unresolved" \/ Thread(i) \in quiet'

Step(src, out) ==
    /\ Grows(src, out) /\ Settles(src, out)
    /\ \A k \in DOMAIN out : Posted(src, out[k])
    /\ Together(src, out) /\ TakesAll(src, out) /\ AsksOnce(src, out)
    /\ StaysInquiry(src, out) /\ StaysAwaited(src, out)
    /\ \A k \in DOMAIN out : Bound(src, out[k])
    /\ Tends(src, out) /\ Gives(out)
    /\ repaired' \subseteq repaired \cup Ids
    /\ quiet \subseteq quiet' /\ quiet' \subseteq quiet \cup Ids
    /\ \A w \in gone' : w \in gone \/ (w.src \in Ids /\ Thread(w.src) \in quiet')

-----------------------------------------------------------------------------
(***************************************************************************)
(* The rows before and after.                                              *)
(***************************************************************************)
LEMMA Rows ==
    ASSUME TypeOK, NEW src, NEW out, Grows(src, out)
    PROVE  /\ Len(mail) \in Nat /\ Len(out) \in Nat /\ Len(mail') = Len(mail) + Len(out)
           /\ mail' \in Seq(Messages) /\ DOMAIN out = 1 .. Len(out)
           /\ Ids = 1 .. Len(mail) /\ Ids' = 1 .. Len(mail) + Len(out) /\ Ids \subseteq Ids'
           /\ \A i \in Ids : mail'[i] = mail[i]
           /\ \A k \in DOMAIN out : mail'[Len(mail) + k] = out[k] /\ Len(mail) + k \in Ids' \ Ids
           /\ \A i \in Ids' \ Ids : /\ i \in Nat /\ Len(mail) < i
                                    /\ i - Len(mail) \in DOMAIN out
                                    /\ mail'[i] = out[i - Len(mail)]
<1>1. Len(mail) \in Nat /\ Len(out) \in Nat /\ mail \in Seq(Messages) /\ out \in Seq(Messages) /\ mail' = mail \o out
    BY DEF TypeOK, Grows
<1>2. /\ Len(mail') = Len(mail) + Len(out) /\ mail' \in Seq(Messages) /\ DOMAIN out = 1 .. Len(out)
      /\ \A i \in 1 .. Len(mail) : mail'[i] = mail[i]
      /\ \A i \in (1 .. Len(mail) + Len(out)) \ (1 .. Len(mail)) : mail'[i] = out[i - Len(mail)]
    BY <1>1
<1>3. Ids = 1 .. Len(mail) /\ Ids' = 1 .. Len(mail) + Len(out)
    BY <1>2 DEF Ids
<1>4. Ids \subseteq Ids'
    BY <1>1, <1>3
<1>5. ASSUME NEW i \in Ids' \ Ids
      PROVE  /\ i \in Nat /\ Len(mail) < i /\ i - Len(mail) \in DOMAIN out
             /\ mail'[i] = out[i - Len(mail)]
    BY <1>1, <1>2, <1>3
<1>6. ASSUME NEW k \in DOMAIN out
      PROVE  mail'[Len(mail) + k] = out[k] /\ Len(mail) + k \in Ids' \ Ids
    BY <1>1, <1>2, <1>3
<1> QED
    BY <1>1, <1>2, <1>3, <1>4, <1>5, <1>6

\* A row that is not new: itself, its cause and what it replies to.
LEMMA OldRow ==
    ASSUME TypeOK, NEW src, NEW out, Grows(src, out), NEW i \in Ids
    PROVE  /\ i \in Ids' /\ mail'[i] = mail[i] /\ RepliesToAsk(i)' = RepliesToAsk(i)
           /\ From(i)' = From(i) /\ Verb(i)' = Verb(i) /\ Cause(i)' = Cause(i) /\ Thread(i)' = Thread(i)
<1>1. i \in Ids' /\ mail'[i] = mail[i]
    BY Rows
<1>2. Cause(i) # 0 => mail'[Cause(i)] = mail[Cause(i)]
    BY Rows, RowType
<1> QED
    BY <1>1, <1>2 DEF From, Verb, Cause, Thread, RepliesToAsk

\* A new row: its cause is src, and so is its thread, or it is one.
LEMMA NewRow ==
    ASSUME TypeOK, NEW src, NEW out, Grows(src, out), NEW i \in Ids' \ Ids
    PROVE  /\ i \in Nat /\ Len(mail) < i /\ mail'[i] \in Messages
           /\ \E k \in DOMAIN out : i = Len(mail) + k /\ mail'[i] = out[k]
           /\ mail'[i].cause = src /\ mail'[i].thread = ThreadOf(src, i)
           /\ RepliesToAsk(i)' <=> (src # 0 /\ Verb(src) = "ask")
<1>1. /\ i \in Nat /\ Len(mail) < i /\ i - Len(mail) \in DOMAIN out
      /\ mail'[i] = out[i - Len(mail)] /\ Len(mail) \in Nat
    BY Rows
<1>2. PICK k \in DOMAIN out : k = i - Len(mail)
    BY <1>1
<1>3. k \in Nat /\ i = Len(mail) + k
    BY <1>1, <1>2
<1>4. mail'[i] = out[k] /\ out[k] \in Messages
    BY <1>1, <1>2 DEF Grows
<1>5. mail'[i].cause = src /\ mail'[i].thread = ThreadOf(src, i)
    BY <1>3, <1>4 DEF Grows
<1>6. src # 0 => mail'[src] = mail[src]
    BY Rows DEF Grows
<1>7. RepliesToAsk(i)' <=> (src # 0 /\ Verb(src) = "ask")
    BY <1>5, <1>6 DEF RepliesToAsk, Cause, Verb
<1> QED
    BY <1>1, <1>3, <1>4, <1>5, <1>7

-----------------------------------------------------------------------------
(***************************************************************************)
(* A step keeps each part of the invariant.                                *)
(***************************************************************************)
LEMMA StepTypes ==
    ASSUME TypeOK, NEW src, NEW out, Step(src, out)
    PROVE  TypeOK'
<1>1. Grows(src, out) /\ Settles(src, out)
    BY DEF Step
<1> USE <1>1
<1>2. mail' \in Seq(Messages) /\ Len(mail') \in Nat /\ Len(mail') = Len(mail) + Len(out)
    BY Rows
<1>3. status' \in [1 .. Len(mail') -> Standing]
    BY <1>2 DEF Settles
<1>4. status' \in Seq(Standing) /\ Len(status') = Len(mail')
    BY <1>2, <1>3
<1>5. Len(mail') <= MaxMail
    BY <1>2 DEF Grows
<1>6. ASSUME NEW i \in Ids'
      PROVE  mail'[i].cause < i /\ mail'[i].thread \in 1 .. i
  <2>1. CASE i \in Ids
    BY <2>1, OldRow, RowType DEF TypeOK, Cause, Thread
  <2>2. CASE i \notin Ids
    <3>1. i \in Nat /\ Len(mail) < i /\ mail'[i].cause = src /\ mail'[i].thread = ThreadOf(src, i)
      BY <2>2, NewRow
    <3>2. src # 0 => Thread(src) \in Ids
      BY RowType DEF Grows
    <3> QED
      BY <3>1, <3>2, Rows DEF ThreadOf, Grows
  <2> QED
    BY <2>1, <2>2
<1>7. ASSUME NEW i \in Ids', status'[i] = "unresolved"
      PROVE  mail'[i].verb \in Asking
  <2>1. i \in Ids
    BY <1>7, Rows DEF Settles
  <2> QED
    BY <1>7, <2>1, OldRow DEF Settles, Verb
<1>8. Ids \subseteq Ids'
    BY Rows
<1>9. repaired' \subseteq Ids' /\ quiet' \subseteq Ids'
    BY <1>8 DEF Step, TypeOK
<1> QED
    BY <1>2, <1>4, <1>5, <1>6, <1>7, <1>9 DEF TypeOK, Standing, Asking, Is, Verb, Cause, Thread

\* The words that open a thread, before and after.
LEMMA OldRoot ==
    ASSUME TypeOK, NEW src, NEW out, Grows(src, out), NEW i \in Ids
    PROVE  IsRoot(i)' = IsRoot(i)
    BY OldRow DEF IsRoot

LEMMA StepInThread ==
    ASSUME TypeOK, Shape, NEW src, NEW out, Grows(src, out), NEW i \in Ids'
    PROVE  InItsThread(i)'
<1>1. CASE i \in Ids
  <2>1. mail'[i] = mail[i] /\ Thread(i) \in Ids /\ (Cause(i) # 0 => Cause(i) \in Ids)
    BY <1>1, OldRow, RowType
  <2>2. mail'[Thread(i)] = mail[Thread(i)] /\ (Cause(i) # 0 => mail'[Cause(i)] = mail[Cause(i)])
    BY <2>1, Rows
  <2>3. InItsThread(i)
    BY <1>1 DEF Shape
  <2> QED
    BY <2>1, <2>2, <2>3 DEF InItsThread, Cause, Thread
<1>2. CASE i \notin Ids /\ src = 0
  <2>1. mail'[i].cause = 0 /\ mail'[i].thread = i
    BY <1>2, NewRow DEF ThreadOf
  <2> QED
    BY <2>1 DEF InItsThread, Cause, Thread
<1>3. CASE i \notin Ids /\ src # 0
  <2>0. src \in Ids
    BY <1>3 DEF Grows
  <2>1. mail'[i].cause = src /\ mail'[i].thread = Thread(src) /\ src \in Ids
    BY <1>3, <2>0, NewRow DEF ThreadOf
  <2>2. Thread(src) \in Ids
    BY <2>1, RowType
  <2>3. mail'[src] = mail[src] /\ mail'[Thread(src)] = mail[Thread(src)]
    BY <2>1, <2>2, Rows
  <2>4. Thread(Thread(src)) = Thread(src)
    BY <2>1 DEF Shape, InItsThread
  <2> QED
    BY <1>3, <2>1, <2>3, <2>4 DEF InItsThread, Cause, Thread
<1> QED
    BY <1>1, <1>2, <1>3

LEMMA StepWellSent ==
    ASSUME TypeOK, Shape, NEW src, NEW out, Step(src, out), NEW i \in Ids'
    PROVE  WellSent(i)'
<1>0. Grows(src, out)
    BY DEF Step
<1>1. CASE i \in Ids
  <2>1. /\ mail'[i] = mail[i] /\ RepliesToAsk(i)' = RepliesToAsk(i)
        /\ From(i)' = From(i) /\ Verb(i)' = Verb(i) /\ Cause(i)' = Cause(i)
    BY <1>0, <1>1, OldRow
  <2>2. Cause(i) # 0 => Cause(i) \in Ids /\ mail'[Cause(i)] = mail[Cause(i)]
    BY <1>0, <1>1, Rows, RowType
  <2>3. Cause(i) # 0 /\ Cause(Cause(i)) # 0 => mail'[Cause(Cause(i))] = mail[Cause(Cause(i))]
    BY <1>0, <2>2, Rows, RowType
  <2>4. WellSent(i)
    BY <1>1 DEF Shape
  <2>5. Cause(i) # 0 => Verb(Cause(i))' = Verb(Cause(i)) /\ Cause(Cause(i))' = Cause(Cause(i))
    BY <2>1, <2>2 DEF Verb, Cause
  <2>6. Cause(i) # 0 /\ Cause(Cause(i)) # 0 => Verb(Cause(Cause(i)))' = Verb(Cause(Cause(i)))
    BY <2>1, <2>2, <2>3 DEF Verb, Cause
  <2>7. IsRoot(Cause(i)) => IsRoot(Cause(i))'
    <3> SUFFICES ASSUME IsRoot(Cause(i)) PROVE IsRoot(Cause(i))'
      OBVIOUS
    <3>1. Cause(i) \in Ids /\ Cause(i) # 0
      BY RowType DEF IsRoot
    <3> QED
      BY <1>0, <2>1, <2>2, <3>1, Rows DEF IsRoot, Verb, Cause
  <2> QED
    BY <2>1, <2>4, <2>5, <2>6, <2>7 DEF WellSent
<1>2. CASE i \notin Ids
  <2>1. PICK k \in DOMAIN out : i = Len(mail) + k /\ mail'[i] = out[k]
    BY <1>0, <1>2, NewRow
  <2>2. Posted(src, out[k])
    BY DEF Step
  <2>3. mail'[i].cause = src /\ (RepliesToAsk(i)' <=> (src # 0 /\ Verb(src) = "ask"))
    BY <1>0, <1>2, NewRow
  <2>4. src # 0 => src \in Ids /\ mail'[src] = mail[src]
    BY <1>0, Rows DEF Grows
  <2>5. src # 0 /\ Cause(src) # 0 => mail'[Cause(src)] = mail[Cause(src)]
    BY <1>0, <2>4, Rows, RowType
  <2>6. /\ Cause(i)' = src /\ Verb(i)' = out[k].verb /\ From(i)' = out[k].from /\ mail'[i].to = out[k].to
    BY <2>1, <2>3 DEF Cause, Verb, From
  <2>7. src # 0 => Verb(Cause(i))' = Verb(src) /\ Cause(Cause(i))' = Cause(src)
    BY <2>3, <2>4 DEF Cause, Verb
  <2>8. src # 0 /\ Cause(src) # 0 => Verb(Cause(Cause(i)))' = Verb(Cause(src))
    BY <2>3, <2>4, <2>5 DEF Cause, Verb
  <2>9. IsRoot(src) => IsRoot(Cause(i))'
    <3> SUFFICES ASSUME IsRoot(src) PROVE IsRoot(Cause(i))'
      OBVIOUS
    <3>1. src \in Ids /\ src # 0
      BY RowType DEF IsRoot
    <3> QED
      BY <1>0, <2>3, <2>4, <3>1, Rows DEF IsRoot, Verb, Cause
  <2> QED
    BY <2>2, <2>3, <2>6, <2>7, <2>8, <2>9 DEF WellSent, Posted
<1> QED
    BY <1>1, <1>2

LEMMA StepAlone ==
    ASSUME TypeOK, Shape, NEW src, NEW out, Step(src, out), NEW i \in Ids'
    PROVE  AloneWhileOpen(i)'
<1>0. Grows(src, out) /\ Settles(src, out) /\ Together(src, out)
    BY DEF Step
<1> SUFFICES ASSUME IsRoot(i)', status'[i] = "open", NEW j \in Ids', mail'[j].thread = i
             PROVE  j = i /\ mail'[i].thread = i
  <2>2. InItsThread(i)'
    BY <1>0, StepInThread
  <2>3. IsRoot(i)' => mail'[i].thread = i
    BY <2>2 DEF IsRoot, InItsThread, Thread, Cause
  <2> QED
    BY <2>3 DEF AloneWhileOpen, In, Thread
<1>1. mail'[i].thread = i
  <2>1. InItsThread(i)'
    BY <1>0, StepInThread
  <2> QED
    BY <2>1 DEF IsRoot, InItsThread, Thread, Cause
<1>2. CASE i \in Ids
  <2>1. IsRoot(i) /\ status[i] = "open"
    BY <1>0, <1>2, OldRoot DEF Settles
  <2>2. In(i) = {i}
    BY <1>2, <2>1 DEF Shape, AloneWhileOpen
  <2>3. CASE j \in Ids
    BY <1>0, <1>1, <2>2, <2>3, OldRow DEF In, Thread
  <2>4. CASE j \notin Ids
    <3>1. j \in Nat /\ Len(mail) < j /\ mail'[j].thread = ThreadOf(src, j) /\ out # <<>>
      BY <1>0, <2>4, NewRow
    <3>2. src # 0 /\ Thread(src) = i
      BY <1>0, <1>2, <3>1, Rows DEF ThreadOf
    <3>3. src \in Ids /\ src = i
      BY <1>0, <2>2, <3>2 DEF In, Grows
    <3> QED
      BY <1>0, <2>1, <3>1, <3>3 DEF Together
  <2> QED
    BY <2>3, <2>4
<1>3. CASE i \notin Ids
  <2>1. /\ i \in Nat /\ Len(mail) < i
    BY <1>0, <1>3, NewRow
  <2>2. CASE j \in Ids
    <3>1. Thread(j) \in Ids
      BY <2>2, RowType
    <3> QED
      BY <1>0, <1>3, <2>2, <3>1, OldRow DEF Thread
  <2>3. CASE j \notin Ids
    <3>1. mail'[j].thread = ThreadOf(src, j)
      BY <1>0, <2>3, NewRow
    <3>2. src # 0 => Thread(src) \in Ids
      BY <1>0, RowType DEF Grows
    <3> QED
      BY <1>1, <1>3, <3>1, <3>2 DEF ThreadOf
  <2> QED
    BY <2>2, <2>3
<1> QED
    BY <1>2, <1>3

LEMMA StepShape ==
    ASSUME TypeOK, Shape, NEW src, NEW out, Step(src, out)
    PROVE  Shape'
<1>1. Grows(src, out)
    BY DEF Step
<1>2. \A i \in Ids' : InItsThread(i)'
    BY <1>1, StepInThread
<1>3. \A i \in Ids' : WellSent(i)'
    BY StepWellSent
<1>4. \A i \in Ids' : AloneWhileOpen(i)'
    BY StepAlone
<1> QED
    BY <1>2, <1>3, <1>4 DEF Shape

\* A round of a broadcast holds no ask: the same words are passed on or confirmed.
LEMMA NoBoth ==
    ASSUME TypeOK, Shape, OneTurn, NEW a \in Ids, NEW d \in Ids,
           Thread(a) = Thread(d), Verb(a) = "ask"
    PROVE  Verb(d) # "deliver"
<1> SUFFICES ASSUME Verb(d) = "deliver" PROVE FALSE
    OBVIOUS
<1>1. IsRoot(Cause(a)) /\ Cause(a) # 0 /\ Cause(a) \in Ids
    BY RowType DEF Shape, WellSent, IsRoot
<1>2. Thread(a) = Cause(a)
    BY <1>1 DEF Shape, InItsThread, IsRoot
<1>3. Cause(d) # 0 /\ Cause(Cause(d)) # 0 /\ Verb(Cause(Cause(d))) = "confirm"
    BY DEF Shape, WellSent
<1>4. Cause(d) \in Ids /\ Cause(Cause(d)) \in Ids
    BY <1>3, RowType
<1> DEFINE c == Cause(Cause(d))
<1>5. IsRoot(Cause(c)) /\ Cause(c) # 0 /\ Cause(c) \in Ids
    BY <1>3, <1>4, RowType DEF Shape, WellSent, IsRoot
<1>6. Thread(c) = Cause(c)
    BY <1>4, <1>5 DEF Shape, InItsThread, IsRoot
<1>7. Thread(d) = Thread(c)
    BY <1>3, <1>4 DEF Shape, InItsThread
<1> QED
    BY <1>2, <1>3, <1>4, <1>6, <1>7 DEF OneTurn

\* Words not taken up have no effects.
LEMMA OpenRootIsAlone ==
    ASSUME TypeOK, Shape, NEW r, IsRoot(r), status[r] = "open", NEW i \in Ids, Thread(i) = r \/ Cause(i) = r
    PROVE  i = r
<1>1. r \in Ids /\ Thread(r) = r /\ r # 0
    BY RowType DEF IsRoot, Shape, InItsThread
<1>2. Cause(i) = r => Thread(i) = r
    BY <1>1 DEF Shape, InItsThread
<1> QED
    BY <1>1, <1>2 DEF Shape, AloneWhileOpen, In

LEMMA StepOneTurn ==
    ASSUME TypeOK, Shape, OneTurn, NEW src, NEW out, Step(src, out)
    PROVE  OneTurn'
<1>0. Grows(src, out) /\ Together(src, out) /\ \A k \in DOMAIN out : Posted(src, out[k])
    BY DEF Step
<1> SUFFICES ASSUME NEW a \in Ids', NEW c \in Ids', mail'[a].verb = "ask", mail'[c].verb = "confirm",
                    mail'[a].cause = mail'[c].cause
             PROVE  FALSE
    BY DEF OneTurn, Verb, Cause
<1>1. CASE a \in Ids /\ c \in Ids
    BY <1>0, <1>1, OldRow DEF OneTurn, Verb, Cause
<1>2. CASE a \notin Ids /\ c \in Ids
  <2>1. PICK k \in DOMAIN out : mail'[a] = out[k] /\ mail'[a].cause = src
    BY <1>0, <1>2, NewRow
  <2>2. IsRoot(src) /\ status[src] = "open"
    BY <1>0, <2>1 DEF Posted
  <2>3. Cause(c) = src
    BY <1>0, <1>2, <2>1, OldRow DEF Cause
  <2>4. c = src /\ c \in Nat /\ Cause(c) < c
    BY <1>2, <2>2, <2>3, OpenRootIsAlone, RowType
  <2> QED
    BY <2>3, <2>4
<1>3. CASE a \in Ids /\ c \notin Ids
  <2>1. PICK k \in DOMAIN out : mail'[c] = out[k] /\ mail'[c].cause = src
    BY <1>0, <1>3, NewRow
  <2>2. IsRoot(src) /\ status[src] = "open"
    BY <1>0, <2>1 DEF Posted
  <2>3. Cause(a) = src
    BY <1>0, <1>3, <2>1, OldRow DEF Cause
  <2>4. a = src /\ a \in Nat /\ Cause(a) < a
    BY <1>3, <2>2, <2>3, OpenRootIsAlone, RowType
  <2> QED
    BY <2>3, <2>4
<1>4. CASE a \notin Ids /\ c \notin Ids
  <2>1. PICK k \in DOMAIN out : mail'[a] = out[k]
    BY <1>0, <1>4, NewRow
  <2>2. PICK l \in DOMAIN out : mail'[c] = out[l]
    BY <1>0, <1>4, NewRow
  <2> QED
    BY <1>0, <2>1, <2>2 DEF Together
<1> QED
    BY <1>1, <1>2, <1>3, <1>4

\* A reply to an inquiry, before and after.
LEMMA OldReply ==
    ASSUME TypeOK, NEW src, NEW out, Grows(src, out), NEW i \in Ids
    PROVE  IsReply(i)' <=> IsReply(i)
<1>1. mail'[i] = mail[i] /\ (Cause(i) # 0 => Cause(i) \in Ids)
    BY OldRow, RowType
<1>2. PICK c : c = Cause(i)
    OBVIOUS
<1>3. c # 0 => (RepliesToAsk(c)' <=> RepliesToAsk(c))
    BY <1>1, <1>2, OldRow
<1>4. c = Cause(i)'
    BY <1>1, <1>2 DEF Cause
<1>5. IsReply(i)' <=> (mail'[i].from = "liaison" /\ mail'[i].verb = "converse" /\ c # 0 /\ RepliesToAsk(c)')
    BY <1>4 DEF IsReply, RepliesToAsk, From, Verb, Cause
<1>6. IsReply(i) <=> (mail[i].from = "liaison" /\ mail[i].verb = "converse" /\ c # 0 /\ RepliesToAsk(c))
    BY <1>2 DEF IsReply, RepliesToAsk, From, Verb, Cause
<1> QED
    BY <1>1, <1>3, <1>5, <1>6

LEMMA NewReply ==
    ASSUME TypeOK, NEW src, NEW out, Grows(src, out), NEW i \in Ids' \ Ids, IsReply(i)'
    PROVE  /\ src # 0 /\ RepliesToAsk(src) /\ src \in Ids
           /\ \E k \in DOMAIN out : /\ i = Len(mail) + k /\ mail'[i] = out[k]
                                    /\ out[k].from = "liaison" /\ out[k].verb = "converse"
<1>1. mail'[i].cause = src
    BY NewRow
<1>2. PICK k \in DOMAIN out : i = Len(mail) + k /\ mail'[i] = out[k]
    BY NewRow
<1>3. mail'[i].from = "liaison" /\ mail'[i].verb = "converse" /\ src # 0 /\ RepliesToAsk(src)'
    BY <1>1 DEF IsReply, RepliesToAsk, From, Verb, Cause
<1>4. src \in Ids
    BY <1>3 DEF Grows
<1>5. RepliesToAsk(src)
    BY <1>3, <1>4, OldRow
<1> QED
    BY <1>2, <1>3, <1>4, <1>5

LEMMA StepSpent ==
    ASSUME TypeOK, AllSpent, NEW src, NEW out, Step(src, out)
    PROVE  AllSpent'
<1>0. Grows(src, out) /\ Settles(src, out) /\ Together(src, out) /\ TakesAll(src, out)
    BY DEF Step
<1> SUFFICES ASSUME NEW i \in Ids', IsReply(i)', NEW a \in Ids', mail'[a].thread = mail'[i].thread,
                    a < i, mail'[a].verb = "answer", RepliesToAsk(a)'
             PROVE  status'[a] # "open"
    BY DEF AllSpent, Spent, In, Thread, Verb
<1>1. CASE i \in Ids
  <2>1. a \in Ids
    BY <1>0, <1>1, Rows
  <2>2. IsReply(i) /\ RepliesToAsk(a) /\ mail'[a] = mail[a] /\ mail'[i] = mail[i]
    BY <1>0, <1>1, <2>1, OldReply, OldRow
  <2>3. status[a] # "open"
    BY <1>1, <2>1, <2>2 DEF AllSpent, Spent, In, Thread, Verb
  <2> QED
    BY <1>0, <2>1, <2>3 DEF Settles
<1>2. CASE i \notin Ids
  <2>1. /\ src # 0 /\ RepliesToAsk(src) /\ src \in Ids
    BY <1>0, <1>2, NewReply
  <2>2. PICK k \in DOMAIN out : /\ i = Len(mail) + k /\ mail'[i] = out[k]
                                /\ out[k].from = "liaison" /\ out[k].verb = "converse"
    BY <1>0, <1>2, NewReply
  <2>3. mail'[i].thread = Thread(src)
    BY <1>0, <1>2, <2>1, NewRow DEF ThreadOf
  <2>4. CASE a \in Ids
    <3>1. mail'[a] = mail[a] /\ RepliesToAsk(a)
      BY <1>0, <2>4, OldRow
    <3>2. a \in In(Thread(src)) /\ Verb(a) = "answer"
      BY <2>3, <2>4, <3>1 DEF In, Thread, Verb
    <3> QED
      BY <1>0, <2>1, <2>2, <3>1, <3>2 DEF TakesAll
  <2>5. CASE a \notin Ids
    <3>1. PICK l \in DOMAIN out : mail'[a] = out[l]
      BY <1>0, <2>5, NewRow
    <3> QED
      BY <1>0, <2>2, <3>1 DEF Together
  <2> QED
    BY <2>4, <2>5
<1> QED
    BY <1>1, <1>2

LEMMA StepNewReply ==
    ASSUME TypeOK, Shape, AllSpent, EachReplyIsNew, NEW src, NEW out, Step(src, out)
    PROVE  EachReplyIsNew'
<1>0. Grows(src, out) /\ Settles(src, out) /\ Together(src, out) /\ TakesAll(src, out)
    BY DEF Step
<1> SUFFICES ASSUME NEW i \in Ids', NEW j \in Ids', i < j, mail'[i].thread = mail'[j].thread,
                    IsReply(i)', IsReply(j)'
             PROVE  mail'[j].cause > i
    BY DEF EachReplyIsNew, IsReply, Thread, Cause
<1>1. CASE j \in Ids
  <2>1. i \in Ids
    BY <1>0, <1>1, Rows
  <2>2. IsReply(i) /\ IsReply(j) /\ mail'[j] = mail[j] /\ mail'[i] = mail[i]
    BY <1>0, <1>1, <2>1, OldReply, OldRow
  <2> QED
    BY <1>1, <2>1, <2>2 DEF EachReplyIsNew, IsReply, Thread, Cause
<1>2. CASE j \notin Ids
  <2>1. /\ src # 0 /\ RepliesToAsk(src) /\ src \in Ids
    BY <1>0, <1>2, NewReply
  <2>2. PICK k \in DOMAIN out : /\ j = Len(mail) + k /\ mail'[j] = out[k]
                                /\ out[k].from = "liaison" /\ out[k].verb = "converse"
    BY <1>0, <1>2, NewReply
  <2>3. mail'[j].thread = Thread(src) /\ mail'[j].cause = src
    BY <1>0, <1>2, <2>1, NewRow DEF ThreadOf
  <2>4. Verb(src) = "answer" /\ status[src] = "open"
    BY <1>0, <2>1, <2>2 DEF TakesAll
  <2>5. i \in Ids
    <3> SUFFICES ASSUME i \notin Ids PROVE FALSE
      OBVIOUS
    <3>1. PICK l \in DOMAIN out : i = Len(mail) + l
      BY <1>0, NewRow
    <3>2. Len(out) = 1
      BY <1>0, <2>2 DEF Together
    <3>3. k = 1 /\ l = 1
      BY <1>0, <3>2, Rows
    <3> QED
      BY <1>0, <2>2, <3>1, <3>3, Rows
  <2>6. IsReply(i) /\ mail'[i] = mail[i]
    BY <1>0, <2>5, OldReply, OldRow
  <2>7. src \in In(Thread(i))
    BY <2>1, <2>3, <2>6 DEF In, Thread
  <2>8. ~(src < i)
    BY <2>1, <2>4, <2>5, <2>6, <2>7 DEF AllSpent, Spent
  <2>9. src # i
    BY <2>4, <2>6 DEF IsReply
  <2>10. src \in Nat /\ i \in Nat
    BY <2>1, <2>5, RowType
  <2> QED
    BY <2>3, <2>8, <2>9, <2>10
<1> QED
    BY <1>1, <1>2

LEMMA StepRound ==
    ASSUME TypeOK, RoundIsOneQuestion, NEW src, NEW out, Step(src, out)
    PROVE  RoundIsOneQuestion'
<1>0. Grows(src, out) /\ Together(src, out) /\ AsksOnce(src, out)
    BY DEF Step
<1> SUFFICES ASSUME NEW i \in Ids', NEW j \in Ids', i < j, mail'[i].thread = mail'[j].thread,
                    NEW d \in Ids', mail'[d].thread = mail'[i].thread, d < i, mail'[d].verb = "deliver",
                    mail'[i].from = "liaison", mail'[i].verb = "clarify",
                    mail'[j].from = "liaison", mail'[j].verb = "clarify"
             PROVE  FALSE
    BY DEF RoundIsOneQuestion, In, Thread, From, Verb
<1>1. CASE j \in Ids
  <2>1. i \in Ids /\ d \in Ids
    BY <1>0, <1>1, Rows
  <2>2. mail'[i] = mail[i] /\ mail'[j] = mail[j] /\ mail'[d] = mail[d]
    BY <1>0, <1>1, <2>1, OldRow
  <2> QED
    BY <1>1, <2>1, <2>2 DEF RoundIsOneQuestion, In, Thread, From, Verb
<1>2. CASE j \notin Ids
  <2>1. PICK k \in DOMAIN out : j = Len(mail) + k /\ mail'[j] = out[k]
    BY <1>0, <1>2, NewRow
  <2>2. Len(out) = 1 /\ k = 1
    <3>1. Len(out) = 1
      BY <1>0, <2>1 DEF Together
    <3> QED
      BY <1>0, <3>1, Rows
  <2>3. i \in Ids /\ d \in Ids
    BY <1>0, <2>1, <2>2, Rows
  <2>4. mail'[i] = mail[i] /\ mail'[d] = mail[d]
    BY <1>0, <2>3, OldRow
  <2>5. mail'[j].thread = ThreadOf(src, j)
    BY <1>0, <1>2, NewRow
  <2>6. Thread(i) \in Ids
    BY <2>3, RowType
  <2>7. src # 0 /\ Thread(src) = Thread(i)
    BY <1>2, <2>4, <2>5, <2>6 DEF ThreadOf, Thread
  <2>8. i \in In(Thread(src)) /\ d \in In(Thread(src))
    BY <2>3, <2>4, <2>7 DEF In, Thread
  <2> QED
    BY <1>0, <2>1, <2>4, <2>7, <2>8 DEF AsksOnce, From, Verb
<1> QED
    BY <1>1, <1>2

\* The Liaison has come back: that is not undone.
LEMMA CameBackStays ==
    ASSUME TypeOK, NEW src, NEW out, Grows(src, out), NEW q \in Ids, CameBack(q)
    PROVE  CameBack(q)'
<1>1. PICK j \in In(Thread(q)) : j > q /\ From(j) = "liaison" /\ mail[j].to = "principal"
    BY DEF CameBack
<1>2. j \in Ids
    BY DEF In
<1>3. mail'[j] = mail[j] /\ j \in Ids' /\ mail'[q] = mail[q]
    BY <1>2, OldRow
<1> QED
    BY <1>1, <1>3 DEF CameBack, In, Thread, From

\* A message to the person in an ask's thread brings it back.
LEMMA ComesBack ==
    ASSUME TypeOK, NEW src, NEW out, Grows(src, out), NEW q \in Ids, src # 0, Thread(q) = Thread(src),
           NEW k \in DOMAIN out, ToPerson(out[k])
    PROVE  CameBack(q)'
<1>1. mail'[Len(mail) + k] = out[k] /\ Len(mail) + k \in Ids' \ Ids
    BY Rows
<1>2. PICK j \in Ids' \ Ids : j = Len(mail) + k
    BY <1>1
<1>3. mail'[j].thread = Thread(src) /\ j > q
  <2>1. mail'[j].thread = ThreadOf(src, j) /\ j \in Nat /\ Len(mail) < j
    BY NewRow
  <2>2. q \in Nat /\ q <= Len(mail) /\ Len(mail) \in Nat
    BY Rows
  <2> QED
    BY <2>1, <2>2 DEF ThreadOf
<1>4. mail'[q] = mail[q] /\ mail'[j] = out[k]
    BY <1>1, <1>2, OldRow
<1> QED
    BY <1>3, <1>4 DEF CameBack, In, Thread, From, ToPerson

\* What belongs to an inquiry, before and after.
LEMMA OldOfInquiry ==
    ASSUME TypeOK, NEW src, NEW out, Grows(src, out), NEW i \in Ids
    PROVE  OfAnInquiry(i)' <=> OfAnInquiry(i)
    BY OldRow DEF OfAnInquiry

LEMMA StepKept ==
    ASSUME TypeOK, Shape, Inquest, NEW src, NEW out, Step(src, out), NEW q \in Ids'
    PROVE  Kept(q)'
<1>0. /\ Grows(src, out) /\ Settles(src, out) /\ Together(src, out) /\ StaysInquiry(src, out)
      /\ \A k \in DOMAIN out : Posted(src, out[k])
    BY DEF Step
<1> SUFFICES ASSUME mail'[q].verb = "ask", ~CameBack(q)', NEW m \in Ids', mail'[m].thread = mail'[q].thread
             PROVE  m = mail'[q].thread \/ OfAnInquiry(m)'
  <2>1. Kept(q)' <=> (mail'[q].verb = "ask" => CameBack(q)' \/
            \A m \in Ids' : mail'[m].thread = mail'[q].thread => m = mail'[q].thread \/ OfAnInquiry(m)')
    BY DEF Kept, In, Thread, Verb, CameBack, OfAnInquiry, RepliesToAsk, Cause, From
  <2> QED
    BY <2>1
<1>1. CASE q \in Ids
  <2>1. mail'[q] = mail[q] /\ Verb(q) = "ask"
    BY <1>0, <1>1, OldRow DEF Verb
  <2>2. ~CameBack(q)
    BY <1>0, <1>1, CameBackStays
  <2>3. CASE m \in Ids
    <3>1. mail'[m] = mail[m] /\ m \in In(Thread(q))
      BY <1>0, <2>1, <2>3, OldRow DEF In, Thread
    <3>2. m = Thread(q) \/ OfAnInquiry(m)
      BY <1>1, <2>1, <2>2, <3>1 DEF Inquest, Kept
    <3> QED
      BY <1>0, <2>1, <2>3, <3>2, OldOfInquiry DEF Thread
  <2>4. CASE m \notin Ids
    <3>1. PICK k \in DOMAIN out : m = Len(mail) + k /\ mail'[m] = out[k]
      BY <1>0, <2>4, NewRow
    <3>2. mail'[m].thread = ThreadOf(src, m)
      BY <1>0, <2>4, NewRow
    <3>3. Thread(q) \in Ids
      BY <1>1, RowType
    <3>4. src # 0 /\ Thread(src) = Thread(q)
      BY <2>1, <2>4, <3>2, <3>3 DEF ThreadOf, Thread
    <3>5. ~ToPerson(out[k])
      BY <1>0, <1>1, <3>4, ComesBack
    <3>6. InPursuit(src, q)
      BY <2>1, <2>2, <3>4 DEF InPursuit
    <3>7. out[k].verb = "submit" \/ (out[k].verb \in {"answer", "report"} /\ Verb(src) = "ask")
      BY <1>0, <1>1, <3>5, <3>6 DEF StaysInquiry
    <3>8. RepliesToAsk(m)' <=> (src # 0 /\ Verb(src) = "ask")
      BY <1>0, <2>4, NewRow
    <3> QED
      BY <3>1, <3>4, <3>7, <3>8 DEF OfAnInquiry, Verb
  <2> QED
    BY <2>3, <2>4
<1>2. CASE q \notin Ids
  <2>1. PICK k \in DOMAIN out : mail'[q] = out[k] /\ mail'[q].thread = ThreadOf(src, q)
    BY <1>0, <1>2, NewRow
  <2>2. IsRoot(src) /\ status[src] = "open" /\ out[k].verb = "ask"
    BY <1>0, <2>1 DEF Posted
  <2>3. src \in Ids /\ src # 0 /\ Thread(src) = src
    BY <2>2, RowType DEF IsRoot, Shape, InItsThread
  <2>4. mail'[q].thread = src
    BY <2>1, <2>3 DEF ThreadOf
  <2>5. CASE m \in Ids
    <3>1. Thread(m) = src
      BY <1>0, <2>4, <2>5, OldRow DEF Thread
    <3> QED
      BY <2>2, <2>4, <2>5, <3>1, OpenRootIsAlone
  <2>6. CASE m \notin Ids
    <3>1. PICK l \in DOMAIN out : mail'[m] = out[l]
      BY <1>0, <2>6, NewRow
    <3>2. mail'[m].verb = "ask"
      BY <1>0, <2>2, <3>1 DEF Together
    <3> QED
      BY <3>2 DEF OfAnInquiry, Verb
  <2> QED
    BY <2>5, <2>6
<1> QED
    BY <1>1, <1>2

LEMMA StepPursued ==
    ASSUME TypeOK, Shape, Inquest, NEW src, NEW out, Step(src, out), NEW q \in Ids'
    PROVE  Pursued(q)'
<1>0. /\ Grows(src, out) /\ Settles(src, out) /\ StaysAwaited(src, out)
      /\ \A k \in DOMAIN out : Posted(src, out[k])
      /\ quiet \subseteq quiet'
    BY DEF Step
<1> SUFFICES ASSUME mail'[q].verb = "ask", ~CameBack(q)', mail'[q].thread \notin quiet'
             PROVE  \E x \in Ids' : mail'[x].thread = mail'[q].thread /\ Awaited(x)'
  <2>1. Pursued(q)' <=> (mail'[q].verb = "ask" => mail'[q].thread \in quiet' \/ CameBack(q)' \/
            \E x \in Ids' : mail'[x].thread = mail'[q].thread /\ Awaited(x)')
    BY DEF Pursued, In, Thread, Verb, CameBack, Awaited, RepliesToAsk, Cause, From
  <2> QED
    BY <2>1
<1>n. ASSUME NEW x \in Ids' \ Ids PROVE status'[x] = "open"
    BY <1>0, Rows DEF Settles
<1>1. CASE q \notin Ids
    BY <1>1, <1>n DEF Awaited, Verb
<1>2. CASE q \in Ids
  <2>1. mail'[q] = mail[q] /\ Verb(q) = "ask" /\ mail'[q].thread = Thread(q)
    BY <1>0, <1>2, OldRow DEF Verb, Thread
  <2>2. ~CameBack(q) /\ Thread(q) \notin quiet
    BY <1>0, <1>2, <2>1, CameBackStays
  <2>3. PICK y \in In(Thread(q)) : Awaited(y)
    BY <1>2, <2>1, <2>2 DEF Inquest, Pursued
  <2>4. y \in Ids /\ Thread(y) = Thread(q)
    BY DEF In
  <2>5. ASSUME NEW x \in Ids, Thread(x) = Thread(q), Awaited(x), status'[x] = status[x]
        PROVE  mail'[x].thread = mail'[q].thread /\ Awaited(x)'
    BY <1>0, <2>1, <2>5, OldRow DEF Awaited, Thread
  <2>6. CASE src = 0 \/ Thread(q) # Thread(src)
    <3>1. status'[y] = status[y]
      BY <1>0, <2>4, <2>6 DEF Settles
    <3>2. y \in Ids'
      BY <1>0, <2>4, OldRow
    <3> QED
      BY <2>3, <2>4, <2>5, <3>1, <3>2
  <2>7. CASE src # 0 /\ Thread(q) = Thread(src)
    <3>1. InPursuit(src, q)
      BY <2>1, <2>2, <2>7 DEF InPursuit
    <3>2. \/ \E k \in DOMAIN out : \/ ToPerson(out[k]) \/ out[k].verb = "submit"
                                   \/ out[k].verb = "answer" /\ Verb(src) = "ask"
          \/ \E x \in In(Thread(q)) : Verb(x) = "ask" /\ status'[x] = "unresolved"
          \/ \A x \in In(Thread(q)) :
                Verb(x) \in {"ask", "answer", "submit"} => status'[x] = status[x]
      BY <1>0, <1>2, <2>1, <3>1 DEF StaysAwaited
    <3>3. CASE \E k \in DOMAIN out : \/ ToPerson(out[k]) \/ out[k].verb = "submit"
                                     \/ out[k].verb = "answer" /\ Verb(src) = "ask"
      <4>1. PICK k \in DOMAIN out : \/ ToPerson(out[k]) \/ out[k].verb = "submit"
                                    \/ out[k].verb = "answer" /\ Verb(src) = "ask"
        BY <3>3
      <4>2. ~ToPerson(out[k])
        BY <1>0, <1>2, <2>7, ComesBack
      <4>3. mail'[Len(mail) + k] = out[k] /\ Len(mail) + k \in Ids' \ Ids
        BY <1>0, Rows
      <4>4. PICK x \in Ids' \ Ids : x = Len(mail) + k
        BY <4>3
      <4>5. mail'[x] = out[k] /\ status'[x] = "open"
        BY <1>n, <4>3, <4>4
      <4>6. mail'[x].thread = ThreadOf(src, x) /\ (RepliesToAsk(x)' <=> (src # 0 /\ Verb(src) = "ask"))
        BY <1>0, NewRow
      <4>7. mail'[x].thread = mail'[q].thread
        BY <2>1, <2>7, <4>6 DEF ThreadOf
      <4>8. Awaited(x)'
        BY <2>7, <4>1, <4>2, <4>5, <4>6 DEF Awaited, Verb
      <4> QED
        BY <4>7, <4>8
    <3>4. CASE \E x \in In(Thread(q)) : Verb(x) = "ask" /\ status'[x] = "unresolved"
      <4>1. PICK x \in In(Thread(q)) : Verb(x) = "ask" /\ status'[x] = "unresolved"
        BY <3>4
      <4>2. x \in Ids /\ Thread(x) = Thread(q)
        BY DEF In
      <4>3. x \in Ids' /\ Verb(x)' = "ask" /\ mail'[x].thread = mail'[q].thread
        BY <1>0, <2>1, <4>1, <4>2, OldRow DEF Thread
      <4> QED
        BY <4>1, <4>3 DEF Awaited
    <3>5. CASE \A x \in In(Thread(q)) :
                Verb(x) \in {"ask", "answer", "submit"} => status'[x] = status[x]
      <4>1. Verb(y) \in {"ask", "answer", "submit"}
        BY <2>3 DEF Awaited
      <4>2. status'[y] = status[y] /\ y \in Ids'
        BY <1>0, <2>4, <3>5, <4>1, OldRow
      <4> QED
        BY <2>3, <2>4, <2>5, <4>2
    <3> QED
      BY <3>2, <3>3, <3>4, <3>5
  <2> QED
    BY <2>6, <2>7
<1> QED
    BY <1>1, <1>2

LEMMA StepGivenUp ==
    ASSUME TypeOK, GivenUp, NEW src, NEW out, Step(src, out)
    PROVE  GivenUp'
<1>0. Grows(src, out)
    BY DEF Step
<1> SUFFICES ASSUME NEW w \in gone'
             PROVE  w.src \in Ids' /\ mail'[w.src].thread \in quiet'
    BY DEF GivenUp, Thread
<1>1. w.src \in Ids /\ Thread(w.src) \in quiet'
    BY DEF Step, GivenUp
<1> QED
    BY <1>0, <1>1, OldRow DEF Thread

\* A round stays one.
LEMMA RoundStays ==
    ASSUME TypeOK, NEW src, NEW out, Grows(src, out), NEW t, IsRound(t)
    PROVE  \E d \in Ids' : mail'[d].thread = t /\ mail'[d].verb = "deliver" /\ mail'[d].from = "liaison"
<1>1. PICK d \in In(t) : Verb(d) = "deliver" /\ From(d) = "liaison"
    BY DEF IsRound
<1>2. d \in Ids /\ Thread(d) = t
    BY DEF In
<1> QED
    BY <1>1, <1>2, OldRow DEF Thread, Verb, From

LEMMA StepTrades ==
    ASSUME TypeOK, Trades, NEW src, NEW out, Step(src, out)
    PROVE  Trades'
<1>0. /\ Grows(src, out) /\ Settles(src, out) /\ Gives(out)
      /\ \A k \in DOMAIN out : Bound(src, out[k])
      /\ quiet \subseteq quiet'
    BY DEF Step
<1> SUFFICES ASSUME NEW i \in Ids' PROVE Trade(i)'
    BY DEF Trades
<1> DEFINE Round(t) == \E d \in Ids' : mail'[d].thread = t /\ mail'[d].verb = "deliver" /\ mail'[d].from = "liaison"
<1>1. IsRound(Thread(i))' <=> Round(mail'[i].thread)
    BY DEF IsRound, In, Thread, Verb, From
<1>r. \A t : IsRound(t) => Round(t)
    BY <1>0, RoundStays
<1> HIDE DEF Round
<1>2. CASE i \in Ids
  <2>1. mail'[i] = mail[i] /\ Trade(i)
    BY <1>0, <1>2, OldRow DEF Trades
  <2>2. Thread(i) \in Ids /\ mail'[Thread(i)] = mail[Thread(i)]
    BY <1>0, <1>2, RowType, OldRow
  <2>3. Cause(i) # 0 => mail'[Cause(i)] = mail[Cause(i)]
    BY <1>0, <1>2, RowType, OldRow
  <2>4. From(Thread(i))' = From(Thread(i)) /\ (Cause(i) # 0 => From(Cause(i))' = From(Cause(i)))
    BY <2>1, <2>2, <2>3 DEF From, Thread, Cause
  <2>5. IsRound(Thread(i)) => IsRound(Thread(i))'
    BY <1>1, <1>r, <2>1 DEF Thread
  <2>6. /\ From(i)' = From(i) /\ Verb(i)' = Verb(i) /\ Cause(i)' = Cause(i) /\ Thread(i)' = Thread(i)
        /\ mail'[i].to = mail[i].to
    BY <2>1 DEF From, Verb, Cause, Thread
  <2>7. Verb(i)' = "challenge" /\ status'[i] = "unresolved" => Thread(i)' \in quiet'
    BY <1>0, <1>2, <2>1, <2>6 DEF Gives, Trade
  <2> QED
    BY <2>1, <2>4, <2>5, <2>6, <2>7 DEF Trade
<1>3. CASE i \notin Ids
  <2>1. PICK k \in DOMAIN out : mail'[i] = out[k] /\ mail'[i].cause = src /\ mail'[i].thread = ThreadOf(src, i)
    BY <1>0, <1>3, NewRow
  <2>2. Bound(src, out[k]) /\ status'[i] = "open"
    BY <1>0, <1>3, Rows DEF Settles
  <2>3. src # 0 => src \in Ids /\ Thread(src) \in Ids
    BY <1>0, RowType DEF Grows
  <2>4. src # 0 => mail'[src] = mail[src] /\ mail'[Thread(src)] = mail[Thread(src)]
    BY <1>0, <2>3, OldRow
  <2>5. /\ Verb(i)' = out[k].verb /\ From(i)' = out[k].from /\ Cause(i)' = src
        /\ mail'[i].to = out[k].to
    BY <2>1 DEF Verb, From, Cause
  <2>6. src # 0 => From(Cause(i))' = From(src)
    BY <2>1, <2>4 DEF From, Cause
  <2>7. IF src = 0 THEN From(Thread(i))' = out[k].from
        ELSE mail'[i].thread = Thread(src) /\ From(Thread(i))' = From(Thread(src))
    BY <2>1, <2>4 DEF From, Thread, ThreadOf
  <2>8. src # 0 /\ IsRound(Thread(src)) => IsRound(Thread(i))'
    BY <1>1, <1>r, <2>7
  <2> QED
    BY <2>2, <2>5, <2>6, <2>7, <2>8 DEF Trade, Bound
<1> QED
    BY <1>2, <1>3

LEMMA StepErrands ==
    ASSUME TypeOK, Errands, NEW src, NEW out, Step(src, out)
    PROVE  Errands'
<1>0. /\ Grows(src, out) /\ Settles(src, out) /\ Together(src, out) /\ Tends(src, out)
      /\ \A k \in DOMAIN out : Posted(src, out[k])
      /\ quiet \subseteq quiet'
    BY DEF Step
<1> SUFFICES ASSUME NEW t \in Ids', mail'[t].thread = t, mail'[t].from \in Workers, t \notin quiet'
             PROVE  /\ \A i, j \in Ids' : (/\ mail'[i].thread = t /\ mail'[j].thread = t
                                          /\ status'[i] = "open" /\ status'[j] = "open") => i = j
                    /\ (\E i \in Ids' : mail'[i].thread = t /\ mail'[i].from = "liaison") =>
                          \A i \in Ids' : mail'[i].thread = t =>
                              /\ status'[i] # "unresolved"
                              /\ status'[i] = "open" => mail'[i].verb \in Late
    BY DEF Errands, Tended, Errand, Spoke, Handed, In, Thread, From, Verb
<1>n. ASSUME NEW i \in Ids', i \notin Ids
      PROVE  /\ status'[i] = "open" /\ mail'[i].thread = ThreadOf(src, i)
             /\ \E k \in DOMAIN out : i = Len(mail) + k /\ mail'[i] = out[k]
    BY <1>0, <1>n, NewRow, Rows DEF Settles
<1>s. src # 0 => src \in Ids /\ Thread(src) \in Ids
    BY <1>0, RowType DEF Grows
<1>1. CASE t \in Ids
  <2>1. Errand(t) /\ t \notin quiet
    BY <1>0, <1>1, OldRow DEF Errand, Thread, From
  <2>2. /\ \A i, j \in In(t) : status[i] = "open" /\ status[j] = "open" => i = j
        /\ Spoke(t) => Handed(t)
    BY <1>1, <2>1 DEF Errands, Tended
  <2>3. \A i \in Ids : mail'[i].thread = t <=> i \in In(t)
    BY <1>0, OldRow DEF In, Thread
  <2>4. CASE src = 0 \/ Thread(src) # t
    <3>1. \A i \in Ids' : mail'[i].thread = t => i \in Ids
      BY <1>1, <1>n, <2>4 DEF ThreadOf
    <3>2. \A i \in In(t) : status'[i] = status[i] /\ mail'[i] = mail[i]
      BY <1>0, <2>4, OldRow DEF Settles, In
    <3> QED
      BY <2>2, <2>3, <3>1, <3>2 DEF Spoke, Handed, From, Verb
  <2>5. CASE src # 0 /\ Thread(src) = t
    <3>1. /\ Len(out) <= 1 /\ (out # <<>> => \A i \in In(t) : status'[i] # "open")
          /\ Spoke(t) \/ (\E k \in DOMAIN out : out[k].from = "liaison") =>
                /\ \A k \in DOMAIN out : out[k].verb \in Late
                /\ \A i \in In(t) : /\ status'[i] # "unresolved"
                                    /\ status'[i] = "open" => Verb(i) \in Late
      BY <1>0, <1>1, <2>1, <2>5 DEF Tends
    <3>2. \A i \in In(t) : status'[i] = "open" => status[i] = "open"
      BY <1>0 DEF Settles, In
    <3>3. ASSUME NEW i \in Ids', NEW j \in Ids', mail'[i].thread = t, mail'[j].thread = t,
                 status'[i] = "open", status'[j] = "open"
          PROVE  i = j
      <4>1. CASE i \in Ids /\ j \in Ids
        BY <2>2, <2>3, <3>2, <3>3, <4>1
      <4>2. CASE (i \in Ids /\ j \notin Ids) \/ (i \notin Ids /\ j \in Ids)
        BY <1>n, <2>3, <3>1, <3>3, <4>2
      <4>3. CASE i \notin Ids /\ j \notin Ids
        <5>1. PICK k \in DOMAIN out : i = Len(mail) + k
          BY <1>n, <4>3
        <5>2. PICK l \in DOMAIN out : j = Len(mail) + l
          BY <1>n, <4>3
        <5>3. k = 1 /\ l = 1
          BY <1>0, <3>1, Rows
        <5> QED
          BY <5>1, <5>2, <5>3
      <4> QED
        BY <4>1, <4>2, <4>3
    <3>4. ASSUME NEW h \in Ids', mail'[h].thread = t, mail'[h].from = "liaison",
                 NEW i \in Ids', mail'[i].thread = t
          PROVE  status'[i] # "unresolved" /\ (status'[i] = "open" => mail'[i].verb \in Late)
      <4>1. Spoke(t) \/ (\E k \in DOMAIN out : out[k].from = "liaison")
        <5>1. CASE h \in Ids
          BY <1>0, <2>3, <3>4, <5>1, OldRow DEF Spoke, From
        <5>2. CASE h \notin Ids
          BY <1>n, <3>4, <5>2
        <5> QED
          BY <5>1, <5>2
      <4>2. CASE i \in Ids
        BY <1>0, <2>3, <3>1, <3>4, <4>1, <4>2, OldRow DEF Verb
      <4>3. CASE i \notin Ids
        BY <1>n, <3>1, <4>1, <4>3
      <4> QED
        BY <4>2, <4>3
    <3> QED
      BY <3>3, <3>4
  <2> QED
    BY <2>4, <2>5
<1>2. CASE t \notin Ids
  <2>1. src = 0
    BY <1>2, <1>n, <1>s DEF ThreadOf
  <2>2. ASSUME NEW i \in Ids', mail'[i].thread = t PROVE i = t
    <3>1. i \notin Ids
      BY <1>0, <1>2, <2>2, OldRow, RowType DEF Thread
    <3> QED
      BY <1>n, <2>1, <2>2, <3>1 DEF ThreadOf
  <2> QED
    BY <2>2 DEF Workers
<1> QED
    BY <1>1, <1>2

\* Every step that is one of these keeps the invariant.
LEMMA StepKeeps ==
    ASSUME IInv, NEW src, NEW out, Step(src, out)
    PROVE  IInv'
<1>1. TypeOK' /\ Shape' /\ OneTurn' /\ AllSpent' /\ EachReplyIsNew' /\ RoundIsOneQuestion' /\ GivenUp'
    BY StepTypes, StepShape, StepOneTurn, StepSpent, StepNewReply, StepRound, StepGivenUp DEF IInv
<1>3. Trades' /\ Errands'
    BY StepTrades, StepErrands DEF IInv
<1>2. \A q \in Ids' : Kept(q)' /\ Pursued(q)'
    BY StepKept, StepPursued DEF IInv
<1> QED
    BY <1>1, <1>2, <1>3 DEF IInv, Inquest

-----------------------------------------------------------------------------
(***************************************************************************)
(* A session is such a step.                                               *)
(***************************************************************************)

\* A message of a session's is one its mode offers, or of a fan-out.
Granted(w, m) ==
    /\ <<w.role, w.mode, m.verb, m.to>> \in Grant /\ m.to \in Role \cup Person
    /\ m.verb = "answer" /\ w.src # 0 => m.to = From(w.src)
FannedOut(w, m) ==
    /\ w.role = "liaison" /\ m.to \in Role \ {"liaison"}
    /\ \/ w.mode = "converse" /\ m.verb = "ask"
       \/ w.mode = "verdict" /\ m.verb = "deliver"

LEMMA FormOf ==
    ASSUME NEW w, NEW out, Outgoing(w, out), NEW k \in DOMAIN out
    PROVE  /\ out[k].from = w.role /\ (Granted(w, out[k]) \/ FannedOut(w, out[k]))
           /\ out[k].verb \notin {"ask", "deliver"} => Len(out) = 1
<1>1. out # <<>> /\ out[k].from = w.role /\ DOMAIN out = 1 .. Len(out)
    BY DEF Outgoing
<1>2. CASE SentOne(w, out)
  <2>1. k = 1
    BY <1>1, <1>2 DEF SentOne
  <2> QED
    BY <1>1, <1>2, <2>1 DEF SentOne, Granted
<1>3. CASE w.mode = "converse" /\ SentAll(w, out, "ask")
    BY <1>1, <1>3 DEF SentAll, FannedOut
<1>4. CASE w.mode = "verdict" /\ SentAll(w, out, "deliver")
    BY <1>1, <1>4 DEF SentAll, FannedOut
<1> QED
    BY <1>1, <1>2, <1>3, <1>4 DEF Outgoing

LEMMA GrantedIs ==
    ASSUME NEW w, NEW m, Granted(w, m)
    PROVE  /\ m.verb \notin {"ask", "deliver", "verdict"}
           /\ m.verb = "converse" => /\ w.role = "liaison" /\ m.to = "principal"
                                     /\ w.mode \in {"converse", "answer"}
           /\ m.verb \in {"question", "challenge"} => w.role # "liaison" /\ m.to \in Role
           /\ w.mode = "ask" => m.verb \in {"answer", "report"}
           /\ m.verb = "confirm" => w.role = "liaison" /\ w.mode = "converse"
           /\ m.verb = "clarify" => /\ w.role = "liaison"
                                    /\ w.mode \in {"converse", "unresolved", "report", "round_close"}
           /\ m.verb = "submit" => m.to = "liaison"
           /\ w.mode = "unresolved" /\ w.role = "liaison" => m.to = "principal"
           /\ w.mode = "unresolved" /\ w.role # "liaison" => m.verb \in {"answer", "report", "submit"}
           /\ w.role = "liaison" /\ w.mode \in {"answer", "submit"} => m.to = "principal"
<1> DEFINE g == <<w.role, w.mode, m.verb, m.to>>
<1>1. g \in Grant /\ g[1] = w.role /\ g[2] = w.mode /\ g[3] = m.verb /\ g[4] = m.to
    BY DEF Granted
<1> HIDE DEF g
<1>2. GrantOK(g) /\ ModeOK(g)
    BY <1>1, Grants, Modes
<1>3. m.to \in Role \cup Person /\ "principal" \notin Roles
    BY DEF Granted, Roles
<1> QED
    BY <1>1, <1>2, <1>3 DEF GrantOK, ModeOK, Person

\* A wake of a verb's mode is of a message.
LEMMA OfVerb ==
    ASSUME TypeOK, NEW w \in Frontier,
           w.mode \notin {"unresolved", "criterion_repair", "round_close", "batch_start", "tests_missing"}
    PROVE  /\ OfMessage(w) /\ w.src \in Ids /\ w.src # 0 /\ status[w.src] = "open"
           /\ mail[w.src].to = w.role /\ w.role \in Role /\ ModeOf(w.src) = w.mode
           /\ ~WaitsForOthers(w.src) /\ ~IsTick(w)
<1>1. ~IsTick(w)
    BY DEF IsTick
<1>2. OfMessage(w)
    BY <1>1, WakeKinds DEF OfTick
<1> QED
    BY <1>1, <1>2, RowType DEF OfMessage, Tips, Is

\* What the Liaison converses about is words that open a thread.
LEMMA Converses ==
    ASSUME TypeOK, Shape, NEW w \in Frontier, w.mode = "converse", w.role = "liaison"
    PROVE  IsRoot(w.src) /\ status[w.src] = "open"
<1>1. /\ w.src \in Ids /\ w.src # 0 /\ status[w.src] = "open"
      /\ mail[w.src].to = "liaison" /\ ModeOf(w.src) = "converse"
    BY OfVerb
<1>2. Verb(w.src) = "converse" /\ (Cause(w.src) # 0 => Verb(Cause(w.src)) # "clarify")
    BY <1>1 DEF ModeOf
<1>3. Cause(w.src) = 0
    BY <1>1, <1>2 DEF Shape, WellSent
<1> QED
    BY <1>1, <1>2, <1>3 DEF IsRoot

LEMMA SessionPosts ==
    ASSUME TypeOK, Shape, NEW w \in Frontier, NEW out, Outgoing(w, out), NEW k \in DOMAIN out
    PROVE  Posted(w.src, out[k])
<1> DEFINE m == out[k]
<1>1. m.from = w.role /\ (Granted(w, m) \/ FannedOut(w, m))
    BY FormOf
<1> HIDE DEF m
<1>2. CASE Granted(w, m)
  <2>1. m.verb = "confirm" => IsRoot(w.src) /\ status[w.src] = "open"
    BY <1>2, GrantedIs, Converses
  <2>2. m.verb = "answer" /\ w.src # 0 /\ Verb(w.src) = "ask" => m.to = "liaison"
    BY <1>2, SourceKnown DEF Granted, Shape, WellSent
  <2> QED
    BY <1>1, <1>2, <2>1, <2>2, GrantedIs DEF Posted, m
<1>3. CASE FannedOut(w, m) /\ w.mode = "converse" /\ m.verb = "ask"
    BY <1>1, <1>3, Converses DEF FannedOut, Posted, m
<1>4. CASE FannedOut(w, m) /\ w.mode = "verdict" /\ m.verb = "deliver"
  <2>1. w.src \in Ids /\ w.src # 0 /\ ModeOf(w.src) = "verdict"
    BY <1>4, OfVerb
  <2>2. Verb(w.src) = "verdict" /\ ~(Cause(w.src) # 0 /\ Verb(Cause(w.src)) = "present")
    BY <2>1 DEF ModeOf
  <2>3. Cause(w.src) # 0 /\ Verb(Cause(w.src)) \in {"confirm", "present"}
    BY <2>1, <2>2 DEF Shape, WellSent
  <2> QED
    BY <1>1, <1>4, <2>1, <2>2, <2>3 DEF FannedOut, Posted, m
<1> QED
    BY <1>1, <1>2, <1>3, <1>4 DEF FannedOut

LEMMA SessionTogether ==
    ASSUME TypeOK, Shape, NEW w \in Frontier, NEW out, Outgoing(w, out), NEW reask,
           CommitOK(w, out, reask, status')
    PROVE  Together(w.src, out)
<1>1. ASSUME IsRoot(w.src) PROVE status'[w.src] # "open"
  <2>1. w.src \in Ids /\ Verb(w.src) = "converse" /\ w.src # 0
    BY <1>1, RowType DEF IsRoot
  <2>2. CASE ~IsTick(w)
    BY <2>2 DEF CommitOK
  <2>3. CASE OfTick(w)
    <3>1. Verb(w.src) \notin Asking
      BY <2>1 DEF Asking
    <3>2. w.mode = "round_close" /\ IsRound(w.src)
      BY <2>1, <2>3, <3>1, TickSources, UnresolvedAsks
    <3>3. PICK d \in In(w.src) : Verb(d) = "deliver"
      BY <3>2 DEF IsRound
    <3>4. status[w.src] # "open"
      BY <1>1, <2>1, <3>3 DEF Shape, AloneWhileOpen
    <3> QED
      BY <2>1, <3>4 DEF CommitOK
  <2> QED
    BY <2>2, <2>3, WakeKinds DEF OfMessage
<1>2. \A k \in DOMAIN out : out[k].verb \notin {"ask", "deliver"} => Len(out) = 1
    BY FormOf
<1>3. ASSUME NEW k \in DOMAIN out, NEW l \in DOMAIN out PROVE out[k].verb = out[l].verb
  <2>1. out # <<>> /\ DOMAIN out = 1 .. Len(out)
    BY DEF Outgoing
  <2>2. CASE SentOne(w, out)
    <3>1. k = 1 /\ l = 1
      BY <2>1, <2>2 DEF SentOne
    <3> QED
      BY <3>1
  <2>3. CASE SentAll(w, out, "ask") \/ SentAll(w, out, "deliver")
    BY <2>3 DEF SentAll
  <2> QED
    BY <2>1, <2>2, <2>3 DEF Outgoing
<1> QED
    BY <1>1, <1>2, <1>3 DEF Together

LEMMA SessionTakesAll ==
    ASSUME TypeOK, Shape, NEW w \in Frontier, NEW out, Outgoing(w, out), NEW reask,
           CommitOK(w, out, reask, status')
    PROVE  TakesAll(w.src, out)
<1> SUFFICES ASSUME NEW k \in DOMAIN out, out[k].from = "liaison", out[k].verb = "converse",
                    w.src # 0, RepliesToAsk(w.src)
             PROVE  /\ Verb(w.src) = "answer" /\ status[w.src] = "open"
                    /\ \A a \in In(Thread(w.src)) :
                          Verb(a) = "answer" /\ RepliesToAsk(a) => status'[a] # "open"
    BY DEF TakesAll
<1>1. w.role = "liaison" /\ w.mode \in {"converse", "answer"}
    BY FormOf, GrantedIs DEF FannedOut
<1>2. w.mode # "converse"
    BY <1>1, Converses DEF IsRoot, RepliesToAsk
<1>3. ~IsTick(w) /\ ModeOf(w.src) = "answer" /\ status[w.src] = "open"
    BY <1>1, <1>2, OfVerb
<1>4. Verb(w.src) = "answer"
    BY <1>3 DEF ModeOf
<1> QED
    BY <1>3, <1>4 DEF CommitOK

LEMMA SessionAsksOnce ==
    ASSUME TypeOK, Shape, OneTurn, NEW w \in Frontier, NEW out, Outgoing(w, out)
    PROVE  AsksOnce(w.src, out)
<1> SUFFICES ASSUME NEW k \in DOMAIN out, out[k].from = "liaison", out[k].verb = "clarify", w.src # 0,
                    NEW i \in In(Thread(w.src)), From(i) = "liaison", Verb(i) = "clarify",
                    NEW d \in In(Thread(w.src)), Verb(d) = "deliver"
             PROVE  FALSE
    BY DEF AsksOnce
<1>1. w.role = "liaison" /\ w.mode \in {"converse", "unresolved", "report", "round_close"}
    BY FormOf, GrantedIs DEF FannedOut
<1>2. w.src \in Ids /\ i \in Ids /\ d \in Ids /\ Thread(i) = Thread(w.src) /\ Thread(d) = Thread(w.src)
    BY SourceKnown DEF In
<1>3. From(d) = "liaison" /\ IsRound(Thread(w.src))
    BY <1>2 DEF Shape, WellSent, IsRound
<1>4. CASE w.mode = "converse"
  <2>1. IsRoot(w.src) /\ status[w.src] = "open"
    BY <1>1, <1>4, Converses
  <2>2. Thread(w.src) = w.src
    BY <1>2, <2>1 DEF IsRoot, Shape, InItsThread
  <2>3. i = w.src
    BY <1>2, <2>1, <2>2, OpenRootIsAlone
  <2> QED
    BY <2>1, <2>3 DEF IsRoot
<1>5. CASE w.mode = "report"
  <2>1. ModeOf(w.src) = "report" /\ ~WaitsForOthers(w.src)
    BY <1>5, OfVerb
  <2>2. Verb(w.src) = "report"
    BY <2>1 DEF ModeOf
  <2> QED
    BY <1>3, <2>1, <2>2 DEF WaitsForOthers
<1>6. CASE w.mode = "unresolved"
  <2>1. OfTick(w)
    BY <1>6, WakeKinds DEF OfMessage, IsTick
  <2>2. w.src \in Is("unresolved") /\ "liaison" \in NextRung(w.src)
    BY <1>1, <1>6, <2>1, TickSources
  <2>3. Verb(w.src) \in Asking
    BY <2>2, UnresolvedAsks
  <2>4. Verb(w.src) # "ask"
    BY <1>2, NoBoth
  <2>5. From(w.src) # "liaison"
    BY <1>2, <2>3, <2>4 DEF Shape, WellSent, Asking
  <2>6. PICK n \in RungsLeft(w.src) : Ladder(w.src)[n] = "liaison"
    BY <2>2, <2>5 DEF NextRung
  <2> QED
    BY <2>6 DEF RungsLeft
<1>7. CASE w.mode = "round_close"
  <2>1. OfTick(w)
    BY <1>7, WakeKinds DEF OfMessage, IsTick
  <2>2. IsRound(w.src) /\ ~Harvested(w.src)
    BY <1>7, <2>1, TickSources
  <2>3. PICK e \in In(w.src) : TRUE
    BY <2>2 DEF IsRound
  <2>4. e \in Ids /\ Thread(e) = w.src
    BY <2>3 DEF In
  <2>5. Thread(w.src) = w.src
    BY <2>4 DEF Shape, InItsThread
  <2> QED
    BY <2>2, <2>5 DEF Harvested
<1> QED
    BY <1>1, <1>4, <1>5, <1>6, <1>7

\* What can wake a session in the thread of an ask that has not come back.
LEMMA PursuitSource ==
    ASSUME TypeOK, Shape, OneTurn, Inquest, NEW w \in Frontier, NEW q \in Ids, InPursuit(w.src, q)
    PROVE  /\ w.src \in Ids /\ OfAnInquiry(w.src)
           /\ \/ Verb(w.src) = "ask" /\ w.mode \in {"ask", "unresolved"}
              \/ Verb(w.src) # "ask" /\ w.role = "liaison" /\ w.mode \in {"answer", "submit"}
<1>1. w.src \in Ids /\ w.src # 0 /\ Verb(q) = "ask" /\ Thread(q) = Thread(w.src) /\ ~CameBack(q)
    BY SourceKnown DEF InPursuit
<1>2. IsRoot(Cause(q)) /\ Thread(q) = Cause(q)
  <2>1. IsRoot(Cause(q)) /\ Cause(q) # 0
    BY <1>1, RowType DEF Shape, WellSent, IsRoot
  <2>2. Thread(Cause(q)) = Cause(q) /\ Thread(q) = Thread(Cause(q))
    BY <2>1 DEF Shape, InItsThread, IsRoot
  <2> QED
    BY <2>1, <2>2
<1>3. w.src = Thread(q) \/ OfAnInquiry(w.src)
  <2>1. Kept(q)
    BY DEF Inquest
  <2> QED
    BY <1>1, <2>1 DEF Kept, In
<1>4. CASE OfTick(w)
  <2>1. w.mode # "round_close"
    <3> SUFFICES ASSUME w.mode = "round_close" PROVE FALSE
      OBVIOUS
    <3>1. IsRound(w.src)
      BY <1>4, TickSources
    <3>2. PICK d \in In(w.src) : Verb(d) = "deliver"
      BY <3>1 DEF IsRound
    <3>3. d \in Ids /\ Thread(d) = w.src
      BY <3>2 DEF In
    <3>4. Thread(d) = Thread(q)
      BY <1>1, <3>3 DEF Shape, InItsThread
    <3> QED
      BY <1>1, <3>2, <3>3, <3>4, NoBoth
  <2>2. w.src \in Is("unresolved") /\ w.mode \in {"unresolved", "criterion_repair"}
    BY <1>1, <1>4, <2>1, TickSources
  <2>3. Verb(w.src) \in Asking
    BY <2>2, UnresolvedAsks
  <2>4. Verb(w.src) = "ask"
    BY <1>2, <1>3, <2>3 DEF OfAnInquiry, Asking, IsRoot
  <2>5. From(w.src) = "liaison"
    BY <1>1, <2>4 DEF Shape, WellSent
  <2>6. w.mode # "criterion_repair"
    BY <1>4, <2>5, TickSources
  <2> QED
    BY <1>1, <2>2, <2>4, <2>6 DEF OfAnInquiry
<1>5. CASE OfMessage(w)
  <2>1. /\ status[w.src] = "open" /\ ~WaitsForOthers(w.src)
        /\ w.role = mail[w.src].to /\ w.mode = ModeOf(w.src)
    BY <1>5 DEF OfMessage, Tips, Is
  <2>2. w.src # Thread(q)
    <3> SUFFICES ASSUME w.src = Thread(q) PROVE FALSE
      OBVIOUS
    <3>1. q = w.src
      BY <1>2, <2>1, OpenRootIsAlone
    <3> QED
      BY <1>1, <1>2, <3>1 DEF IsRoot
  <2>3. OfAnInquiry(w.src)
    BY <1>3, <2>2
  <2>4. CASE Verb(w.src) = "ask"
    BY <1>1, <2>1, <2>3, <2>4 DEF ModeOf
  <2>5. CASE Verb(w.src) = "submit"
    BY <1>1, <2>1, <2>3, <2>5 DEF ModeOf, Shape, WellSent
  <2>6. CASE Verb(w.src) \in {"answer", "report"} /\ RepliesToAsk(w.src)
    <3>1. Verb(w.src) = "answer"
      BY <2>1, <2>6 DEF WaitsForOthers
    <3> QED
      BY <1>1, <2>1, <2>3, <2>6, <3>1 DEF ModeOf, Shape, WellSent
  <2> QED
    BY <2>3, <2>4, <2>5, <2>6 DEF OfAnInquiry
<1> QED
    BY <1>4, <1>5, WakeKinds

LEMMA SessionStaysInquiry ==
    ASSUME TypeOK, Shape, OneTurn, Inquest, NEW w \in Frontier, NEW out, Outgoing(w, out)
    PROVE  StaysInquiry(w.src, out)
<1> SUFFICES ASSUME NEW q \in Ids, InPursuit(w.src, q), NEW k \in DOMAIN out
             PROVE  \/ ToPerson(out[k]) \/ out[k].verb = "submit"
                    \/ out[k].verb \in {"answer", "report"} /\ Verb(w.src) = "ask"
    BY DEF StaysInquiry
<1>1. \/ Verb(w.src) = "ask" /\ w.mode \in {"ask", "unresolved"}
      \/ Verb(w.src) # "ask" /\ w.role = "liaison" /\ w.mode \in {"answer", "submit"}
    BY PursuitSource
<1>2. out[k].from = w.role /\ Granted(w, out[k])
    BY <1>1, FormOf DEF FannedOut
<1> QED
    BY <1>1, <1>2, GrantedIs DEF ToPerson

LEMMA SessionStaysAwaited ==
    ASSUME TypeOK, Shape, OneTurn, Inquest, NEW w \in Frontier, NEW out, Outgoing(w, out),
           NEW reask \in BOOLEAN, reask => CanReask(w), CommitOK(w, out, reask, status'),
           out = <<>> /\ ~reask /\ w.src # 0 => Thread(w.src) \in quiet'
    PROVE  StaysAwaited(w.src, out)
<1> SUFFICES ASSUME NEW q \in Ids, InPursuit(w.src, q)
             PROVE  \/ Thread(q) \in quiet'
                    \/ \E k \in DOMAIN out : \/ ToPerson(out[k]) \/ out[k].verb = "submit"
                                             \/ out[k].verb = "answer" /\ Verb(w.src) = "ask"
                    \/ \E x \in In(Thread(q)) : Verb(x) = "ask" /\ status'[x] = "unresolved"
    BY DEF StaysAwaited
<1>1. w.src # 0 /\ w.src \in Ids /\ w.src \in In(Thread(q)) /\ Thread(q) = Thread(w.src) /\ OfAnInquiry(w.src)
    BY PursuitSource DEF InPursuit, In
<1>2. CASE out = <<>> /\ ~reask
    BY <1>1, <1>2
<1>3. CASE out = <<>> /\ reask
  <2>1. status'[Cause(w.src)] = "unresolved"
    BY <1>3 DEF CommitOK
  <2>2. Cause(w.src) \in Ids /\ Thread(Cause(w.src)) = Thread(w.src) /\ Verb(w.src) = "answer"
    BY <1>3, ReaskCause
  <2>3. Verb(Cause(w.src)) = "ask"
    BY <1>1, <2>2 DEF OfAnInquiry, RepliesToAsk
  <2>4. Cause(w.src) \in In(Thread(q))
    BY <1>1, <2>2 DEF In
  <2> QED
    BY <2>1, <2>3, <2>4
<1>4. CASE out # <<>>
  <2>1. 1 \in DOMAIN out
    BY <1>4 DEF Outgoing
  <2>2. \/ ToPerson(out[1]) \/ out[1].verb = "submit"
        \/ out[1].verb \in {"answer", "report"} /\ Verb(w.src) = "ask"
    BY <2>1, SessionStaysInquiry DEF StaysInquiry
  <2>3. out[1].verb = "report" /\ Verb(w.src) = "ask" => status'[w.src] = "unresolved"
    BY <1>1, <2>1 DEF CommitOK
  <2> QED
    BY <1>1, <2>1, <2>2, <2>3
<1> QED
    BY <1>2, <1>3, <1>4

LEMMA GrantedTrade ==
    ASSUME NEW w, NEW m, Granted(w, m)
    PROVE  /\ w.role \in Workers => m.verb = "question" /\ w.mode \in {"batch_start", "tests_missing", "answer"}
           /\ w.mode \in {"batch_start", "tests_missing"} => w.role \in Workers
           /\ m.verb \in {"clarify", "present"} => m.to = "principal"
           /\ m.to = "principal" => w.role = "liaison"
           /\ m.verb = "question" => w.mode = "deliver" \/ w.role \in Workers
           /\ m.verb = "challenge" => w.mode \in {"deliver", "criterion_repair"}
           /\ w.role = "liaison" => m.verb \in Late \cup {"confirm"}
           /\ w.mode # "relay"
<1> DEFINE g == <<w.role, w.mode, m.verb, m.to>>
<1>1. g \in Grant /\ g[1] = w.role /\ g[2] = w.mode /\ g[3] = m.verb /\ g[4] = m.to
    BY DEF Granted
<1> HIDE DEF g
<1>2. TradeOK(g)
    BY <1>1, TradeGrants
<1> QED
    BY <1>1, <1>2 DEF TradeOK

\* The thread of what a question or a challenge is raised on.
LEMMA RaisedIn ==
    ASSUME TypeOK, Shape, Trades, NEW w \in Frontier, w.src # 0,
           \/ w.mode = "deliver"
           \/ w.mode = "criterion_repair"
           \/ w.mode = "answer" /\ w.role \in Workers
    PROVE  IsRound(Thread(w.src)) \/ From(Thread(w.src)) \in Workers
<1>1. CASE w.mode = "deliver"
  <2>1. w.src \in Ids /\ ModeOf(w.src) = "deliver"
    BY <1>1, OfVerb
  <2>2. Verb(w.src) = "deliver"
    BY <2>1 DEF ModeOf
  <2>3. From(w.src) = "liaison"
    BY <2>1, <2>2 DEF Shape, WellSent
  <2> QED
    BY <2>1, <2>2, <2>3 DEF IsRound, In
<1>2. CASE w.mode = "criterion_repair"
  <2>1. OfTick(w)
    BY <1>2, WakeKinds DEF OfMessage, IsTick
  <2>2. w.src \in Ids /\ From(w.src) = "tester"
    BY <1>2, <2>1, TickSources
  <2> QED
    BY <2>2 DEF Trades, Trade, Workers
<1>3. CASE w.mode = "answer" /\ w.role \in Workers
  <2>1. w.src \in Ids /\ ModeOf(w.src) = "answer" /\ mail[w.src].to = w.role
    BY <1>3, OfVerb
  <2>2. Verb(w.src) = "answer"
    BY <2>1 DEF ModeOf
  <2>3. Cause(w.src) # 0 /\ From(Cause(w.src)) = w.role
    BY <2>1, <2>2 DEF Trades, Trade
  <2>4. Cause(w.src) \in Ids /\ Thread(Cause(w.src)) = Thread(w.src)
    BY <2>1, <2>3, RowType DEF Shape, InItsThread
  <2> QED
    BY <1>3, <2>3, <2>4 DEF Trades, Trade
<1> QED
    BY <1>1, <1>2, <1>3

\* A session of no source is of a tick that starts something.
LEMMA NoSource ==
    ASSUME TypeOK, NEW w \in Frontier, w.src = 0
    PROVE  w.mode \in {"batch_start", "tests_missing"}
<1>1. OfTick(w)
    BY RowType, WakeKinds DEF OfMessage, Tips, Is
<1> QED
    BY <1>1, TickSources, RowType

LEMMA SessionBound ==
    ASSUME TypeOK, Shape, Trades, NEW w \in Frontier, NEW out, Outgoing(w, out), NEW k \in DOMAIN out
    PROVE  Bound(w.src, out[k])
<1> DEFINE m == out[k]
<1>1. m.from = w.role /\ (Granted(w, m) \/ FannedOut(w, m))
    BY FormOf
<1>p. "principal" \notin Role /\ "liaison" \notin Workers
    BY InquiryAssumption DEF Roles, Workers
<1> HIDE DEF m
<1>2. CASE FannedOut(w, m)
    BY <1>1, <1>2, <1>p DEF FannedOut, Bound, m
<1>3. CASE Granted(w, m)
  <2>1. m.verb = "answer" => w.src # 0 /\ m.to = From(w.src)
    BY <1>3, GrantedTrade, NoSource DEF Granted
  <2>2. m.verb = "question" /\ w.src = 0 => m.from \in Workers
    BY <1>1, <1>3, GrantedTrade, NoSource
  <2>3. m.verb = "challenge" => w.src # 0
    BY <1>3, GrantedTrade, NoSource
  <2>4. m.verb = "question" /\ w.src # 0 => IsRound(Thread(w.src)) \/ From(Thread(w.src)) \in Workers
    <3>1. w.mode \in {"batch_start", "tests_missing"} => w.src = 0
      <4> SUFFICES ASSUME w.mode \in {"batch_start", "tests_missing"} PROVE w.src = 0
        OBVIOUS
      <4>1. IsTick(w)
        BY DEF IsTick
      <4> QED
        BY <4>1, WakeKinds, TickSources DEF OfMessage
    <3> QED
      BY <1>3, <3>1, GrantedTrade, RaisedIn
  <2>5. m.verb = "challenge" => IsRound(Thread(w.src)) \/ From(Thread(w.src)) \in Workers
    BY <1>3, <2>3, GrantedTrade, RaisedIn
  <2>6. m.to \in Role \cup Person /\ m.verb # "verdict"
    BY <1>3, GrantedIs DEF Granted
  <2>7. /\ m.from \in Workers => m.verb = "question"
        /\ m.to = "principal" => m.from = "liaison"
        /\ m.verb \in {"clarify", "present"} => m.to = "principal"
    BY <1>1, <1>3, GrantedTrade
  <2> QED
    BY <2>1, <2>2, <2>3, <2>4, <2>5, <2>6, <2>7 DEF Bound, m
<1> QED
    BY <1>1, <1>2, <1>3

LEMMA SessionGives ==
    ASSUME TypeOK, Shape, NEW w \in Frontier, NEW out, NEW reask \in BOOLEAN, NEW wall \in BOOLEAN,
           reask => CanReask(w), wall => CanMeetWall(w),
           CommitLeaves(w, out, reask, wall, status'),
           out = <<>> /\ ~reask /\ w.src # 0 => Thread(w.src) \in quiet'
    PROVE  Gives(out)
<1> SUFFICES ASSUME NEW i \in Ids, Verb(i) = "challenge", status'[i] = "unresolved"
             PROVE  status[i] = "unresolved" \/ Thread(i) \in quiet'
    BY DEF Gives
<1>1. reask \/ wall => Verb(Cause(w.src)) \in {"question", "ask"}
    BY DEF CanReask, CanMeetWall
<1>2. i # 0
    BY RowType
<1> QED
    BY <1>1, <1>2 DEF CommitLeaves

\* A thread a worker opened holds nothing of the principal's rounds.
LEMMA ErrandHolds ==
    ASSUME TypeOK, Shape, Trades, NEW t \in Ids, Errand(t), NEW i \in In(t)
    PROVE  /\ Verb(i) \notin {"ask", "confirm", "deliver"} /\ ~IsRoot(i) /\ ~RepliesToAsk(i)
           /\ i \in Ids /\ Thread(i) = t
<1>1. Verb(t) = "question"
    BY DEF Errand, Trades, Trade
<1>2. ~IsRoot(t)
    BY <1>1 DEF IsRoot
<1>3. i \in Ids /\ Thread(i) = t
    BY DEF In
<1>4. ASSUME NEW j \in Ids, Thread(j) = t, IsRoot(j) PROVE FALSE
    BY <1>2, <1>4 DEF Shape, InItsThread, IsRoot
<1>5. ASSUME NEW j \in Ids, Thread(j) = t, Verb(j) \in {"ask", "confirm"} PROVE FALSE
  <2>1. IsRoot(Cause(j)) /\ Cause(j) # 0 /\ Cause(j) \in Ids
    BY <1>5, RowType DEF Shape, WellSent, IsRoot
  <2>2. Thread(Cause(j)) = t
    BY <1>5, <2>1 DEF Shape, InItsThread
  <2> QED
    BY <1>4, <2>1, <2>2
<1>6. Verb(i) # "deliver"
  <2> SUFFICES ASSUME Verb(i) = "deliver" PROVE FALSE
    OBVIOUS
  <2>1. Cause(i) # 0 /\ Cause(Cause(i)) # 0 /\ Verb(Cause(Cause(i))) = "confirm"
    BY <1>3 DEF Shape, WellSent
  <2>2. Cause(i) \in Ids /\ Thread(Cause(i)) = t
    BY <1>3, <2>1, RowType DEF Shape, InItsThread
  <2>3. Cause(Cause(i)) \in Ids /\ Thread(Cause(Cause(i))) = t
    BY <2>1, <2>2, RowType DEF Shape, InItsThread
  <2> QED
    BY <1>5, <2>1, <2>3
<1>7. ~RepliesToAsk(i)
  <2> SUFFICES ASSUME RepliesToAsk(i) PROVE FALSE
    OBVIOUS
  <2>1. Cause(i) \in Ids /\ Thread(Cause(i)) = t /\ Verb(Cause(i)) = "ask"
    BY <1>3, RowType DEF RepliesToAsk, Shape, InItsThread
  <2> QED
    BY <1>5, <2>1
<1> QED
    BY <1>3, <1>4, <1>5, <1>6, <1>7

LEMMA ErrandIsNoRound ==
    ASSUME TypeOK, Shape, Trades, NEW t \in Ids, Errand(t)
    PROVE  ~IsRound(t)
    BY ErrandHolds DEF IsRound

\* A tick is offered only when no message is.
LEMMA TickIdle ==
    ASSUME TypeOK, NEW w \in Frontier, OfTick(w)
    PROVE  Tips = {}
<1> SUFFICES ASSUME Tips # {} PROVE FALSE
    OBVIOUS
<1>1. PICK i \in Tips : w = Wake(mail[i].to, ModeOf(i), i)
    BY DEF Frontier
<1>2. i \in Ids
    BY <1>1 DEF Tips, Is
<1>3. Verb(i) \in Verbs
    BY <1>2, RowType
<1>4. ModeOf(i) \in Verbs \cup {"verdict_signoff", "answering"}
    BY <1>3 DEF ModeOf
<1> QED
    BY <1>1, <1>4 DEF OfTick, IsTick, Wake, Verbs

LEMMA IdleErrand ==
    ASSUME TypeOK, Shape, Trades, NEW t \in Ids, Errand(t), ~Spoke(t), Tips = {}, NEW i \in In(t)
    PROVE  status[i] # "open"
<1> SUFFICES ASSUME status[i] = "open" PROVE FALSE
    OBVIOUS
<1>1. i \in Ids /\ Thread(i) = t /\ ~RepliesToAsk(i) /\ ~IsRound(t)
    BY ErrandHolds, ErrandIsNoRound
<1>2. mail[i].to \in Role
    BY <1>1 DEF Trades, Trade, Spoke, Person
<1>3. WaitsForOthers(i)
    BY <1>1, <1>2 DEF Tips, Is
<1> QED
    BY <1>1, <1>3 DEF WaitsForOthers

\* What a session leaves in a worker's thread where the Liaison speaks, or spoke.
LEMMA LiaisonClears ==
    ASSUME TypeOK, Shape, Trades, NEW w \in Frontier, NEW out, Outgoing(w, out), out # <<>>,
           w.role = "liaison", w.src # 0, NEW reask \in BOOLEAN, NEW wall \in BOOLEAN,
           reask => CanReask(w), wall => CanMeetWall(w), CommitLeaves(w, out, reask, wall, status'),
           NEW t \in Ids, Errand(t), Thread(w.src) = t, ~Spoke(t) \/ ~reask, NEW i \in In(t)
    PROVE  status'[i] # "unresolved"
<1> SUFFICES ASSUME status'[i] = "unresolved" PROVE FALSE
    OBVIOUS
<1>1. i \in Ids /\ Thread(i) = t /\ Verb(i) # "ask"
    BY ErrandHolds
<1>2. ~wall
    BY DEF CanMeetWall
<1>3. ~reask
  <2> SUFFICES ASSUME reask PROVE FALSE
    OBVIOUS
  <2>1. Cause(w.src) \in Ids /\ Thread(Cause(w.src)) = Thread(w.src)
    BY ReaskCause
  <2>2. From(Cause(w.src)) = "liaison"
    BY DEF CanReask
  <2> QED
    BY <2>1, <2>2 DEF Spoke, In
<1>4. t \in Threads(out)
  <2>1. 1 \in DOMAIN out
    BY DEF Outgoing
  <2>2. out[1].thread = t
    BY <2>1 DEF Outgoing, ThreadOf
  <2> QED
    BY <2>1, <2>2 DEF Threads
<1>5. status[i] = "unresolved" /\ From(i) = "liaison"
    BY <1>1, <1>2, <1>3, <1>4 DEF CommitLeaves
<1>6. Verb(i) \in Asking
    BY <1>1, <1>5, UnresolvedAsks DEF Is
<1> QED
    BY <1>1, <1>5, <1>6 DEF Shape, WellSent, Asking

LEMMA SessionTends ==
    ASSUME TypeOK, Shape, Trades, Errands, NEW w \in Frontier, NEW out, Outgoing(w, out),
           NEW reask \in BOOLEAN, NEW wall \in BOOLEAN, reask => CanReask(w), wall => CanMeetWall(w),
           CommitOK(w, out, reask, status'), CommitLeaves(w, out, reask, wall, status'),
           quiet \subseteq quiet',
           out = <<>> /\ ~reask /\ w.src # 0 => Thread(w.src) \in quiet'
    PROVE  Tends(w.src, out)
<1> SUFFICES ASSUME NEW t \in Ids, Errand(t), w.src # 0, Thread(w.src) = t, t \notin quiet'
             PROVE  /\ Len(out) <= 1 /\ (out # <<>> => \A i \in In(t) : status'[i] # "open")
                    /\ Spoke(t) \/ (\E k \in DOMAIN out : out[k].from = "liaison") =>
                          /\ \A k \in DOMAIN out : out[k].verb \in Late
                          /\ \A i \in In(t) : /\ status'[i] # "unresolved"
                                              /\ status'[i] = "open" => Verb(i) \in Late
    BY DEF Tends
<1>0. w.src \in Ids /\ w.src \in In(t) /\ t \notin quiet
    BY SourceKnown DEF In
<1>e. /\ \A i, j \in In(t) : status[i] = "open" /\ status[j] = "open" => i = j
      /\ Spoke(t) => Handed(t)
    BY <1>0 DEF Errands, Tended
<1>s. /\ Verb(w.src) \notin {"ask", "confirm", "deliver"} /\ ~IsRoot(w.src) /\ ~RepliesToAsk(w.src)
    BY <1>0, ErrandHolds
<1>o. \A i \in In(t) : i \in Ids /\ (status'[i] = "open" => status[i] = "open")
    BY DEF In, CommitOK
<1>m. w.mode # "converse" \/ w.role # "liaison"
    BY <1>s, Converses
<1>v. w.mode # "verdict"
  <2> SUFFICES ASSUME w.mode = "verdict" PROVE FALSE
    OBVIOUS
  <2>1. ModeOf(w.src) = "verdict"
    BY OfVerb
  <2>2. Verb(w.src) = "verdict" /\ ~(Cause(w.src) # 0 /\ Verb(Cause(w.src)) = "present")
    BY <2>1 DEF ModeOf
  <2>3. Cause(w.src) # 0 /\ Verb(Cause(w.src)) = "confirm"
    BY <1>0, <2>2 DEF Shape, WellSent
  <2>4. Cause(w.src) \in In(t)
    BY <1>0, <2>3, RowType DEF Shape, InItsThread, In
  <2> QED
    BY <2>3, <2>4, ErrandHolds
<1>1. \A k \in DOMAIN out :
        /\ Granted(w, out[k]) /\ out[k].from = w.role /\ Len(out) = 1
        /\ w.role = "liaison" => out[k].verb \in Late
  <2> SUFFICES ASSUME NEW k \in DOMAIN out
               PROVE  /\ Granted(w, out[k]) /\ out[k].from = w.role /\ Len(out) = 1
                      /\ w.role = "liaison" => out[k].verb \in Late
    OBVIOUS
  <2>1. Granted(w, out[k]) /\ out[k].from = w.role
    BY <1>m, <1>v, FormOf DEF FannedOut
  <2>2. Len(out) = 1
    BY <2>1, FormOf, GrantedIs
  <2>3. w.role = "liaison" => out[k].verb \in Late
    BY <1>m, <2>1, GrantedIs, GrantedTrade
  <2> QED
    BY <2>1, <2>2, <2>3
<1>2. Len(out) <= 1
  <2>1. CASE out = <<>>
    BY <2>1
  <2>2. CASE out # <<>>
    <3>1. 1 \in DOMAIN out
      BY <2>2 DEF Outgoing
    <3>2. Len(out) = 1
      BY <1>1, <3>1
    <3> QED
      BY <3>2
  <2> QED
    BY <2>1, <2>2
<1>3. CASE OfTick(w)
  <2>1. w.mode # "round_close"
    <3> SUFFICES ASSUME w.mode = "round_close" PROVE FALSE
      OBVIOUS
    <3>1. IsRound(w.src)
      BY <1>3, TickSources
    <3>2. PICK d \in In(w.src) : TRUE
      BY <3>1 DEF IsRound
    <3>3. d \in Ids /\ Thread(d) = w.src
      BY <3>2 DEF In
    <3>4. w.src = t
      BY <3>3 DEF Shape, InItsThread
    <3> QED
      BY <3>1, <3>4, ErrandIsNoRound
  <2>2. status[w.src] = "unresolved" /\ w.mode \in {"unresolved", "criterion_repair"}
    BY <1>3, <2>1, TickSources DEF Is
  <2>3. ~Spoke(t)
    BY <1>0, <1>e, <2>2 DEF Handed
  <2>4. Tips = {}
    BY <1>3, TickIdle
  <2>5. \A i \in In(t) : status[i] # "open"
    BY <2>3, <2>4, IdleErrand
  <2>6. \A i \in In(t) : status'[i] # "open"
    BY <1>o, <2>5
  <2>7. ASSUME NEW k \in DOMAIN out, out[k].from = "liaison"
        PROVE  /\ \A l \in DOMAIN out : out[l].verb \in Late
               /\ \A i \in In(t) : status'[i] # "unresolved"
    <3>1. w.role = "liaison" /\ out # <<>>
      BY <1>1, <2>7
    <3> QED
      BY <1>1, <2>3, <3>1, LiaisonClears
  <2> QED
    BY <1>2, <2>3, <2>6, <2>7
<1>4. CASE OfMessage(w)
  <2>1. /\ status[w.src] = "open" /\ w.role = mail[w.src].to /\ w.role \in Role
        /\ w.mode = ModeOf(w.src) /\ ~IsTick(w)
    BY <1>4 DEF OfMessage, Tips, Is
  <2>2. \A i \in In(t) : status'[i] # "open"
    <3>1. status'[w.src] # "open"
      BY <2>1 DEF CommitOK
    <3> QED
      BY <1>0, <1>e, <1>o, <2>1, <3>1
  <2>3. CASE Spoke(t)
    <3>1. Verb(w.src) \in Late /\ \A i \in In(t) : status[i] # "unresolved"
      BY <1>0, <1>e, <2>1, <2>3 DEF Handed
    <3>2. Verb(w.src) \notin {"clarify", "present"}
      <4>1. "principal" \notin Role
        BY InquiryAssumption DEF Roles
      <4> QED
        BY <1>0, <2>1, <4>1 DEF Trades, Trade
    <3>3. Verb(w.src) \in {"converse", "verdict"} => w.role = "liaison"
      <4>1. "principal" \notin Role
        BY InquiryAssumption DEF Roles
      <4> QED
        BY <1>0, <2>1, <4>1 DEF Trades, Trade, Shape, WellSent
    <3>4. w.mode # "answer" /\ (Verb(w.src) = "relay" => w.mode = "relay")
      BY <2>1, <3>1 DEF ModeOf, Late
    <3>5. ~reask /\ ~wall
      BY <3>4 DEF CanReask, CanMeetWall, MayReask
    <3>6. Verb(w.src) # "relay"
      <4> SUFFICES ASSUME Verb(w.src) = "relay" PROVE FALSE
        OBVIOUS
      <4>1. out = <<>>
        <5> SUFFICES ASSUME out # <<>> PROVE FALSE
          OBVIOUS
        <5>1. 1 \in DOMAIN out
          BY DEF Outgoing
        <5> QED
          BY <1>1, <3>4, <5>1, GrantedTrade
      <4> QED
        BY <3>5, <4>1
    <3>7. w.role = "liaison"
      BY <3>1, <3>2, <3>3, <3>6 DEF Late
    <3>8. out # <<>>
      BY <3>5
    <3>9. \A i \in In(t) : status'[i] # "unresolved"
      BY <3>5, <3>7, <3>8, LiaisonClears
    <3> QED
      BY <1>1, <1>2, <2>2, <3>7, <3>9
  <2>4. CASE ~Spoke(t)
    <3>1. ASSUME NEW k \in DOMAIN out, out[k].from = "liaison"
          PROVE  /\ \A l \in DOMAIN out : out[l].verb \in Late
                 /\ \A i \in In(t) : status'[i] # "unresolved"
      <4>1. w.role = "liaison" /\ out # <<>>
        BY <1>1, <3>1
      <4> QED
        BY <1>1, <2>4, <4>1, LiaisonClears
    <3> QED
      BY <1>2, <2>2, <2>4, <3>1
  <2> QED
    BY <2>3, <2>4
<1> QED
    BY <1>3, <1>4, WakeKinds

LEMMA SessionSteps ==
    ASSUME IInv, NEW w \in Frontier, NEW out \in Outbound(w), NEW reask \in BOOLEAN,
           NEW wrote \in BOOLEAN, NEW wall \in BOOLEAN,
           Len(mail) + Len(out) <= MaxMail,
           reask => CanReask(w), wall => CanMeetWall(w),
           mail' = mail \o out, status' = Committed(w, out, reask, wrote, wall),
           repaired' = repaired \cup (IF w.mode = "criterion_repair" THEN {w.src} ELSE {}),
           quiet' = quiet \cup (IF out = <<>> /\ ~reask /\ w.src # 0 THEN {Thread(w.src)} ELSE {}),
           gone' = gone
    PROVE  Step(w.src, out)
<1>1. TypeOK /\ Shape /\ OneTurn /\ Inquest /\ Trades /\ Errands
    BY DEF IInv
<1>2. Outgoing(w, out)
    BY <1>1, OutgoingForms
<1>3. CommitOK(w, out, reask, status') /\ CommitLeaves(w, out, reask, wall, status')
    BY <1>1, <1>2, CommitShape
<1>4. w.src \in Ids \/ w.src = 0
    BY <1>1, SourceKnown
<1>5. Grows(w.src, out)
    BY <1>2, <1>4 DEF Grows, Outgoing
<1>6. Settles(w.src, out)
    BY <1>3 DEF CommitOK, Settles
<1>7. \A k \in DOMAIN out : Posted(w.src, out[k])
    BY <1>1, <1>2, SessionPosts
<1>8. Together(w.src, out) /\ TakesAll(w.src, out) /\ AsksOnce(w.src, out)
    BY <1>1, <1>2, <1>3, SessionTogether, SessionTakesAll, SessionAsksOnce
<1>9. StaysInquiry(w.src, out)
    BY <1>1, <1>2, SessionStaysInquiry
<1>10. out = <<>> /\ ~reask /\ w.src # 0 => Thread(w.src) \in quiet'
    OBVIOUS
<1>11. StaysAwaited(w.src, out)
    BY <1>1, <1>2, <1>3, <1>10, SessionStaysAwaited
<1>12. repaired' \subseteq repaired \cup Ids
  <2>1. CASE w.mode = "criterion_repair"
    <3>1. OfTick(w)
      BY <1>1, <2>1, WakeKinds DEF OfMessage, IsTick
    <3>2. w.src \in Ids
      BY <1>1, <2>1, <3>1, TickSources
    <3> QED
      BY <3>2
  <2> QED
    BY <2>1
<1>13. quiet \subseteq quiet' /\ quiet' \subseteq quiet \cup Ids
    BY <1>1, <1>4, RowType
<1>14. \A v \in gone' : v \in gone \/ (v.src \in Ids /\ Thread(v.src) \in quiet')
    OBVIOUS
<1>15. \A k \in DOMAIN out : Bound(w.src, out[k])
    BY <1>1, <1>2, SessionBound
<1>16. Tends(w.src, out) /\ Gives(out)
    BY <1>1, <1>2, <1>3, <1>10, <1>13, SessionTends, SessionGives
<1> QED
    BY <1>5, <1>6, <1>7, <1>8, <1>9, <1>11, <1>12, <1>13, <1>14, <1>15, <1>16 DEF Step

-----------------------------------------------------------------------------
(***************************************************************************)
(* So is what sends nothing, and a keypress of the principal's.            *)
(***************************************************************************)
LEMMA Silent ==
    ASSUME TypeOK, NEW src, src \in Ids \/ src = 0, mail' = mail,
           status' \in [1 .. Len(mail) -> Standing],
           \A i \in Ids : /\ status'[i] = "open" => status[i] = "open"
                          /\ status'[i] = "unresolved" => Verb(i) \in Asking
                          /\ (src = 0 \/ Thread(i) # Thread(src)) => status'[i] = status[i],
           StaysAwaited(src, <<>>), Tends(src, <<>>), Gives(<<>>), repaired' = repaired,
           quiet \subseteq quiet', quiet' \subseteq quiet \cup Ids,
           \A w \in gone' : w \in gone \/ (w.src \in Ids /\ Thread(w.src) \in quiet')
    PROVE  Step(src, <<>>)
<1>1. /\ Len(mail) \in Nat /\ Len(mail) <= MaxMail /\ mail \in Seq(Messages)
      /\ Ids = 1 .. Len(mail)
    BY DEF TypeOK, Ids
<1>2. /\ <<>> \in Seq(Messages) /\ DOMAIN <<>> = {} /\ Len(<<>>) = 0 /\ mail \o <<>> = mail
    BY <1>1
<1>3. Len(mail) + Len(<<>>) = Len(mail)
    BY <1>1, <1>2
<1>4. Grows(src, <<>>)
    BY <1>1, <1>2, <1>3 DEF Grows
<1>5. Settles(src, <<>>)
    BY <1>1, <1>3 DEF Settles
<1>6. Together(src, <<>>) /\ TakesAll(src, <<>>) /\ AsksOnce(src, <<>>) /\ StaysInquiry(src, <<>>)
    BY <1>2 DEF Together, TakesAll, AsksOnce, StaysInquiry
<1>7. \A k \in DOMAIN <<>> : Posted(src, <<>>[k]) /\ Bound(src, <<>>[k])
    BY <1>2
<1> QED
    BY <1>4, <1>5, <1>6, <1>7 DEF Step

LEMMA StatusType ==
    ASSUME TypeOK
    PROVE  /\ status \in [1 .. Len(mail) -> Standing] /\ Len(mail) \in Nat /\ Ids = 1 .. Len(mail)
           /\ \A i \in Ids : status[i] = "unresolved" => Verb(i) \in Asking
           /\ {"open", "answered", "unresolved", "quarantined"} \subseteq Standing
    BY DEF TypeOK, Standing, Asking, Is, Ids

LEMMA GiveUpSteps ==
    ASSUME IInv, GiveUp
    PROVE  \E src : Step(src, <<>>)
<1>0. TypeOK
    BY DEF IInv
<1>1. PICK w \in Frontier :
        /\ w.src # 0
        /\ quiet' = quiet \cup {Thread(w.src)}
        /\ IF IsTick(w) THEN gone' = gone \cup {w} /\ status' = status
           ELSE status' = [status EXCEPT ![w.src] = "quarantined"] /\ gone' = gone
        /\ mail' = mail /\ repaired' = repaired
    BY DEF GiveUp
<1>2. w.src \in Ids /\ Thread(w.src) \in Ids /\ Thread(w.src) \in quiet'
    BY <1>0, <1>1, SourceKnown, RowType
<1>3. /\ status' \in [1 .. Len(mail) -> Standing]
      /\ \A i \in Ids : status'[i] = status[i] \/ (i = w.src /\ status'[i] = "quarantined")
    BY <1>0, <1>1, StatusType
<1>4. StaysAwaited(w.src, <<>>) /\ Tends(w.src, <<>>)
    BY <1>2 DEF StaysAwaited, InPursuit, Tends
<1>7. Gives(<<>>)
    BY <1>3 DEF Gives
<1>5. \A v \in gone' : v \in gone \/ (v.src \in Ids /\ Thread(v.src) \in quiet')
    BY <1>1, <1>2
<1>6. Step(w.src, <<>>)
    BY <1>0, <1>1, <1>2, <1>3, <1>4, <1>5, <1>7, StatusType, Silent
<1> QED
    BY <1>6

LEMMA ReadsSteps ==
    ASSUME IInv, NEW i \in Ids, Reads(i)
    PROVE  Step(i, <<>>)
<1>0. TypeOK
    BY DEF IInv
<1>1. /\ status[i] = "open" /\ mail[i].to = "principal" /\ Verb(i) = "converse"
      /\ status' = Where(status, {i}, "answered")
      /\ mail' = mail /\ repaired' = repaired /\ gone' = gone /\ quiet' = quiet
    BY DEF Reads
<1>2. /\ status' \in [1 .. Len(mail) -> Standing]
      /\ \A j \in Ids : status'[j] = IF j \in {i} THEN "answered" ELSE status[j]
    BY <1>0, <1>1, StatusType, WhereIs
<1>3. StaysAwaited(i, <<>>)
  <2>1. \A x \in Ids : Verb(x) \in {"ask", "answer", "submit"} => status'[x] = status[x]
    BY <1>1, <1>2
  <2> QED
    BY <2>1 DEF StaysAwaited, In
<1>4. \A j \in Ids : /\ status'[j] = "open" => status[j] = "open"
                     /\ status'[j] = "unresolved" => Verb(j) \in Asking
                     /\ (i = 0 \/ Thread(j) # Thread(i)) => status'[j] = status[j]
    BY <1>0, <1>2, StatusType, RowType
<1>5. Gives(<<>>)
    BY <1>2 DEF Gives
<1>r. Len(<<>>) = 0 /\ DOMAIN <<>> = {}
    OBVIOUS
<1>6. Tends(i, <<>>)
  <2> SUFFICES ASSUME NEW t \in Ids, Errand(t), Thread(i) = t, t \notin quiet
               PROVE  \A j \in In(t) : /\ status'[j] # "unresolved"
                                       /\ status'[j] = "open" => Verb(j) \in Late
    BY <1>1, <1>r DEF Tends
  <2>1. Spoke(t)
    BY <1>1 DEF IInv, Trades, Trade, Spoke, In
  <2>2. Handed(t)
    BY <2>1 DEF IInv, Errands, Tended
  <2> QED
    BY <1>2, <2>2 DEF Handed, In
<1> QED
    BY <1>0, <1>1, <1>2, <1>3, <1>4, <1>5, <1>6, Silent

\* One more row, open.
LEMMA OneMore ==
    ASSUME NEW N \in Nat, NEW s \in [1 .. N -> Standing]
    PROVE  /\ Append(s, "open") \in [1 .. N + 1 -> Standing] /\ Append(s, "open")[N + 1] = "open"
           /\ \A i \in 1 .. N : Append(s, "open")[i] = s[i]
<1>1. s \in Seq(Standing) /\ Len(s) = N /\ "open" \in Standing
    BY DEF Standing
<1> DEFINE c == Append(s, "open")
<1>2. /\ c \in Seq(Standing) /\ Len(c) = N + 1 /\ c[N + 1] = "open"
      /\ \A i \in 1 .. N : c[i] = s[i]
    BY <1>1
<1> HIDE DEF c
<1>3. c \in [1 .. N + 1 -> Standing]
    BY <1>2
<1> QED
    BY <1>2, <1>3 DEF c

\* A keypress that posts: one message of the principal's words or verdict.
LEMMA Voiced ==
    ASSUME IInv, NEW src, src \in Ids \/ src = 0, Len(mail) < MaxMail,
           NEW verb \in {"converse", "verdict"}, NEW s \in [1 .. Len(mail) -> Standing],
           mail' = Append(mail, Message("principal", verb, "liaison", "other", src, Len(mail) + 1)),
           status' = Append(s, "open"),
           \A j \in Ids : s[j] = IF j = src THEN "answered" ELSE status[j],
           src # 0 => status[src] = "open" /\ mail[src].to = "principal"
                      /\ Verb(src) \in {"clarify", "confirm", "present"},
           verb = "converse" /\ src # 0 => Verb(src) = "clarify",
           verb = "verdict" => src # 0 /\ Verb(src) \in {"confirm", "present"},
           repaired' = repaired, gone' = gone, quiet' = quiet
    PROVE  IInv'
<1> DEFINE m == Message("principal", verb, "liaison", "other", src, Len(mail) + 1)
           out == <<m>>
<1>0. TypeOK
    BY DEF IInv
<1>1. Len(mail) \in Nat /\ Ids = 1 .. Len(mail) /\ mail \in Seq(Messages) /\ MaxMail \in Nat
    BY <1>0, InquiryAssumption DEF TypeOK, Ids
<1>2. "principal" \in Roles \cup Person /\ "liaison" \in Roles \cup Person /\ verb \in Verbs
    BY DEF Roles, Person, Verbs
<1>3. m \in Messages
    BY <1>0, <1>1, <1>2, MessageType
<1>4. /\ m.from = "principal" /\ m.to = "liaison" /\ m.verb = verb /\ m.cause = src
      /\ m.thread = ThreadOf(src, Len(mail) + 1)
    BY DEF Message
<1>5. mail' = Append(mail, m)
    OBVIOUS
<1> HIDE DEF m
<1>6. out \in Seq(Messages) /\ Len(out) = 1 /\ DOMAIN out = {1} /\ out[1] = m /\ out # <<>>
    BY <1>3
<1>7. mail' = mail \o out
    BY <1>1, <1>3, <1>5
<1> HIDE DEF out
<1>8. Grows(src, out)
  <2>1. \A k \in DOMAIN out : out[k].cause = src /\ out[k].thread = ThreadOf(src, Len(mail) + k)
    BY <1>4, <1>6
  <2>2. Len(mail) + Len(out) <= MaxMail
    BY <1>1, <1>6
  <2> QED
    BY <1>6, <1>7, <2>1, <2>2 DEF Grows
<1>9. /\ status' \in [1 .. Len(mail) + 1 -> Standing] /\ status'[Len(mail) + 1] = "open"
      /\ \A i \in Ids : status'[i] = s[i]
    BY <1>1, OneMore
<1>10. Settles(src, out)
  <2>1. \A i \in (1 .. Len(mail) + Len(out)) \ Ids : status'[i] = "open"
    BY <1>1, <1>6, <1>9
  <2>2. \A i \in Ids : /\ status'[i] = "open" => status[i] = "open"
                       /\ status'[i] = "unresolved" => Verb(i) \in Asking
                       /\ (src = 0 \/ Thread(i) # Thread(src)) => status'[i] = status[i]
    BY <1>0, <1>9, StatusType, RowType
  <2> QED
    BY <1>6, <1>9, <2>1, <2>2 DEF Settles
<1>11. \A k \in DOMAIN out : Posted(src, out[k])
    BY <1>4, <1>6 DEF Posted
<1>12. Together(src, out)
  <2>1. ~IsRoot(src)
    BY <1>1 DEF IsRoot
  <2> QED
    BY <1>6, <2>1 DEF Together
<1>13. TakesAll(src, out) /\ AsksOnce(src, out)
    BY <1>4, <1>6 DEF TakesAll, AsksOnce
<1>14. ASSUME NEW q \in Ids, InPursuit(src, q) PROVE FALSE
  <2>1. src \in Ids /\ src # 0 /\ Verb(q) = "ask" /\ ~CameBack(q) /\ Thread(q) = Thread(src)
    BY <1>14 DEF InPursuit
  <2>2. Kept(q) /\ IsRoot(Cause(q)) /\ Cause(q) # 0
    BY <1>0, <2>1, RowType DEF IInv, Inquest, Shape, WellSent, IsRoot
  <2>3. Thread(q) = Cause(q)
    BY <1>0, <2>2 DEF IInv, Shape, InItsThread, IsRoot
  <2>4. src = Thread(q) \/ OfAnInquiry(src)
    BY <2>1, <2>2 DEF Kept, In
  <2> QED
    BY <2>1, <2>2, <2>3, <2>4 DEF OfAnInquiry, IsRoot
<1>15. StaysInquiry(src, out) /\ StaysAwaited(src, out)
    BY <1>14 DEF StaysInquiry, StaysAwaited
<1>16. \A k \in DOMAIN out : Bound(src, out[k])
    BY <1>4, <1>6, InquiryAssumption DEF Bound, Workers
<1>17. Gives(out)
    BY <1>9 DEF Gives
<1>18. Tends(src, out)
  <2> SUFFICES ASSUME NEW t \in Ids, Errand(t), src # 0, Thread(src) = t, t \notin quiet
               PROVE  /\ \A i \in In(t) : status'[i] # "open" /\ status'[i] # "unresolved"
                      /\ verb \in Late
    <3>1. /\ Len(out) <= 1
          /\ verb \in Late => \A k \in DOMAIN out : out[k].verb \in Late
      BY <1>4, <1>6
    <3>2. \A t \in Ids : t \notin quiet' => t \notin quiet
      OBVIOUS
    <3> QED
      BY <3>1, <3>2 DEF Tends
  <2>1. src \in In(t)
    BY DEF In
  <2>2. Spoke(t)
    BY <2>1 DEF IInv, Trades, Trade, Spoke, In
  <2>3. Handed(t) /\ \A i, j \in In(t) : status[i] = "open" /\ status[j] = "open" => i = j
    BY <2>2 DEF IInv, Errands, Tended
  <2> QED
    BY <1>9, <2>1, <2>3 DEF Handed, In, Late
<1>19. Step(src, out)
    BY <1>8, <1>10, <1>11, <1>12, <1>13, <1>15, <1>16, <1>17, <1>18 DEF Step
<1> QED
    BY <1>19, StepKeeps

-----------------------------------------------------------------------------
(***************************************************************************)
(* The invariant.                                                          *)
(***************************************************************************)
\* What does not move keeps it.
LEMMA Unmoved ==
    ASSUME IInv, UNCHANGED vars
    PROVE  IInv'
<1>0. mail' = mail /\ status' = status /\ repaired' = repaired /\ gone' = gone /\ quiet' = quiet
    BY DEF vars
<1>1. TypeOK'
    BY <1>0 DEF IInv, TypeOK, Ids, Is, Verb, Cause, Thread
<1>2. Shape'
    BY <1>0 DEF IInv, Shape, InItsThread, WellSent, AloneWhileOpen, IsRoot, RepliesToAsk,
                Ids, In, From, Verb, Cause, Thread
<1>3. OneTurn' /\ GivenUp'
    BY <1>0 DEF IInv, OneTurn, GivenUp, Ids, Verb, Cause, Thread
<1>4. AllSpent'
    BY <1>0 DEF IInv, AllSpent, Spent, IsReply, RepliesToAsk, Ids, In, From, Verb, Cause, Thread
<1>5. Inquest'
    BY <1>0 DEF IInv, Inquest, Kept, Pursued, CameBack, OfAnInquiry, Awaited, RepliesToAsk,
                Ids, In, From, Verb, Cause, Thread
<1>6. EachReplyIsNew' /\ RoundIsOneQuestion'
    BY <1>0 DEF IInv, EachReplyIsNew, RoundIsOneQuestion, RepliesToAsk,
                Ids, In, From, Verb, Cause, Thread
<1>7. Trades'
    BY <1>0 DEF IInv, Trades, Trade, IsRound, Ids, In, From, Verb, Cause, Thread
<1>8. Errands'
    BY <1>0 DEF IInv, Errands, Tended, Errand, Spoke, Handed, Ids, In, From, Verb, Thread
<1> QED
    BY <1>1, <1>2, <1>3, <1>4, <1>5, <1>6, <1>7, <1>8 DEF IInv

LEMMA Inductive == IInv /\ [Next]_vars => IInv'
<1> SUFFICES ASSUME IInv, [Next]_vars PROVE IInv'
    OBVIOUS
<1>0. TypeOK
    BY DEF IInv
<1>1. CASE Session
  <2>0. PICK w \in Frontier : \E out \in Outbound(w) : \E reask, wrote, wall \in BOOLEAN :
            /\ Len(mail) + Len(out) <= MaxMail
            /\ reask => CanReask(w)
            /\ wall => CanMeetWall(w)
            /\ mail' = mail \o out
            /\ status' = Committed(w, out, reask, wrote, wall)
            /\ repaired' = repaired \cup (IF w.mode = "criterion_repair" THEN {w.src} ELSE {})
            /\ quiet' = quiet \cup (IF out = <<>> /\ ~reask /\ w.src # 0 THEN {Thread(w.src)} ELSE {})
            /\ UNCHANGED gone
    BY <1>1 DEF Session
  <2>1. PICK out \in Outbound(w), reask \in BOOLEAN, wrote \in BOOLEAN, wall \in BOOLEAN :
            /\ Len(mail) + Len(out) <= MaxMail
            /\ reask => CanReask(w)
            /\ wall => CanMeetWall(w)
            /\ mail' = mail \o out
            /\ status' = Committed(w, out, reask, wrote, wall)
            /\ repaired' = repaired \cup (IF w.mode = "criterion_repair" THEN {w.src} ELSE {})
            /\ quiet' = quiet \cup (IF out = <<>> /\ ~reask /\ w.src # 0 THEN {Thread(w.src)} ELSE {})
            /\ gone' = gone
    BY <2>0
  <2>2. Step(w.src, out)
    BY <2>1, SessionSteps
  <2> QED
    BY <2>2, StepKeeps
<1>2. CASE GiveUp
    BY <1>2, GiveUpSteps, StepKeeps
<1>3. CASE Opens
  <2>1. status \in [1 .. Len(mail) -> Standing]
    BY <1>0, StatusType
  <2>2. 0 \notin Ids
    BY <1>0, RowType
  <2>3. /\ Len(mail) < MaxMail
        /\ mail' = Append(mail,
              Message("principal", "converse", "liaison", "other", 0, Len(mail) + 1))
        /\ status' = Append(status, "open")
        /\ repaired' = repaired /\ gone' = gone /\ quiet' = quiet
    BY <1>3 DEF Opens
  <2>4. /\ 0 = 0 /\ "converse" \in {"converse", "verdict"} /\ "converse" # "verdict"
        /\ \A j \in Ids : status[j] = IF j = 0 THEN "answered" ELSE status[j]
    BY <2>2
  <2> QED
    BY <2>1, <2>3, <2>4, Voiced
<1>4. ASSUME NEW i \in Ids, Replies(i)
      PROVE  IInv'
  <2> DEFINE s == Where(status, {i}, "answered")
             verb == IF Verb(i) = "clarify" THEN "converse" ELSE "verdict"
  <2>1. /\ s \in [1 .. Len(mail) -> Standing]
        /\ \A j \in Ids : s[j] = IF j \in {i} THEN "answered" ELSE status[j]
    BY <1>0, StatusType, WhereIs
  <2>2. /\ Len(mail) < MaxMail
        /\ status[i] = "open" /\ mail[i].to = "principal"
        /\ Verb(i) \in {"clarify", "confirm", "present"}
        /\ mail' = Append(mail, Message("principal", verb, "liaison", "other", i, Len(mail) + 1))
        /\ status' = Append(s, "open")
        /\ repaired' = repaired /\ gone' = gone /\ quiet' = quiet
    BY <1>4 DEF Replies
  <2>3. /\ verb \in {"converse", "verdict"}
        /\ verb = "converse" => Verb(i) = "clarify"
        /\ verb = "verdict" => Verb(i) \in {"confirm", "present"}
    BY <2>2
  <2>4. i # 0
    BY <1>0, RowType
  <2> HIDE DEF s, verb
  <2> QED
    BY <2>1, <2>2, <2>3, <2>4, Voiced
<1>5. ASSUME NEW i \in Ids, Reads(i)
      PROVE  IInv'
    BY <1>5, ReadsSteps, StepKeeps
<1>6. CASE UNCHANGED vars
    BY <1>6, Unmoved
<1> QED
    BY <1>1, <1>2, <1>3, <1>4, <1>5, <1>6 DEF Next, Keypress

LEMMA Initially == Init => IInv
    BY InquiryAssumption DEF Init, IInv, TypeOK, Shape, OneTurn, AllSpent, Inquest, GivenUp,
       EachReplyIsNew, RoundIsOneQuestion, Trades, Errands, Ids, Is, In

\* A message is in its cause's thread, whoever sends it; words not taken up are
\* alone in their thread, and are passed on or confirmed and never both; and the
\* thread of an ask always holds something that is still waited for.
THEOREM InquiryInvariant == Spec => []IInv
<1>1. IInv /\ [Next]_vars => IInv'
    BY Inductive
<1> QED
    BY <1>1, Initially, PTL DEF Spec

\* Type correctness.
THEOREM TypeCorrect == Spec => []TypeOK
    BY InquiryInvariant, PTL DEF IInv

\* A second reply to an inquiry is carried by an answer that came after the
\* first (the compose sweep of db.session_commit).
THEOREM RepliesAreNew == Spec => []EachReplyIsNew
    BY InquiryInvariant, PTL DEF IInv

\* The principal is not asked twice about one broadcast (tick_round_close).
THEOREM RoundAsksOnce == Spec => []RoundIsOneQuestion
    BY InquiryInvariant, PTL DEF IInv

-----------------------------------------------------------------------------
(***************************************************************************)
(* The ladder, and what is left when nothing wakes.                        *)
(***************************************************************************)

\* A rung is somebody who has not spoken in the thread, and every message that
\* answers the question is in it.
LEMMA RungIsNew ==
    ASSUME TypeOK, Shape, NEW w \in Climbs, w.role # "liaison", NEW i \in Ids, Cause(i) = w.src
    PROVE  From(i) # w.role
<1>1. w.src \in Ids /\ w.role \in NextRung(w.src) /\ w.src # 0
    BY RowType DEF Climbs, Wake, Is
<1>2. PICK k \in RungsLeft(w.src) : Ladder(w.src)[k] = w.role
    BY <1>1 DEF NextRung
<1>3. i \in In(Thread(w.src))
    BY <1>1 DEF Shape, InItsThread, In
<1> QED
    BY <1>2, <1>3 DEF RungsLeft

\* The ladder moves on: a role that has replied to a question is not the next
\* rung of it, for every set of roles and owners (predicates.unresolved).
THEOREM LadderMovesOn == Spec => []ClimbsToSomebodyNew
<1>1. IInv => ClimbsToSomebodyNew
    BY RungIsNew DEF IInv, ClimbsToSomebodyNew
<1> QED
    BY <1>1, InquiryInvariant, PTL

\* Numbers are well founded: a set of some has a first, and one of a bounded
\* set a last.
LEMMA First ==
    ASSUME NEW S, S \subseteq Nat, S # {}
    PROVE  \E n \in S : \A m \in S : n <= m
<1>1. PICK R : R = {ss \in Nat \X Nat : ss[1] < ss[2]}
    OBVIOUS
<1>2. IsWellFoundedOn(R, Nat)
    BY <1>1, NatLessThanWellFounded DEF OpToRel
<1>3. PICK n \in S : \A m \in S : ~(<<m, n>> \in R)
    BY <1>2, WFMin
<1>4. ASSUME NEW m \in S PROVE n <= m
  <2>1. m \in Nat /\ n \in Nat /\ <<m, n>> \in Nat \X Nat
    OBVIOUS
  <2>2. ~(m < n)
    BY <1>1, <1>3, <2>1
  <2> QED
    BY <2>1, <2>2
<1> QED
    BY <1>4

LEMMA Last ==
    ASSUME NEW N \in Nat, NEW S, S \subseteq 1 .. N, S # {}
    PROVE  \E n \in S : \A m \in S : m <= n
<1> DEFINE T == {N - n : n \in S}
<1>1. T \subseteq Nat /\ T # {}
  <2>1. \A n \in 1 .. N : N - n \in Nat
    OBVIOUS
  <2>2. T \subseteq Nat
    BY <2>1
  <2> QED
    BY <2>2
<1>2. PICK t \in T : \A u \in T : t <= u
    BY <1>1, First
<1>3. PICK n \in S : t = N - n
    BY <1>2
<1>4. \A m \in S : N - n <= N - m
    BY <1>2, <1>3
<1> QED
    BY <1>4

\* At rest nothing is a tip, and no question of the ladder is offered.
LEMMA RestIsEmpty ==
    ASSUME TypeOK, AtRest
    PROVE  Tips = {} /\ Offered(Climbs \cup Repairs) = {}
<1>1. Tips = {}
  <2> SUFFICES ASSUME Tips # {} PROVE FALSE
    OBVIOUS
  <2>1. Tips \subseteq Nat /\ \A i \in Tips : i # 0
    BY RowType DEF Tips, Is
  <2>2. PICK i \in Tips : \A k \in Tips : i <= k
    BY <2>1, First
  <2>3. Wake(mail[i].to, ModeOf(i), i) \in Frontier
    BY <2>2 DEF Frontier
  <2> QED
    BY <2>1, <2>3 DEF AtRest, Wake
<1>2. ASSUME NEW w \in Offered(Climbs \cup Repairs) PROVE FALSE
  <2>1. w \in Frontier
    BY <1>1, <1>2 DEF Frontier
  <2>2. w.src \in Ids
    BY <1>2 DEF Offered, Climbs, Repairs, Wake, Is
  <2> QED
    BY <2>1, <2>2, RowType DEF AtRest
<1> QED
    BY <1>1, <1>2

\* The Liaison's own ask has a rung for as long as nobody answers it.
LEMMA AskHasARung ==
    ASSUME TypeOK, NEW q \in Ids, From(q) = "liaison"
    PROVE  \E r \in Role : r \in NextRung(q)
<1>1. CASE RungsLeft(q) = {}
    BY <1>1, InquiryAssumption DEF NextRung
<1>2. CASE RungsLeft(q) # {}
  <2> DEFINE L == Owners \o <<"liaison">>
  <2>1. Owners \in Seq(Role) /\ <<"liaison">> \in Seq(Role)
    BY InquiryAssumption
  <2>2. L \in Seq(Role)
    BY <2>1
  <2>3. Ladder(q) = L
    BY DEF Ladder
  <2> HIDE DEF L
  <2>4. RungsLeft(q) \subseteq DOMAIN L /\ DOMAIN L = 1 .. Len(L) /\ Len(L) \in Nat
    BY <2>2, <2>3 DEF RungsLeft
  <2>5. PICK k \in RungsLeft(q) : \A m \in RungsLeft(q) : k <= m
    BY <1>2, <2>4, First
  <2>6. Ladder(q)[k] \in NextRung(q)
    BY <1>2, <2>5 DEF NextRung
  <2> QED
    BY <2>2, <2>3, <2>4, <2>6
<1> QED
    BY <1>1, <1>2

\* An open message of an inquiry that waits for no other is a tip.
LEMMA OpenIsTip ==
    ASSUME TypeOK, NEW i \in Ids, status[i] = "open", mail[i].to \in Role, ~WaitsForOthers(i)
    PROVE  Tips # {}
    BY DEF Tips, Is

\* A wake of the ladder for a thread where every session had something to say
\* has not been given up, and no role that waits has a question open.
LEMMA LadderWakes ==
    ASSUME IInv, AtRest, NEW w \in Climbs \cup Repairs, w.role \in Role, w.src \in Ids,
           Thread(w.src) \notin quiet
    PROVE  FALSE
<1>0. TypeOK /\ Shape /\ GivenUp /\ Tips = {} /\ Offered(Climbs \cup Repairs) = {}
    BY RestIsEmpty DEF IInv
<1>1. w \notin gone
    BY <1>0 DEF GivenUp
<1>2. ASSUME NEW i \in Is("open"), Verb(i) = "question" PROVE FALSE
  <2>1. i \in Ids /\ status[i] = "open" /\ mail[i].to \in Role
    BY <1>0, <1>2 DEF Is, Shape, WellSent
  <2> QED
    BY <1>0, <1>2, <2>1, OpenIsTip DEF WaitsForOthers
<1>3. w \in Offered(Climbs \cup Repairs)
    BY <1>1, <1>2 DEF Offered
<1> QED
    BY <1>0, <1>3

LEMMA AwaitedWakes ==
    ASSUME IInv, NEW x \in Ids, Awaited(x), Thread(x) \notin quiet, AtRest
    PROVE  FALSE
<1>0. TypeOK /\ Shape /\ GivenUp /\ Tips = {} /\ Offered(Climbs \cup Repairs) = {}
    BY RestIsEmpty DEF IInv
<1>l. "liaison" \in Role
    BY InquiryAssumption
<1>1. ASSUME NEW o \in Ids, Verb(o) = "ask", status[o] = "open" PROVE FALSE
  <2>1. mail[o].to \in Role
    BY <1>0, <1>1 DEF Shape, WellSent
  <2> QED
    BY <1>0, <1>1, <2>1, OpenIsTip DEF WaitsForOthers
<1>2. ASSUME NEW o \in Ids, Verb(o) = "submit", status[o] = "open" PROVE FALSE
  <2>1. mail[o].to \in Role
    BY <1>0, <1>l, <1>2 DEF Shape, WellSent
  <2> QED
    BY <1>0, <1>2, <2>1, OpenIsTip DEF WaitsForOthers
<1>3. ASSUME Verb(x) = "answer", RepliesToAsk(x), status[x] = "open" PROVE FALSE
  <2> DEFINE A == Answers(Thread(x))
  <2>1. Len(mail) \in Nat /\ A \subseteq 1 .. Len(mail) /\ x \in A
    BY <1>0, <1>3 DEF Answers, In, Ids, TypeOK
  <2>2. PICK y \in A : \A z \in A : z <= y
    BY <2>1, Last
  <2>3. /\ y \in Ids /\ Thread(y) = Thread(x) /\ Verb(y) = "answer" /\ status[y] = "open"
        /\ RepliesToAsk(y)
    BY <2>2 DEF Answers, In
  <2>4. mail[y].to \in Role
    BY <1>0, <1>l, <2>3 DEF Shape, WellSent
  <2>5. \A o \in In(Thread(y)) : ~(Verb(o) = "ask" /\ status[o] = "open")
    BY <1>1 DEF In
  <2>6. \A a \in A : ~(a > y)
    BY <2>1, <2>2
  <2>7. ~WaitsForOthers(y)
    BY <2>3, <2>5, <2>6 DEF WaitsForOthers
  <2> QED
    BY <1>0, <2>3, <2>4, <2>7, OpenIsTip
<1>4. ASSUME Verb(x) = "ask", status[x] = "unresolved" PROVE FALSE
  <2>1. From(x) = "liaison" /\ x \in Is("unresolved")
    BY <1>0, <1>4 DEF Shape, WellSent, Is
  <2>2. PICK r \in Role : r \in NextRung(x)
    BY <1>0, <2>1, AskHasARung
  <2> DEFINE w == Wake(r, "unresolved", x)
  <2>3. ~Ceded(x)
    BY <2>1 DEF Ceded
  <2>4. w \in Climbs
    BY <2>1, <2>2, <2>3 DEF Climbs
  <2>5. w.role = r /\ w.src = x
    BY DEF Wake
  <2> HIDE DEF w
  <2> QED
    BY <2>2, <2>4, <2>5, LadderWakes
<1> QED
    BY <1>1, <1>2, <1>3, <1>4 DEF Awaited

\* Where the loop has nothing left to wake, a question of the principal's that
\* was passed on has come back to them, unless a session in its thread had
\* nothing to say (the waiting of open_tips, the compose sweep and the ladder).
THEOREM NoQuestionIsLost == Spec => []QuestionComesBack
<1>1. ASSUME IInv PROVE QuestionComesBack
  <2> SUFFICES ASSUME AtRest, NEW q \in Ids, Verb(q) = "ask", Thread(q) \notin quiet, ~CameBack(q)
               PROVE  FALSE
    BY DEF QuestionComesBack, CameBack
  <2>1. PICK x \in In(Thread(q)) : Awaited(x)
    BY <1>1 DEF IInv, Inquest, Pursued
  <2>2. x \in Ids /\ Thread(x) \notin quiet
    BY <2>1 DEF In
  <2> QED
    BY <1>1, <2>1, <2>2, AwaitedWakes
<1> QED
    BY <1>1, InquiryInvariant, PTL

\* What blocks a worker has a rung until the Liaison has spoken: the Liaison is
\* the last of every ladder.
LEMMA WorkerHasARung ==
    ASSUME TypeOK, Held \subseteq Role, NEW q \in Ids, From(q) # "liaison", ~Spoke(Thread(q))
    PROVE  \E r \in Role : r \in NextRung(q)
<1> DEFINE L == <<"architect", "vision_keeper">> \o <<"liaison">>
<1>1. Ladder(q) = L
    BY DEF Ladder
<1>2. DOMAIN L = 1 .. 3 /\ L[1] = "architect" /\ L[2] = "vision_keeper" /\ L[3] = "liaison"
    OBVIOUS
<1> HIDE DEF L
<1>3. \A k \in 1 .. 3 : L[k] \in Role
    BY <1>2, InquiryAssumption DEF Held
<1>4. RungsLeft(q) \subseteq 1 .. 3 /\ RungsLeft(q) \subseteq Nat
    BY <1>1, <1>2 DEF RungsLeft
<1>5. 3 \in RungsLeft(q)
    BY <1>1, <1>2 DEF RungsLeft, Spoke
<1>6. PICK k \in RungsLeft(q) : \A m \in RungsLeft(q) : k <= m
    BY <1>4, <1>5, First
<1>7. Ladder(q)[k] \in NextRung(q)
    BY <1>5, <1>6 DEF NextRung
<1> QED
    BY <1>1, <1>3, <1>4, <1>7

LEMMA BlockedWakes ==
    ASSUME IInv, Held \subseteq Role, AtRest, NEW q \in Is("unresolved"),
           ~IsRound(Thread(q)), Thread(q) \notin quiet
    PROVE  FALSE
<1>0. TypeOK /\ Shape /\ Trades /\ Errands
    BY DEF IInv
<1>1. q \in Ids /\ status[q] = "unresolved" /\ Verb(q) \in Asking
    BY <1>0, UnresolvedAsks DEF Is
<1>2. Verb(q) # "ask"
    BY <1>1, AwaitedWakes DEF Awaited
<1>3. Verb(q) = "question" /\ From(q) # "liaison" /\ From(Thread(q)) \in Workers
    BY <1>0, <1>1, <1>2 DEF Asking, Trades, Trade, Shape, WellSent
<1>4. Thread(q) \in Ids /\ Errand(Thread(q)) /\ q \in In(Thread(q))
    BY <1>0, <1>1, <1>3, RowType DEF Errand, Shape, InItsThread, In
<1>5. ~Spoke(Thread(q))
    BY <1>0, <1>1, <1>4 DEF Errands, Tended, Handed
<1>6. CASE Ceded(q)
  <2> DEFINE w == Wake("terminologist", "criterion_repair", q)
  <2>1. w \in Repairs
    BY <1>6 DEF Repairs
  <2>2. w.role = "terminologist" /\ w.src = q
    BY DEF Wake
  <2> HIDE DEF w
  <2>3. w.role \in Role
    BY <2>2 DEF Held
  <2> QED
    BY <1>1, <2>1, <2>2, <2>3, LadderWakes
<1>7. CASE ~Ceded(q)
  <2>1. PICK r \in Role : r \in NextRung(q)
    BY <1>0, <1>1, <1>3, <1>5, WorkerHasARung
  <2> DEFINE w == Wake(r, "unresolved", q)
  <2>2. w \in Climbs
    BY <1>7, <2>1 DEF Climbs
  <2>3. w.role = r /\ w.src = q
    BY DEF Wake
  <2> HIDE DEF w
  <2> QED
    BY <1>1, <2>1, <2>2, <2>3, LadderWakes
<1> QED
    BY <1>6, <1>7

\* Where the loop has nothing left to wake, a blocked role's question outside a
\* broadcast has landed, or a session in its thread had nothing to say: for
\* every instance that wakes the three owners of the ladder (Held), as the
\* code's roles do (predicates.unresolved, criterion_repair).
THEOREM BlockedGetsThrough ==
    ASSUME Held \subseteq Role
    PROVE  Spec => []BlockedIsCarried
<1>1. IInv => BlockedIsCarried
    BY BlockedWakes DEF BlockedIsCarried
<1> QED
    BY <1>1, InquiryInvariant, PTL
=============================================================================
