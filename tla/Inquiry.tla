------------------------------ MODULE Inquiry ------------------------------
(***************************************************************************)
(* How a question finds whoever can answer it, and how what was found gets *)
(* back: the messages table as db.session_commit writes it, the tips the   *)
(* scheduler makes of it (open_tips), the ladder (predicates.unresolved,   *)
(* criterion_repair) and the harvest of a broadcast (round_close).         *)
(*                                                                         *)
(* A message is its place in mail: its id, and its seq.  One action is one *)
(* session, from the wake loop.step takes first to the end of its commit,  *)
(* or one keypress of the principal.  What a session decides is free: the  *)
(* tools its mode offers (the .tools files) bound what it can send.        *)
(***************************************************************************)
EXTENDS Naturals, Sequences, FiniteSets

CONSTANTS
    Role,      \* the roles this instance wakes
    Owners,    \* who holds an artefact, sorted: the roles the Liaison can ask
    Starters,  \* ticks of band start that open a question: <<role, mode>>
    MaxOpen,   \* bound: threads the principal opens (each starter opens one)
    MaxMail    \* bound: messages in all

Roles == {"liaison", "architect", "terminologist", "vision_keeper",
          "developer", "tester", "researcher"}
Verbs == {"converse", "clarify", "confirm", "present", "verdict", "deliver",
          "relay", "ask", "question", "challenge", "propose", "submit",
          "answer", "report"}

ASSUME InquiryAssumption ==
    /\ Role \subseteq Roles /\ "liaison" \in Role
    /\ Owners \in Seq(Role \ {"liaison"})
    /\ Starters \subseteq Role \X {"batch_start", "tests_missing"}
    /\ {MaxOpen, MaxMail} \subseteq Nat

VARIABLES
    mail,      \* messages, in the order of seq
    status,    \* messages.status, apart because it is what changes
    repaired,  \* questions a committed criterion_repair session was woken for
    gone,      \* tick wakes that spent their attempts (Dispatch.tla)
    quiet      \* history: threads where a session had nothing to say

vars == <<mail, status, repaired, gone, quiet>>

Ids       == 1 .. Len(mail)
From(i)   == mail[i].from
Verb(i)   == mail[i].verb
Cause(i)  == mail[i].cause
Thread(i) == mail[i].thread
In(t)     == {i \in Ids : Thread(i) = t}
Is(s)     == {i \in Ids : status[i] = s}

Init == mail = <<>> /\ status = <<>> /\ repaired = {} /\ gone = {} /\ quiet = {}

-----------------------------------------------------------------------------
(***************************************************************************)
(* What each mode offers: <<role, mode, verb, to>>.                        *)
(***************************************************************************)
Person == {"principal"}
Up     == {"liaison"}
Held   == {"architect", "terminologist", "vision_keeper"}

\* The Liaison's modes.
LiaisonGrant ==
         ({"liaison"} \X {"converse"} \X {"clarify", "confirm", "converse"} \X Person)
    \cup ({"liaison"} \X {"answer"} \X {"converse"} \X Person)
    \cup ({"liaison"} \X {"unresolved", "report"} \X {"clarify"} \X Person)
    \cup ({"liaison"} \X {"round_close"} \X {"clarify", "present"} \X Person)
    \cup ({"liaison"} \X {"submit"} \X {"present"} \X Person)
    \cup ({"liaison"} \X {"answering", "report", "verdict_signoff"} \X {"relay"} \X Held)

\* The owners' modes.
OwnerGrant ==
         (Held \X {"ask"} \X {"answer", "report"} \X Up)
    \cup (Held \X {"deliver", "unresolved"} \X {"report"} \X Up)
    \cup (Held \X {"deliver"} \X {"question"} \X {"researcher"})
    \cup (Held \X {"unresolved"} \X {"answer"} \X {"liaison", "developer"})
    \cup ({"architect"} \X {"deliver"} \X {"propose", "challenge"} \X {"vision_keeper"})
    \cup ({"architect"} \X {"deliver"} \X {"question"} \X {"terminologist"})
    \cup ({"terminologist"} \X {"question", "unresolved"} \X {"answer"}
            \X {"architect", "developer", "tester"})
    \cup ({"terminologist"} \X {"criterion_repair"} \X {"answer"} \X {"tester", "developer"})
    \cup ({"terminologist"} \X {"criterion_repair"} \X {"challenge"} \X {"vision_keeper"})
    \cup ({"vision_keeper"} \X {"question", "unresolved"} \X {"answer"} \X {"developer", "tester"})
    \cup ({"terminologist", "vision_keeper"} \X {"question"} \X {"report"} \X Up)
    \cup ({"vision_keeper"} \X {"propose"} \X {"report"} \X Up)
    \cup ({"vision_keeper"} \X {"answer", "unresolved"} \X {"submit"} \X Up)

\* The Developer, the Tester and the Researcher.
WorkerGrant ==
         ({"developer"} \X {"batch_start"} \X {"question"} \X {"vision_keeper", "terminologist"})
    \cup ({"tester"} \X {"tests_missing", "answer"} \X {"question"}
            \X {"vision_keeper", "terminologist"})
    \cup ({"researcher"} \X {"question"} \X {"answer"} \X (Held \cup {"developer", "tester"}))

Grant == LiaisonGrant \cup OwnerGrant \cup WorkerGrant

\* Modes that offer schedule.reask: every answer mode but the Critic's.
MayReask == (Held \cup {"liaison", "developer", "tester"}) \X {"answer"}

\* can_answer: the roles with an answer edge to this one.
Able(asker) == {g[1] : g \in {h \in Grant : h[3] = "answer" /\ h[4] = asker}}

\* _mode_key: the verb, but what the principal says is keyed by what it answers.
ModeOf(i) ==
    LET replied == IF Cause(i) = 0 THEN "" ELSE Verb(Cause(i))
    IN  IF Verb(i) = "verdict" /\ replied = "present" THEN "verdict_signoff"
        ELSE IF Verb(i) = "converse" /\ replied = "clarify" THEN "answering"
        ELSE Verb(i)

-----------------------------------------------------------------------------
(***************************************************************************)
(* The frontier of messages.                                               *)
(***************************************************************************)

\* A broadcast: the Liaison delivered into this thread.
IsRound(t) == \E d \in In(t) : Verb(d) = "deliver" /\ From(d) = "liaison"

RepliesToAsk(i) == Cause(i) # 0 /\ Verb(Cause(i)) = "ask"

\* Open answers to the asks of a thread: the round one reply is composed from.
Answers(t) == {i \in In(t) : Verb(i) = "answer" /\ status[i] = "open" /\ RepliesToAsk(i)}

\* (Faulty: a report is a tip like any message.)
WaitsUnlessReport(i) ==
    /\ RepliesToAsk(i)
    /\ \/ Verb(i) = "report"
       \/ \E o \in In(Thread(i)) : Verb(o) = "ask" /\ status[o] = "open"
       \/ \E a \in Answers(Thread(i)) : a > i

\* Reports wait for the harvest of their round, or are carried by the ladder;
\* an answer to an ask waits for its siblings, and the latest carries them.
WaitsForOthers(i) ==
    \/ Verb(i) = "report" /\ (IsRound(Thread(i)) \/ RepliesToAsk(i))
    \/ /\ Verb(i) = "answer" /\ RepliesToAsk(i)
       /\ \/ \E o \in In(Thread(i)) : Verb(o) = "ask" /\ status[o] = "open"
          \/ \E a \in Answers(Thread(i)) : a > i

\* open_tips.
Tips == {i \in Is("open") : mail[i].to \in Role /\ ~WaitsForOthers(i)}

\* _names_a_criterion and not _repair_attempted: ceded to criterion_repair.
Ceded(q) == From(q) = "tester" /\ mail[q].about = "criterion" /\ q \notin repaired

\* The rungs of a blocked role; for the principal's question, its holders.
Ladder(q) ==
    (IF From(q) = "liaison" THEN Owners ELSE <<"architect", "vision_keeper">>) \o <<"liaison">>

\* (Faulty: the Liaison too has to have an answer edge to the asker.)
RungsAble(q) ==
    {k \in DOMAIN Ladder(q) :
        Ladder(q)[k] \in Able(From(q)) \ {From(i) : i \in In(Thread(q))}}

\* Who has not spoken in the thread and can reply to the asker.
RungsLeft(q) ==
    {k \in DOMAIN Ladder(q) :
        /\ Ladder(q)[k] \notin {From(i) : i \in In(Thread(q))}
        /\ Ladder(q)[k] \in {"liaison"} \cup Able(From(q))}

\* (Faulty: nobody left is the end, for the principal's question too.)
NextRungOrNone(q) ==
    {Ladder(q)[k] : k \in {l \in RungsLeft(q) : \A m \in RungsLeft(q) : l <= m}}

\* The first of them; when nobody is left, the Liaison again for its own ask.
NextRung(q) ==
    IF RungsLeft(q) = {} THEN {From(q)} \cap {"liaison"}
    ELSE {Ladder(q)[k] : k \in {l \in RungsLeft(q) : \A m \in RungsLeft(q) : l <= m}}

Wake(r, m, i) == [role |-> r, mode |-> m, src |-> i]

\* predicates.unresolved.
Climbs == UNION {{Wake(r, "unresolved", q) : r \in NextRung(q)} :
                    q \in {i \in Is("unresolved") : ~Ceded(i)}}

\* criterion_repair.
Repairs == {Wake("terminologist", "criterion_repair", q) : q \in {i \in Is("unresolved") : Ceded(i)}}

\* open_reports: the reports whose refs are not all settled.
OpenReports(t) == {i \in In(t) : Verb(i) = "report" /\ mail[i].about # "settled"}

Harvested(t) == \E i \in In(t) : From(i) = "liaison" /\ Verb(i) \in {"clarify", "present"}

\* round_close: nothing of the round is open to anybody but the Liaison.
Harvests ==
    {Wake("liaison", "round_close", t) : t \in {u \in Ids :
        /\ IsRound(u) /\ OpenReports(u) # {} /\ ~Harvested(u)
        /\ \A i \in In(u) : mail[i].to # "liaison" => status[i] # "open"}}

\* The threads somebody opened.
Opened(r) == {i \in Ids : From(i) = r /\ Cause(i) = 0}

Starts == {Wake(s[1], s[2], 0) : s \in {t \in Starters : Opened(t[1]) = {}}}

\* waiting_filter: a role whose own question is open gets no tick; and what has
\* spent its attempts is not offered.
Offered(ticks) ==
    {w \in ticks \ gone : w.role \in Role
        /\ \A i \in Is("open") : ~(Verb(i) = "question" /\ From(i) = w.role)}

\* step: the first tip by seq, then what must be fixed, then gates, then starts.
\* Within a band of ticks any may be first.
Frontier ==
    IF Tips # {}
    THEN {Wake(mail[i].to, ModeOf(i), i) : i \in {j \in Tips : \A k \in Tips : j <= k}}
    ELSE LET fix  == Offered(Climbs \cup Repairs)
             gate == Offered(Harvests)
         IN  IF fix # {} THEN fix ELSE IF gate # {} THEN gate ELSE Offered(Starts)

IsTick(w) == w.mode \in {"unresolved", "criterion_repair", "round_close",
                         "batch_start", "tests_missing"}

-----------------------------------------------------------------------------
(***************************************************************************)
(* What a session stages.                                                  *)
(***************************************************************************)

\* One question of one role to one other that came back answered.
AnsweredBy(r, to) ==
    {i \in Ids : /\ Verb(i) = "question" /\ From(i) = r /\ mail[i].to = to
                 /\ \E a \in Ids : Verb(a) = "answer" /\ Cause(a) = i}

\* _bind_send and situational: an answer goes to the asker only; the Tester has
\* one question open on a criterion; nobody asks the same a third time.
Allowed(w, verb, to, about) ==
    /\ to \in Role \cup Person
    /\ verb = "answer" /\ w.src # 0 => to = From(w.src)
    /\ verb = "question" =>
        /\ Cardinality(AnsweredBy(w.role, to)) < 2
        /\ about = "criterion" =>
             ~\E i \in Is("open") \cup Is("unresolved") :
                From(i) = "tester" /\ Verb(i) = "question" /\ mail[i].about = "criterion"

\* What its refs say that matters here: a criterion, settled rows, or neither.
Subjects(w, verb) ==
    {"other"} \cup (IF verb = "question" /\ w.role = "tester" THEN {"criterion"} ELSE {})
              \cup (IF verb = "report" THEN {"settled"} ELSE {})

\* (Faulty: the thread is the cause.)
ThreadOfCause(cause, id) == IF cause = 0 THEN id ELSE cause

\* _thread_of: the thread of the cause; a message of no cause is a thread.
ThreadOf(cause, id) == IF cause = 0 THEN id ELSE Thread(cause)

Message(from, verb, to, about, cause, id) ==
    [from |-> from, verb |-> verb, to |-> to, about |-> about, cause |-> cause,
     thread |-> ThreadOf(cause, id)]

\* One message of the mode's (bound: one, a broadcast apart), or none.
Single(w) ==
    UNION {{<<Message(w.role, g[3], g[4], a, w.src, Len(mail) + 1)>> :
              a \in {b \in Subjects(w, g[3]) : Allowed(w, g[3], g[4], b)}} :
           g \in {h \in Grant : h[1] = w.role /\ h[2] = w.mode}}

\* The fan-out: an ask goes to every owner, and so does what was ratified.
Broadcast(w) ==
    LET to(verb) == [k \in 1 .. Len(Owners) |->
            Message("liaison", verb, Owners[k], "other", w.src, Len(mail) + k)]
    IN  IF w.role # "liaison" THEN {}
        ELSE IF w.mode = "converse" THEN {to("ask")}
        ELSE IF w.mode = "verdict" THEN {to("deliver")} ELSE {}

Outbound(w) == {<<>>} \cup Single(w) \cup Broadcast(w)

\* schedule.reask: what woke the session answers a question of its own.
CanReask(w) ==
    /\ <<w.role, w.mode>> \in MayReask /\ Cause(w.src) # 0
    /\ Verb(Cause(w.src)) \in {"question", "ask"} /\ From(Cause(w.src)) = w.role

\* The Tester met a wall encoding the criterion it had asked about.
CanMeetWall(w) ==
    w.role = "tester" /\ w.mode = "answer" /\ CanReask(w) /\ mail[Cause(w.src)].about = "criterion"

-----------------------------------------------------------------------------
(***************************************************************************)
(* session_commit, block by block.  s is the status column so far, all the *)
(* mail with what the session sent.                                        *)
(***************************************************************************)
Where(s, which, value) == [i \in DOMAIN s |-> IF i \in which THEN value ELSE s[i]]
Having(s, value) == {i \in DOMAIN s : s[i] = value}
Of(all, t) == {i \in DOMAIN all : all[i].thread = t}
Threads(out) == {out[k].thread : k \in DOMAIN out}

\* The declaration is a write, and the messages start open.
Staged(w, out, reask) ==
    Where(status, IF reask THEN {Cause(w.src)} ELSE {}, "unresolved")
        \o [k \in DOMAIN out |-> "open"]

\* Somebody else spoke in the thread of a dead answer: it is picked up.
Swept(s, w, all, out) ==
    Where(s, {i \in Having(s, "unresolved") :
                all[i].from # w.role /\ all[i].thread \in Threads(out)}, "answered")

\* What woke the session is answered; a challenge only by a session that did
\* something.
Discharged(s, w, barren) ==
    IF IsTick(w) THEN s
    ELSE Where(s, {w.src},
               IF barren /\ Verb(w.src) = "challenge" THEN "unresolved" ELSE "answered")

\* (Faulty: the carrier of the round is answered alone.)
ComposedAlone(s, w) == s

\* The carrier of a composed reply answers its whole round.
Composed(s, w) ==
    IF IsTick(w) \/ ~RepliesToAsk(w.src) THEN s
    ELSE Where(s, {i \in Having(s, "open") \cap In(Thread(w.src)) :
                     Verb(i) = "answer" /\ RepliesToAsk(i)}, "answered")

\* The question reached the person who asked it.
Drained(s, w, all, out) ==
    IF \A k \in DOMAIN out : out[k].to # "principal" THEN s
    ELSE Where(s, {i \in Having(s, "unresolved") :
                     all[i].from = w.role /\ all[i].thread \in Threads(out)}, "answered")

\* A wall met with the answer in view is the declaration nobody has to make.
Walled(s, w, wall) == Where(s, IF wall THEN {Cause(w.src)} ELSE {}, "unresolved")

\* Last: an owner's report on an ask says the ask is not answered.
Disowned(s, out) ==
    Where(s, {out[k].cause : k \in {l \in DOMAIN out :
                out[l].verb = "report" /\ out[l].cause # 0 /\ Verb(out[l].cause) = "ask"}},
          "unresolved")

Committed(w, out, reask, wrote, wall) ==
    LET all    == mail \o out
        barren == out = <<>> /\ ~reask /\ ~wrote
        swept  == Swept(Staged(w, out, reask), w, all, out)
        closed == Composed(Discharged(swept, w, barren), w)
    IN  Disowned(Walled(Drained(closed, w, all, out), w, wall), out)

-----------------------------------------------------------------------------
(***************************************************************************)
(* Actions.                                                                *)
(***************************************************************************)

\* run_session and its commit.
Session ==
    \E w \in Frontier : \E out \in Outbound(w) : \E reask, wrote, wall \in BOOLEAN :
        /\ Len(mail) + Len(out) <= MaxMail
        /\ reask => CanReask(w)
        /\ wall => CanMeetWall(w)
        /\ mail' = mail \o out
        /\ status' = Committed(w, out, reask, wrote, wall)
        /\ repaired' = repaired \cup (IF w.mode = "criterion_repair" THEN {w.src} ELSE {})
        /\ quiet' = quiet \cup (IF out = <<>> /\ ~reask /\ w.src # 0 THEN {Thread(w.src)} ELSE {})
        /\ UNCHANGED gone

\* A wake failed its last time: a message is quarantined, a tick withdrawn.
GiveUp ==
    \E w \in Frontier :
        /\ w.src # 0
        /\ quiet' = quiet \cup {Thread(w.src)}
        /\ IF IsTick(w) THEN gone' = gone \cup {w} /\ UNCHANGED status
           ELSE status' = [status EXCEPT ![w.src] = "quarantined"] /\ UNCHANGED gone
        /\ UNCHANGED <<mail, repaired>>

\* open_with: the principal's words open a thread.
Opens ==
    /\ Len(mail) < MaxMail
    /\ Cardinality(Opened("principal")) < MaxOpen
    /\ mail' = Append(mail,
        Message("principal", "converse", "liaison", "other", 0, Len(mail) + 1))
    /\ status' = Append(status, "open")
    /\ UNCHANGED <<repaired, gone, quiet>>

\* land: a clarify gets words, a confirm or a present a verdict.
Replies(i) ==
    /\ Len(mail) < MaxMail
    /\ status[i] = "open" /\ mail[i].to = "principal"
    /\ Verb(i) \in {"clarify", "confirm", "present"}
    /\ mail' = Append(mail,
        Message("principal", IF Verb(i) = "clarify" THEN "converse" ELSE "verdict",
                "liaison", "other", i, Len(mail) + 1))
    /\ status' = Append(Where(status, {i}, "answered"), "open")
    /\ UNCHANGED <<repaired, gone, quiet>>

\* The console shows a reply of the Liaison's, and that closes it.
Reads(i) ==
    /\ status[i] = "open" /\ mail[i].to = "principal" /\ Verb(i) = "converse"
    /\ status' = Where(status, {i}, "answered")
    /\ UNCHANGED <<mail, repaired, gone, quiet>>

Keypress == \E i \in Ids : Replies(i) \/ Reads(i)

Next == Session \/ GiveUp \/ Opens \/ Keypress

Spec == Init /\ [][Next]_vars

-----------------------------------------------------------------------------
(***************************************************************************)
(* Properties.                                                             *)
(***************************************************************************)
Messages ==
    [from : Roles \cup Person, verb : Verbs, to : Roles \cup Person,
     about : {"other", "criterion", "settled"}, cause : Nat, thread : Nat]

\* Every row is well formed, an effect follows its cause, and only what asks
\* for something can be unresolved.
TypeOK ==
    /\ mail \in Seq(Messages)
    /\ status \in Seq({"open", "answered", "unresolved", "quarantined"})
    /\ Len(status) = Len(mail) /\ Len(mail) <= MaxMail
    /\ \A i \in Ids : Cause(i) < i /\ Thread(i) \in 1 .. i
    /\ \A i \in Is("unresolved") : Verb(i) \in {"question", "ask", "challenge"}
    /\ repaired \subseteq Ids /\ quiet \subseteq Ids

\* The ladder moves on: a role that has replied to a question is not the next
\* rung of that question, whatever hop of the conversation it was asked at.
ClimbsToSomebodyNew ==
    \A w \in Climbs : w.role # "liaison" =>
        ~\E i \in Ids : Cause(i) = w.src /\ From(i) = w.role

\* The principal hears a round once: a second reply to an inquiry is carried by
\* an answer that came after the first reply.
EachReplyIsNew ==
    \A i, j \in Ids :
        (/\ i < j /\ Thread(i) = Thread(j)
         /\ From(i) = "liaison" /\ Verb(i) = "converse" /\ Cause(i) # 0 /\ RepliesToAsk(Cause(i))
         /\ From(j) = "liaison" /\ Verb(j) = "converse" /\ Cause(j) # 0 /\ RepliesToAsk(Cause(j)))
        => Cause(j) > i

\* Nothing is left to wake anybody for, the work that starts anew apart.
AtRest == \A w \in Frontier : w.src = 0

\* Where the loop has nothing left to wake, a question of the principal's that
\* was passed on has come back to them, unless a session had nothing to say.
QuestionComesBack ==
    AtRest =>
        \A q \in Ids : (Verb(q) = "ask" /\ Thread(q) \notin quiet) =>
            \E j \in In(Thread(q)) : j > q /\ From(j) = "liaison" /\ mail[j].to = "principal"

\* What the roles report of a broadcast becomes one question: the principal is
\* not asked twice about one round.
RoundIsOneQuestion ==
    \A i, j \in Ids :
        (/\ i < j /\ From(i) = "liaison" /\ Verb(i) = "clarify" /\ From(j) = "liaison"
         /\ Thread(i) = Thread(j) /\ \E d \in In(Thread(i)) : d < i /\ Verb(d) = "deliver")
        => Verb(j) # "clarify"

\* Where the loop has nothing left to wake, a blocked role's question outside a
\* broadcast has landed, or a session had nothing to say.
BlockedIsCarried ==
    AtRest => \A q \in Is("unresolved") : IsRound(Thread(q)) \/ Thread(q) \in quiet

\* predicates.unresolved's docstring: when the ladder goes quiet "Liaison has
\* sent, which means it is on the principal's agenda".
UnresolvedReachesSomebody ==
    AtRest =>
        \A q \in Is("unresolved") : Thread(q) \in quiet \/
            \E j \in In(Thread(q)) : j > q /\ mail[j].to = "principal"

\* tick_round_close: "Liaison harvests once a broadcast's whole subtree has
\* terminated".
RoundIsHarvested ==
    AtRest =>
        \A r \in Is("open") : (Verb(r) = "report" /\ IsRound(Thread(r))
                                 /\ mail[r].about # "settled" /\ Thread(r) \notin quiet) =>
            \E h \in In(Thread(r)) : h > r /\ Cause(h) = Thread(r) /\ mail[h].to = "principal"
=============================================================================
