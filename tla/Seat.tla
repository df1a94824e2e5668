------------------------------- MODULE Seat --------------------------------
(***************************************************************************)
(* The principal's seat: the pages put to a person, the words or rulings   *)
(* that come back from more than one console, the reading of the words by  *)
(* the Liaison, and the one door through which a ruling lands on the items *)
(* and the ledger (principal.land, principal.apply_rulings).               *)
(*                                                                         *)
(* One action is one session with its commit, or one act at a console; but *)
(* a ruling lands in statements, each committed by itself: the page closes *)
(* (Claims), each open assumption is closed, each item is written, the     *)
(* verdict is sent, the reading is marked (Done).  Consoles and the loop   *)
(* go on between them, and a kill leaves any prefix.  What the Liaison     *)
(* read lands after its session has committed, one reading at a time.      *)
(***************************************************************************)
EXTENDS Naturals, Sequences, FiniteSets

CONSTANTS
    Item,        \* items the principal asked for; an observed one is never contested
    Batch,       \* the one batch whose touch note is owed
    Console,     \* seats the principal sits at: windows or command lines
    Loop,        \* the process that runs the sessions
    Displayed,   \* TRUE: the cockpit, which marks a reply shown; FALSE: the CLI
    PageLimit,   \* PAGE_ASSUMPTIONS: assumptions on one page
    MaxVersion,  \* bound: versions of an item
    MaxMail      \* bound: messages

Kind  == {"default", "unaddressed_answer"}
Entry == Item \X Kind            \* ledger rows: what they are about, and why
Row   == Item \cup Entry \cup {Batch}
Verdict == {"approve", "contest"}        \* a revise lands as a contest

ASSUME SeatAssumption ==
    /\ Displayed \in BOOLEAN
    /\ {PageLimit, MaxVersion, MaxMail} \subseteq Nat \ {0}
    /\ Loop \notin Console /\ IsFiniteSet(Item) /\ Batch \notin Item \cup Entry /\ Item \cap Entry = {}

VARIABLES
    version, approval, approvedAt,   \* items: 0 is not asserted yet
    ledger,      \* ledger.status, "none" when there is no row
    mail,        \* messages, in the order of seq
    status,      \* messages.status
    readings,    \* rulings: what the Liaison read in a reply
    applying,    \* whether the loop is in apply_rulings
    landing,     \* how far the ruling each process is landing has come
    cut,         \* history: pages whose landing was cut after it closed them
    owed,        \* history: overruled assumptions whose item is not contested yet
    screen       \* what each console has in front of it, and as it was then

items == <<version, approval, approvedAt>>
vars  == <<version, approval, approvedAt, ledger, mail, status, readings, applying,
           landing, cut, owed, screen>>
seat  == <<landing, cut, owed, screen>>

Nothing == [ask |-> 0, seen |-> [i \in Item |-> 0]]
Ids     == 1 .. Len(mail)
Open    == {i \in Ids : status[i] = "open"}
Verb(i) == mail[i].verb
Entries(s)   == {e \in Entry : ledger[e] = s}
Items(state) == {i \in Item : version[i] > 0 /\ approval[i] = state}

\* A process that lands rulings, and what it holds while it does: the page, the
\* reading it lands (0 at a console), per_item, its rows still to write, the
\* assumptions it has closed, and the messages there were when it took an id.
Hand == Console \cup {Loop}
None == [r \in {} |-> "approve"]
At(step, ask, reading) ==
    [step |-> step, ask |-> ask, reading |-> reading, per |-> None, todo |-> {}, closed |-> {}, n |-> 0]
Idle == At("idle", 0, 0)

Init ==
    /\ version = [i \in Item |-> 0] /\ approvedAt = version
    /\ approval = [i \in Item |-> "draft"]
    /\ ledger = [e \in Entry |-> "none"]
    /\ mail = <<>> /\ status = <<>> /\ readings = <<>> /\ applying = FALSE
    /\ landing = [h \in Hand |-> Idle] /\ cut = {} /\ owed = {}
    /\ screen = [c \in Console |-> Nothing]

-----------------------------------------------------------------------------
(***************************************************************************)
(* Pages, and what wakes somebody.                                         *)
(***************************************************************************)

\* What is open to the principal; a converse is displayed, not asked.
Waiting == {i \in Open : mail[i].to = "principal"}
Pages   == {i \in Waiting : Verb(i) # "converse"}      \* pending_asks
Replies == Waiting \ Pages                             \* pending_replies

\* touch_notes: the open presents that carry a batch.
Notes == {i \in Open : Verb(i) = "present" /\ Batch \in mail[i].refs}

Tips == {i \in Open : mail[i].to # "principal"}

Wake(r, m, refs) == [role |-> r, mode |-> m, refs |-> refs]

\* contested, one wake an item.
ContestedWakes == {Wake("vision_keeper", "contested", {i}) : i \in Items("contested")}

\* (Faulty: an unread note holds the signoff back.)
SignoffBehindNotes ==
    IF Items("draft") = {} \/ \E i \in Open : Verb(i) \in {"submit", "present"} THEN {}
    ELSE {Wake("vision_keeper", "signoff", Items("draft"))}

\* tick_signoff: drafts, and nothing submitted or presented but notes.
SignoffWakes ==
    IF Items("draft") = {}
       \/ Cardinality({i \in Open : Verb(i) \in {"submit", "present"}}) # Cardinality(Notes)
    THEN {} ELSE {Wake("vision_keeper", "signoff", Items("draft"))}

\* The first rows a page may hold (bound: rowids are not kept, any are first).
Firsts(rows) ==
    {s \in SUBSET rows : Cardinality(s) = PageLimit \/ (s = rows /\ Cardinality(s) <= PageLimit)}

\* tick_agenda: open assumptions, and nothing open to the principal but notes.
AgendaWakes ==
    IF Entries("open") = {} \/ Cardinality(Waiting) # Cardinality(Notes) THEN {}
    ELSE {Wake("liaison", "agenda", s) : s \in Firsts(Entries("open"))}

\* touch_note: the batch of an approved item, until some present carried it.
NoteWakes ==
    IF \E i \in Ids : Verb(i) = "present" /\ Batch \in mail[i].refs THEN {}
    ELSE {Wake("liaison", "touch_note", {Batch, i}) : i \in Items("approved")}

Wakes == ContestedWakes \cup SignoffWakes \cup AgendaWakes \cup NoteWakes

\* step: messages by seq, then fixes, gates, starts.
First(i) == i \in Tips /\ \A j \in Tips : i <= j
Due(w) ==
    /\ Tips = {}
    /\ IF ContestedWakes # {} THEN w \in ContestedWakes
       ELSE IF SignoffWakes \cup AgendaWakes # {} THEN w \in SignoffWakes \cup AgendaWakes
       ELSE w \in NoteWakes

-----------------------------------------------------------------------------
(***************************************************************************)
(* Landing a ruling: the statements of land, in their order.               *)
(***************************************************************************)
Message(from, verb, to, cause, refs) ==
    [from |-> from, verb |-> verb, to |-> to, cause |-> cause, refs |-> refs]

\* A batch is never ruled on.
Ruled(ruling) == [r \in DOMAIN ruling \ {Batch} |-> ruling[r]]

\* A touch note is read: all approve, or nothing left, wakes nobody.
Acknowledged(i, ruling) ==
    /\ Verb(i) = "present" /\ Batch \in mail[i].refs
    /\ \A r \in DOMAIN Ruled(ruling) : ruling[r] = "approve"

Answered(s, i) == [s EXCEPT ![i] = "answered"]

\* (Faulty: whether the ask is still open is not asked again.)
LandsUnchecked(i) == i \in Ids

\* land's guard: the ask is open.
Lands(i) == i \in Open

\* The page closes; a note that was only read has nothing more to land.
Claims(h, i, ruling, k) ==
    LET l == [step |-> "rows", ask |-> i, reading |-> k, per |-> Ruled(ruling),
              todo |-> DOMAIN Ruled(ruling), closed |-> {}, n |-> Len(mail)]
    IN  /\ landing[h] = Idle
        /\ status' = Answered(status, i)
        /\ landing' = [landing EXCEPT ![h] =
              IF Acknowledged(i, ruling) THEN At("read", i, k) ELSE l]

\* (Faulty: the page's own line about the item wins.)
PerItemAsRead(per, e) ==
    IF per[e] # "contest" \/ e[1] \in DOMAIN per THEN per
    ELSE [r \in DOMAIN per \cup {e[1]} |-> IF r = e[1] THEN "contest" ELSE per[r]]

\* per_item once the assumption e is closed: overruled, it contests its item.
PerItem(per, e) ==
    IF per[e] # "contest" THEN per
    ELSE [r \in DOMAIN per \cup {e[1]} |-> IF r = e[1] THEN "contest" ELSE per[r]]

\* A row of the ruling that is an open assumption is closed at the keypress.
ClosesEntry(h) ==
    LET l == landing[h] IN
    \E e \in l.todo \cap Entry :
        /\ l.step = "rows"
        /\ IF ledger[e] = "open"
           THEN /\ ledger' = [ledger EXCEPT ![e] = "resolved"]
                /\ landing' = [landing EXCEPT ![h] =
                      [l EXCEPT !.per = PerItem(l.per, e), !.closed = @ \cup {e},
                                !.todo = (@ \ {e}) \cup IF l.per[e] = "contest" THEN {e[1]} ELSE {}]]
                /\ owed' = IF l.per[e] = "contest" THEN owed \cup {<<l.ask, e>>} ELSE owed
           ELSE /\ landing' = [landing EXCEPT ![h] = [l EXCEPT !.todo = @ \ {e}]]
                /\ UNCHANGED <<ledger, owed>>
        /\ UNCHANGED <<items, mail, status, readings, applying, cut, screen>>

\* The state that follows from a ruling.
StateOf(v) == IF v = "approve" THEN "approved" ELSE "contested"

\* What is owed once the items are in the states st.
StillOwed(st) == {o \in owed : st[o[2][1]] # "contested"}

\* Then the items: one whose state the ruling moves is stamped with its version.
WritesItem(h) ==
    LET l == landing[h] IN
    \E x \in l.todo \cap Item :
        /\ l.step = "rows" /\ l.todo \cap Entry = {}
        /\ approval' = [approval EXCEPT ![x] = StateOf(l.per[x])]
        /\ approvedAt' = IF approval[x] = StateOf(l.per[x]) THEN approvedAt
                         ELSE [approvedAt EXCEPT ![x] = version[x]]
        /\ landing' = [landing EXCEPT ![h] = [l EXCEPT !.todo = @ \ {x}]]
        /\ owed' = StillOwed(approval')
        /\ UNCHANGED <<version, ledger, mail, status, readings, applying, cut, screen>>

\* The verdict goes to the Liaison with the rows an owner still has to act on.
VerdictMessage(l) ==
    Message("principal", "verdict", "liaison", l.ask,
            (IF DOMAIN l.per = {} THEN mail[l.ask].refs ELSE DOMAIN l.per) \ l.closed)

\* Every row closed at the keypress, all approved: nothing is left to relay.
Settled(l) ==
    /\ DOMAIN l.per # {} /\ DOMAIN l.per \subseteq l.closed
    /\ \A e \in l.closed : l.per[e] = "approve"

\* The insert; an id another process has taken meanwhile is refused (Killed).
SendsVerdict(h) ==
    LET l == landing[h] IN
    /\ l.step = "rows" /\ l.todo = {}
    /\ Len(mail) = l.n /\ Len(mail) < MaxMail
    /\ mail' = Append(mail, VerdictMessage(l))
    /\ status' = Append(status, IF Settled(l) THEN "answered" ELSE "open")
    /\ landing' = [landing EXCEPT ![h] = At("sent", l.ask, l.reading)]
    /\ UNCHANGED <<items, ledger, readings, applying, cut, owed, screen>>

\* (Faulty: the Liaison's open reading of the same page is left open.)
MarksNone(i) == readings

\* A verdict of the seat's lands the open readings of the page, or is one.
Marks(i) ==
    IF \E k \in DOMAIN readings : readings[k].ask = i
    THEN [k \in DOMAIN readings |->
            IF readings[k].ask = i /\ readings[k].status = "open"
            THEN [readings[k] EXCEPT !.status = "landed"] ELSE readings[k]]
    ELSE Append(readings, [ask |-> i, reply |-> 0, ruling |-> None, status |-> "landed"])

Off(c) == IF c \in Console THEN [screen EXCEPT ![c] = Nothing] ELSE screen

\* The end: a console marks the readings of the page it sent a verdict of, the
\* loop the one it landed.
Done(h) ==
    LET l == landing[h] IN
    /\ l.step \in {"sent", "read"}
    /\ readings' = IF l.reading # 0 THEN [readings EXCEPT ![l.reading].status = "landed"]
                   ELSE IF l.step = "sent" THEN Marks(l.ask) ELSE readings
    /\ landing' = [landing EXCEPT ![h] = Idle]
    /\ screen' = Off(h)
    /\ UNCHANGED <<items, ledger, mail, status, applying, cut, owed>>

\* A process is killed, or its insert refused, between two of its statements.
Killed(h) ==
    /\ landing[h] # Idle \/ (h = Loop /\ applying)
    /\ landing' = [landing EXCEPT ![h] = Idle]
    /\ cut' = IF landing[h] = Idle THEN cut ELSE cut \cup {landing[h].ask}
    /\ applying' = (applying /\ h # Loop)
    /\ screen' = Off(h)
    /\ UNCHANGED <<items, ledger, mail, status, readings, owed>>

Landing(h) == ClosesEntry(h) \/ WritesItem(h) \/ SendsVerdict(h) \/ Done(h) \/ Killed(h)

-----------------------------------------------------------------------------
(***************************************************************************)
(* Consoles.                                                               *)
(***************************************************************************)

\* pending_asks, rendered: the page as its rows are now.
Show(c) ==
    \E i \in Pages :
        /\ screen' = [screen EXCEPT ![c] = [ask |-> i, seen |-> version]]
        /\ UNCHANGED <<items, ledger, mail, status, readings, applying, landing, cut, owed>>

\* Words to a present: the page stays open and the words go to the Liaison.
Say(c) ==
    LET i == screen[c].ask IN
    /\ i \in Open /\ Verb(i) = "present" /\ Len(mail) < MaxMail
    /\ mail' = Append(mail, Message("principal", "converse", "liaison", i, mail[i].refs))
    /\ status' = Append(status, "open")
    /\ screen' = Off(c)
    /\ UNCHANGED <<items, ledger, readings, applying, landing, cut, owed>>

\* Words to a clarify: they close it, and a landed reading of nothing is kept
\* (one step: no ruling lands with them).
Clarifies(c) ==
    LET i == screen[c].ask IN
    /\ i \in Open /\ Verb(i) = "clarify" /\ Len(mail) < MaxMail
    /\ mail' = Append(mail, Message("principal", "converse", "liaison", i, mail[i].refs))
    /\ status' = Append(Answered(status, i), "open")
    /\ readings' = Append(readings, [ask |-> i, reply |-> 0, ruling |-> None, status |-> "landed"])
    /\ screen' = Off(c)
    /\ UNCHANGED <<items, ledger, applying, landing, cut, owed>>

\* rota sign: a ruling on some of the rows of the page begins to land.
Sign(c) ==
    LET i == screen[c].ask IN
    \E rows \in SUBSET (IF i = 0 THEN {} ELSE mail[i].refs) \ {{}} :
    \E ruling \in [rows -> Verdict] :
        /\ Verb(i) = "present" /\ Lands(i)
        /\ Claims(c, i, ruling, 0)
        /\ UNCHANGED <<items, ledger, mail, readings, applying, cut, owed, screen>>

\* show_replies: a reply is displayed, and that closes it.
ShowReplies ==
    /\ Displayed /\ Replies # {}
    /\ status' = [i \in Ids |-> IF i \in Replies THEN "answered" ELSE status[i]]
    /\ UNCHANGED <<items, ledger, mail, readings, applying, seat>>

-----------------------------------------------------------------------------
(***************************************************************************)
(* Sessions of the Liaison.  Sends: what the session sent, with the woken  *)
(* message answered.                                                       *)
(***************************************************************************)
ToPrincipal(verb, refs, cause) == Message("liaison", verb, "principal", cause, refs)
ToOwner(refs, cause) == Message("liaison", "relay", "vision_keeper", cause, refs)

Ends(i) == IF i = 0 THEN status ELSE Answered(status, i)

Sends(out, i) ==
    /\ Len(mail) + Len(out) <= MaxMail
    /\ mail' = mail \o out
    /\ status' = Ends(i) \o [k \in DOMAIN out |-> "open"]

Quiet(i) == Sends(<<>>, i) /\ UNCHANGED <<items, ledger, readings, applying, seat>>
Speaks(m, i) == Sends(<<m>>, i) /\ UNCHANGED <<items, ledger, readings, applying, seat>>

\* The assumptions a signoff's page takes along, within the room it has.
WithAssumptions(refs) ==
    {refs \cup s : s \in Firsts({e \in Entries("open") : e[1] \in refs})}

\* The door of a page: PAGE_ASSUMPTIONS open assumptions, whoever named them.
Fits(page) == Cardinality(page \cap Entries("open")) <= PageLimit

\* submit: what was submitted is presented.
Presents(i) ==
    /\ First(i) /\ Verb(i) = "submit"
    /\ \/ \E page \in WithAssumptions(mail[i].refs) :
             Fits(page) /\ Speaks(ToPrincipal("present", page, i), i)
       \/ Quiet(i)

\* agenda, touch_note: the rows of the wake are presented.
PresentsWake(w) ==
    /\ Due(w) /\ w.role = "liaison" /\ Fits(w.refs)
    /\ Speaks(ToPrincipal("present", w.refs, 0), 0)

\* _ask_of: the page a reply answers, still open unless it was a clarify.
AskOf(i) == IF Verb(mail[i].cause) = "clarify" \/ mail[i].cause \in Open THEN mail[i].cause ELSE 0

\* The lines of a page; rulings.rule takes every one of them.
Lines(i) == mail[i].refs \ {Batch}

\* rulings.rule with ask=: one sentence back, and the page stays open.
AsksBack(i) ==
    /\ First(i) /\ Verb(i) = "converse" /\ AskOf(i) # 0 /\ Verb(mail[i].cause) = "present"
    /\ Speaks(ToPrincipal("converse", mail[i].refs, i), i)

Reading(i, ruling) == [ask |-> mail[i].cause, reply |-> i, ruling |-> ruling, status |-> "open"]

\* landing: every line gets a ruling; the reading is committed and landed next.
Reads(i) ==
    \E ruling \in [Lines(i) -> Verdict] :
        /\ First(i) /\ Verb(i) = "converse" /\ AskOf(i) # 0 /\ Verb(AskOf(i)) = "present"
        /\ readings' = Append(readings, Reading(i, ruling))
        /\ status' = Ends(i) /\ applying' = TRUE
        /\ UNCHANGED <<items, ledger, mail, seat>>

Unlanded == {k \in DOMAIN readings : readings[k].status = "open"}

\* apply_rulings: the oldest open reading begins to land, or its page closed
\* meanwhile and it is marked landed without a verdict.
ApplyRuling ==
    /\ applying /\ landing[Loop] = Idle
    /\ UNCHANGED <<items, ledger, mail, cut, owed, screen>>
    /\ IF Unlanded = {}
       THEN applying' = FALSE /\ UNCHANGED <<status, readings, landing>>
       ELSE LET k   == CHOOSE l \in Unlanded : \A n \in Unlanded : l <= n
                ask == readings[k].ask
            IN  /\ UNCHANGED applying
                /\ IF Lands(ask) THEN Claims(Loop, ask, readings[k].ruling, k) /\ UNCHANGED readings
                   ELSE /\ readings' = [readings EXCEPT ![k].status = "landed"]
                        /\ UNCHANGED <<status, landing>>

\* A relay comes after the reading: some line of the page was ruled or parked.
MayRelay(i) == Lines(i) # {}

\* answering: the rows the words settle, the rest parked, and the relay.  The
\* clarify is closed already, so this reading moves no row when it is applied.
Answers(i) ==
    \E settled \in SUBSET Lines(i) : \E ruling \in [settled -> Verdict] : \E relayed \in BOOLEAN :
        /\ First(i) /\ Verb(i) = "converse" /\ Verb(mail[i].cause) = "clarify"
        /\ relayed => MayRelay(i)
        /\ LET parked == (Lines(i) \ settled) \cap Item
           IN  ledger' = [e \in Entry |-> IF e \in parked \X {"unaddressed_answer"}
                                          THEN "open" ELSE ledger[e]]
        /\ readings' = IF settled = {} THEN readings ELSE Append(readings, Reading(i, ruling))
        /\ applying' = (settled # {})
        /\ Sends(IF relayed THEN <<ToOwner(mail[i].refs, i)>> ELSE <<>>, i)
        /\ UNCHANGED <<items, seat>>

\* verdict_signoff: the ruling goes to its owner.
Relays(i) ==
    /\ First(i) /\ Verb(i) = "verdict" /\ mail[i].refs # {}
    /\ Speaks(ToOwner(mail[i].refs, i), i)

\* report: what an owner could not settle is asked, in words the door lets by
\* (new, the Liaison's own, about the project); a refusal leaves it Quiet.
Clarify(i) ==
    /\ First(i) /\ Verb(i) = "report"
    /\ Speaks(ToPrincipal("clarify", mail[i].refs, i), i)

Liaison ==
    /\ ~applying
    /\ \/ \E i \in Tips :
            \/ Presents(i) \/ AsksBack(i) \/ Reads(i) \/ Answers(i) \/ Relays(i) \/ Clarify(i)
            \/ First(i) /\ Verb(i) \in {"converse", "verdict", "report"} /\ Quiet(i)
       \/ \E w \in Wakes : PresentsWake(w)

-----------------------------------------------------------------------------
(***************************************************************************)
(* Sessions of the Vision Keeper.                                          *)
(***************************************************************************)
Asserted(i) ==
    /\ version[i] < MaxVersion
    /\ version' = [version EXCEPT ![i] = @ + 1]
    /\ approval' = [approval EXCEPT ![i] = "draft"]
    /\ UNCHANGED approvedAt

\* deliver: an item asserted or amended; the silent choice in it is logged, and
\* logging what was resolved opens it again.
Delivered(i) ==
    \E logged \in BOOLEAN :
        /\ Tips = {} /\ Asserted(i)
        /\ ledger' = IF logged THEN [ledger EXCEPT ![<<i, "default">>] = "open"] ELSE ledger
        /\ UNCHANGED <<mail, status, readings, applying, seat>>

\* signoff: some of the items go up together.
Submits(w) ==
    \E refs \in SUBSET {i \in Item : version[i] > 0} \ {{}} :
        /\ Due(w) /\ w.mode = "signoff"
        /\ Speaks(Message("vision_keeper", "submit", "liaison", 0, refs), 0)

\* contested: the item is amended, or defended: a decision, which may resolve an
\* assumption, and a report.
Amends(w) ==
    /\ Due(w) /\ w.mode = "contested"
    /\ \E i \in w.refs : Asserted(i)
    /\ UNCHANGED <<ledger, mail, status, readings, applying, seat>>

Defends(w) ==
    \E resolved \in SUBSET Entries("open") :
        /\ Due(w) /\ w.mode = "contested" /\ Cardinality(resolved) <= 1
        /\ ledger' = [e \in Entry |-> IF e \in resolved THEN "resolved" ELSE ledger[e]]
        /\ Sends(<<Message("vision_keeper", "report", "liaison", 0, w.refs)>>, 0)
        /\ UNCHANGED <<items, readings, applying, seat>>

\* relay: approvals written by the owner, stamped with the version it read.
Applies(i) ==
    \E which \in SUBSET {x \in Item : version[x] > 0} : \E state \in {"approved", "contested"} :
        /\ First(i) /\ Verb(i) = "relay"
        /\ approval' = [x \in Item |-> IF x \in which THEN state ELSE approval[x]]
        /\ approvedAt' = [x \in Item |-> IF x \in which THEN version[x] ELSE approvedAt[x]]
        /\ status' = Ends(i) /\ owed' = StillOwed(approval')
        /\ UNCHANGED <<version, ledger, mail, readings, applying, landing, cut, screen>>

VisionKeeper ==
    /\ ~applying
    /\ \/ \E i \in Item : Delivered(i)
       \/ \E w \in Wakes : Submits(w) \/ Amends(w) \/ Defends(w)
       \/ \E i \in Tips : Applies(i)

AtConsole(c) == landing[c] = Idle /\ (Show(c) \/ Say(c) \/ Clarifies(c) \/ Sign(c))

Next ==
    \/ Liaison \/ VisionKeeper \/ ApplyRuling \/ ShowReplies
    \/ \E c \in Console : AtConsole(c)
    \/ \E h \in Hand : Landing(h)

Spec == Init /\ [][Next]_vars

-----------------------------------------------------------------------------
(***************************************************************************)
(* Properties.                                                             *)
(***************************************************************************)
Rulings  == UNION {[rows -> Verdict] : rows \in SUBSET Row}
Messages ==
    [from : {"principal", "liaison", "vision_keeper"},
     verb : {"converse", "clarify", "present", "verdict", "relay", "submit", "report"},
     to : {"principal", "liaison", "vision_keeper"}, cause : Nat, refs : SUBSET Row]
ReadingRow == [ask : Nat, reply : Nat, ruling : Rulings, status : {"open", "landed"}]
Landings ==
    [step : {"idle", "rows", "sent", "read"}, ask : Nat, reading : Nat, per : Rulings,
     todo : SUBSET Row, closed : SUBSET Entry, n : Nat]
Screens    == [ask : Nat, seen : [Item -> 0 .. MaxVersion]]

\* Rows are well formed; no approval is of a version yet to come.
TypeOK ==
    /\ version \in [Item -> 0 .. MaxVersion]
    /\ approval \in [Item -> {"draft", "approved", "contested"}]
    /\ approvedAt \in [Item -> 0 .. MaxVersion] /\ \A i \in Item : approvedAt[i] <= version[i]
    /\ ledger \in [Entry -> {"none", "open", "resolved"}]
    /\ mail \in Seq(Messages) /\ status \in Seq({"open", "answered"})
    /\ Len(status) = Len(mail) /\ Len(mail) <= MaxMail
    /\ readings \in Seq(ReadingRow) /\ \A k \in DOMAIN readings : readings[k].ask \in Ids
    /\ applying \in BOOLEAN
    /\ landing \in [Hand -> Landings]
    /\ cut \subseteq Ids /\ owed \subseteq Ids \X Entry
    /\ screen \in [Console -> Screens] /\ \A c \in Console : screen[c].ask \in {0} \cup Ids

\* A page is ruled on once, whichever console, command line or reading gets
\* there first.
OneVerdict ==
    \A i, j \in Ids : (Verb(i) = "verdict" /\ Verb(j) = "verdict" /\ mail[i].cause = mail[j].cause) => i = j

\* What is unfinished is somebody's: a draft, a contested item or an open
\* assumption is on its way, offered to a role, or on a page that waits.
LooseEndsAreCarried ==
    (Items("draft") \cup Items("contested") # {} \/ Entries("open") # {}) =>
        Tips # {} \/ Wakes # {} \/ Pages \ Notes # {} \/ (Displayed /\ Replies # {})

\* An assumption overruled on a page leaves its item contested, whatever the
\* page's own line about the item was given: the items follow the ledger before
\* the verdict goes out, unless the landing was cut between the two.
OverruledContests ==
    \A o \in owed : o[1] \in cut \/ \E h \in Hand : landing[h].step = "rows" /\ landing[h].ask = o[1]

\* What the Liaison read can still land: its page is open, or a ruling of the same
\* page came first, and is landing, has landed as a reading, or was cut.  A clarify
\* closes before it is read, and a note is only read.
ReadingHasItsPage ==
    \A k \in Unlanded :
        LET a == readings[k].ask
        IN  \/ a \in Open \cup cut \/ Verb(a) = "clarify" \/ Batch \in mail[a].refs
            \/ \E h \in Hand : landing[h].ask = a
            \/ \E l \in 1 .. k - 1 : /\ readings[l].ask = a /\ readings[l].reply # 0
                                    /\ readings[l].status = "landed"

\* land's docstring: "it would approve a version of the row the principal never
\* saw".  A ruling from a console approves the versions it had on its screen.
RulesWhatWasShown ==
    [][\A c \in Console, i \in Item :
        (landing'[c] # landing[c] /\ approval[i] # "approved" /\ approval'[i] = "approved")
        => screen[c].seen[i] = version[i]]_vars

\* land's comment, Law 11: the entry is resolved "in the same commit".  An overruled
\* assumption is never resolved for good with its item left as it was.
OverruledIsHeard ==
    \A o \in owed : \E h \in Hand : landing[h].step = "rows" /\ landing[h].ask = o[1]

\* What the principal ruled is never lost: a page ruled on has its verdict, or
\* somebody is landing it.
RulingIsHeard ==
    \A a \in Ids : (Verb(a) = "present" /\ status[a] = "answered" /\ Batch \notin mail[a].refs) =>
        \/ \E i \in Ids : Verb(i) = "verdict" /\ mail[i].cause = a
        \/ \E h \in Hand : landing[h].ask = a

\* pending_asks' docstring: replies "do not become a principal gate".  With
\* nothing left to do and no page open, no assumption is left unpresented.
AssumptionsReachTheSeat ==
    (Tips = {} /\ Wakes = {} /\ ~applying /\ Pages \subseteq Notes
        /\ ~(Displayed /\ Replies # {})) => Entries("open") = {}
=============================================================================
