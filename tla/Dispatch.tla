------------------------------ MODULE Dispatch ------------------------------
(***************************************************************************)
(* Which wake is dispatched, how often, and when the system gives it up:   *)
(* frontier, claims and the three quarantines of src/rota/core/scheduler.py *)
(* as loop.step, runner.run_session and db.session_commit drive them.      *)
(*                                                                         *)
(* A wake is a message or a tick.  A tick has a key (role, kind, refs),    *)
(* counted in tick_attempts each time it is dispatched; a message counts   *)
(* its own attempts.  One action is one step of the loop, from the         *)
(* frontier and its writes to the end of the session it dispatches.        *)
(***************************************************************************)
EXTENDS Integers, FiniteSets

CONSTANTS
    Role, Liaison,  \* roles of the graph; the one that reports to the principal
    Principal,      \* who is not schedulable
    Scheduler,      \* the addressee of wakes the scheduler performs itself
    Work,           \* tick keys, the reports of abandoned work excepted
    RoleOf,         \* whom a key wakes
    Band,           \* its predicate's band: 10 fix, 20 gate, 30 start
    SubjectOf,      \* the subject in its refs
    Act,            \* do: wakes, performed by the scheduler and not counted
    Starts,         \* ticks whose batch is started before the session: tick:batch_start
    Shy,            \* ticks whose predicate skips what was abandoned
    PerCommit,      \* ticks forgotten when the subject's head moves
    Subject,        \* batches, items, areas: what rows and refs are about
    Shown,          \* the subjects the principal has a name for
    Like,           \* <<s, k>>: the id of s, as a LIKE pattern, matches k, whose refs do not name s
    Edge,           \* from_role -> to_role : verb
    Nothing,        \* no edge
    From, To,       \* the two roles of an edge
    Asks,           \* edges whose verb is question
    About,          \* subjects in the body_refs of an edge's messages
    TickCap,        \* tick_attempt_cap
    MessageCap,     \* message_attempt_cap
    LoopCap,        \* loop_cap
    WalkLimit       \* the limit of edge_repeats

\* Keys of tick:quarantined: the payload is in the refs.
Report == [named : SUBSET Subject]
Key    == Work \cup Report

ASSUME DispatchAssumption ==
    /\ IsFiniteSet(Subject) /\ Shown \subseteq Subject
    /\ Like \subseteq Subject \X Key
    /\ Liaison \in Role /\ {Scheduler, Principal} \cap Role = {}
    /\ Work \cap Report = {}
    /\ RoleOf \in [Work -> Role \cup {Scheduler}]
    /\ Band \in [Work -> {10, 20, 30}]
    /\ SubjectOf \in [Work -> Subject]
    /\ Act \subseteq {k \in Work : RoleOf[k] = Scheduler}
    /\ Shy \subseteq Work /\ PerCommit \subseteq Work
    /\ Starts \subseteq {k \in Work : RoleOf[k] \in Role}
    /\ Nothing \notin Edge /\ Asks \subseteq Edge
    /\ From \in [Edge -> Role \cup {Principal}] /\ To \in [Edge -> Role]
    /\ About \in [Edge -> SUBSET Subject]
    /\ {TickCap, MessageCap, LoopCap, WalkLimit} \subseteq Nat \ {0}

VARIABLES
    due,       \* keys whose predicate holds of the rows
    tries,     \* tick_attempts.attempts; 0 is no row
    gone,      \* tick_attempts.quarantined
    told,      \* tick_attempts.reported
    open,      \* edges with an open message (bound: one each)
    spent,     \* messages.attempts
    walk,      \* the edges of a message's causes, itself first, as far as read
    dead,      \* edges with a quarantined message
    claims,    \* roles with a claims row
    receipts,  \* history: the subjects the last step wrote receipts for
    outside,   \* history: the last step was not the loop's
    stirred    \* history: the scheduler's own act made something due in it

tickVars == <<tries, gone, told>>
mailVars == <<open, spent, walk, dead>>
history  == <<receipts, outside, stirred>>
vars     == <<due, tickVars, mailVars, claims, history>>

Blank == [i \in 1 .. WalkLimit |-> Nothing]

Init ==
    /\ due \in SUBSET Work
    /\ tries = [k \in Key |-> 0] /\ gone = {} /\ told = {}
    /\ open = {} /\ dead = {}
    /\ spent = [e \in Edge |-> 0] /\ walk = [e \in Edge |-> Blank]
    /\ claims = {} /\ receipts = {} /\ outside = FALSE /\ stirred = FALSE

Subjects(k) == IF k \in Report THEN k.named ELSE {SubjectOf[k]}
\* Whose rows a key matches: what its refs name, and what merely looks like it.
Matches(k) == Subjects(k) \cup {s \in Subject : <<s, k>> \in Like}
Addressee(k) == IF k \in Report THEN Liaison ELSE RoleOf[k]
BandOf(k)    == IF k \in Report THEN 10 ELSE Band[k]

-----------------------------------------------------------------------------
(***************************************************************************)
(* The frontier.  It settles what is abandoned before it asks what is due. *)
(* The operators called ...Now are the tables after those writes.          *)
(***************************************************************************)

\* edge_repeats: how often a message's own edge is on the walk of its causes.
EdgeRepeats(e) == Cardinality({i \in 1 .. WalkLimit : walk[e][i] = e})

\* (Faulty: only what one message or one tick repeats is bounded.)
LoopingUnseen == {}

\* quarantine_looping.
Looping == {e \in open : EdgeRepeats(e) > LoopCap}
OpenNow == open \ Looping
DeadNow == dead \cup Looping

\* quarantine_overrun, and the same again at the end of quarantine_stalled.
GoneNow == gone \cup {k \in Key : tries[k] >= TickCap}

\* predicates.quarantined: one wake for the Liaison while a message or an
\* untold tick is given up, naming what the principal knows of them.
Reports ==
    LET untold == GoneNow \ told
        named  == (UNION {Subjects(k) \cap Shown : k \in untold})
                  \cup (UNION {About[e] : e \in DeadNow})
    IN  IF untold = {} /\ DeadNow = {} THEN {} ELSE {[named |-> named]}

\* all_wakes, the message tips apart.
Produced == (due \ (Shy \cap GoneNow)) \cup Reports

\* (Faulty: what is abandoned is forgotten like anything not produced.)
TriesForgetting ==
    LET live == Produced IN [k \in Key |-> IF k \in live THEN tries[k] ELSE 0]

\* quarantine_stalled: the count of what is no longer produced is dropped,
\* unless it is not produced because it was abandoned.
TriesNow ==
    LET live == Produced \cup GoneNow
    IN  [k \in Key |-> IF k \in live THEN tries[k] ELSE 0]

Waiting(r) == \E e \in OpenNow \cap Asks : From[e] = r

\* (Faulty: what is past its cap is marked and still dispatched.)
OfferedPastCap == {k \in Produced : ~Waiting(Addressee(k))}

\* quarantine_stalled and waiting_filter: a tick past its cap is withdrawn, and
\* so is every tick of a role whose own question is open.
Offered == {k \in Produced : tries[k] < TickCap /\ ~Waiting(Addressee(k))}

Chores == {k \in Offered : Addressee(k) = Scheduler}
Ticks  == {k \in Offered \ Chores : Addressee(k) \notin claims}
Tips   == {e \in OpenNow : To[e] \notin claims}

\* Nothing is left for the loop to do.
Quiescent == Tips = {} /\ Chores = {} /\ Ticks = {}

Earliest(S) == {k \in S : \A j \in S : BandOf(k) <= BandOf(j)}

-----------------------------------------------------------------------------
(***************************************************************************)
(* How a session ends.  r is the role, cause the message that woke it or   *)
(* Nothing, counted the tick counts after note_dispatch, begun what is due *)
(* when the session begins.                                                *)
(***************************************************************************)

\* What a row's change does to the ticks about it, either way.
Rewritten(begun, rows) ==
    due' \in {D \in SUBSET Work :
                \A k \in Work : SubjectOf[k] \notin rows => (k \in D <=> k \in begun)}

\* Only open messages keep their counts and their causes.
Kept(o, count, causes) ==
    /\ open' = o
    /\ spent' = [e \in Edge |-> IF e \in o THEN count[e] ELSE 0]
    /\ walk' = [e \in Edge |-> IF e \in o THEN causes[e] ELSE Blank]

\* The message on edge e, caused by the one on edge cause.
Caused(e, cause) ==
    [i \in 1 .. WalkLimit |->
        IF i = 1 THEN e ELSE IF cause = Nothing THEN Nothing ELSE walk[cause][i - 1]]

\* (Faulty: the trigger is left open by the commit that answers it.)
SendsUnanswered(r, cause, rest) ==
    \E new \in {{}} \cup {{e} : e \in {f \in Edge \ rest : From[f] = r}} :
        Kept(OpenNow \cup new, [e \in Edge |-> IF e \in new THEN 0 ELSE spent[e]],
             [e \in Edge |-> IF e \in new THEN Caused(e, cause) ELSE walk[e]])

\* At most one message of the session is kept, and one open message per edge.
Sends(r, cause, rest) ==
    \E new \in {{}} \cup {{e} : e \in {f \in Edge \ rest : From[f] = r}} :
        Kept(rest \cup new, [e \in Edge |-> IF e \in new THEN 0 ELSE spent[e]],
             [e \in Edge |-> IF e \in new THEN Caused(e, cause) ELSE walk[e]])

\* _lift_quarantines: an abandoned tick revives when a row is written whose id
\* its key matches; some are forgotten, abandoned or not, when the head moves.
Lifted(rows, heads) ==
    {k \in GoneNow : Matches(k) \cap rows # {}}
    \cup {k \in PerCommit : Matches(k) \cap heads # {}}

\* session_commit in one transaction: rows, messages, the trigger answered, the
\* claim released.  A report of abandoned work is ticked off after it, in a
\* statement a kill may come before.
Commits(r, cause, begun, counted, reporting) ==
    /\ UNCHANGED claims /\ dead' = DeadNow
    /\ \E rows \in SUBSET Subject : \E heads \in SUBSET rows :
          LET lifted == Lifted(rows, heads)
              said   == IF reporting THEN GoneNow ELSE {}
          IN  /\ receipts' = rows /\ outside' = FALSE
              /\ gone' = GoneNow \ lifted
              /\ told' \in {told \ lifted, (told \cup said) \ lifted}
              /\ tries' = [k \in Key |-> IF k \in lifted THEN 0 ELSE counted[k]]
              /\ Rewritten(begun, rows)
    /\ stirred' = ~ begun \subseteq due
    /\ Sends(r, cause, OpenNow \ {cause})

\* The rows of the session are gone with it; its attempt is not, and neither is
\* what was done before it began.
NothingLands(begun, counted) ==
    /\ due' = begun /\ stirred' = ~ begun \subseteq due
    /\ receipts' = {} /\ outside' = FALSE
    /\ gone' = GoneNow /\ tries' = counted
    /\ UNCHANGED told

\* quarantine_exhausted.
Exhausted(o, count) == {e \in o : count[e] >= MessageCap}

\* Counts past the cap are alike.
Spend(cause) ==
    [e \in Edge |-> IF e = cause /\ spent[e] < MessageCap THEN spent[e] + 1 ELSE spent[e]]

\* The session raises: session_fail, the claim released, the trigger left open.
Fails(cause, begun, counted) ==
    /\ NothingLands(begun, counted)
    /\ LET over == Exhausted(OpenNow, Spend(cause))
       IN  /\ Kept(OpenNow \ over, Spend(cause), walk)
           /\ dead' = DeadNow \cup over
    /\ UNCHANGED claims

\* The process is killed: before the claim, between the claim and the message's
\* attempt, in the session, or after a failed one has released the claim.
Dies(r, cause, begun, counted) ==
    /\ NothingLands(begun, counted)
    /\ \E claimed, counts \in BOOLEAN :
          /\ claims' = IF claimed THEN claims \cup {r} ELSE claims
          /\ Kept(OpenNow, IF counts THEN Spend(cause) ELSE spent, walk)
    /\ dead' = DeadNow

Session(r, cause, begun, counted, reporting) ==
    \/ Commits(r, cause, begun, counted, reporting)
    \/ Fails(cause, begun, counted)
    \/ Dies(r, cause, begun, counted)

-----------------------------------------------------------------------------
(***************************************************************************)
(* The steps of the loop, and what happens between them.                   *)
(***************************************************************************)

\* note_dispatch, before the session: a session that dies has spent its turn.
Count(k) == [TriesNow EXCEPT ![k] = @ + 1]

\* Everything settled and nothing else: the loop found nothing to do, or was
\* killed before it did anything.
Look ==
    /\ NothingLands(due, TriesNow)
    /\ Kept(OpenNow, spent, walk) /\ dead' = DeadNow
    /\ UNCHANGED claims

\* The scheduler's own wakes go first.  A do: action drains its predicate and
\* is not counted; a tick addressed to the scheduler is, and may not drain.
\* Either may make other wakes due, or not due: a preemption frees the desk and
\* the next start is due, a harness run has failures to look at.
Perform(k) ==
    /\ k \in Earliest(Chores)
    /\ due' \in IF k \in Act THEN SUBSET (Work \ {k}) ELSE SUBSET Work
    /\ stirred' = ~ due' \subseteq due
    /\ gone' = GoneNow /\ tries' = IF k \in Act THEN TriesNow ELSE Count(k)
    /\ Kept(OpenNow, spent, walk) /\ dead' = DeadNow
    /\ receipts' = {} /\ outside' = FALSE
    /\ UNCHANGED <<told, claims>>

\* Messages in flight are band 0.
Deliver(e) ==
    /\ e \in Tips /\ Chores = {}
    /\ Session(To[e], e, due, TriesNow, FALSE)

\* lifecycle.start, before the session: it stands although the session fails.
Begun(k) == IF k \in Starts THEN SUBSET Work ELSE {due}

\* A tick, once no message can be delivered.
Wake(k) ==
    /\ Tips = {} /\ Chores = {} /\ k \in Earliest(Ticks)
    /\ \E begun \in Begun(k) :
          Session(Addressee(k), Nothing, begun, Count(k), k \in Report)

\* What others write changes what is due; no quarantine hears of it.
World(s) ==
    /\ Rewritten(due, {s})
    /\ receipts' = {} /\ outside' = TRUE /\ stirred' = FALSE
    /\ UNCHANGED <<tickVars, mailVars, claims>>

\* The principal says something new, which nothing caused.
Say(e) ==
    /\ From[e] = Principal /\ e \notin open
    /\ open' = open \cup {e}
    /\ walk' = [walk EXCEPT ![e] = Caused(e, Nothing)]
    /\ receipts' = {} /\ outside' = TRUE /\ stirred' = FALSE
    /\ UNCHANGED <<due, tickVars, spent, dead, claims>>

\* boot.reap_claims and boot.quarantine_exhausted.
Boot ==
    /\ claims' = {}
    /\ LET over == Exhausted(open, spent)
       IN  Kept(open \ over, spent, walk) /\ dead' = dead \cup over
    /\ receipts' = {} /\ outside' = TRUE /\ stirred' = FALSE
    /\ UNCHANGED <<due, tickVars>>

Step ==
    \/ Look
    \/ \E k \in Chores : Perform(k)
    \/ \E e \in Tips : Deliver(e)
    \/ \E k \in Ticks : Wake(k)

Next ==
    \/ Step
    \/ \E s \in Subject : World(s)
    \/ \E e \in Edge : Say(e)
    \/ Boot

Spec == Init /\ [][Next]_vars

\* loop.run calls step while it is not quiescent, and is restarted when it is
\* killed.
FairSpec == Spec /\ WF_vars(Step)

-----------------------------------------------------------------------------
(***************************************************************************)
(* What has to hold.                                                       *)
(***************************************************************************)

\* Every count is within its cap, and only open messages carry one.
TypeOK ==
    /\ due \subseteq Work
    /\ tries \in [Key -> 0 .. TickCap]
    /\ gone \subseteq Key /\ told \subseteq gone
    /\ open \subseteq Edge /\ dead \subseteq Edge
    /\ spent \in [Edge -> 0 .. MessageCap]
    /\ walk \in [Edge -> [1 .. WalkLimit -> Edge \cup {Nothing}]]
    /\ claims \subseteq Role
    /\ receipts \subseteq Subject /\ outside \in BOOLEAN /\ stirred \in BOOLEAN

\* A quarantine holds while its subject is unchanged: an abandoned tick is
\* neither dispatched nor forgotten until a session commits a row its refs name,
\* or one whose id its key matches (_lift_quarantines, quarantine_stalled).
AbandonmentHolds ==
    [][\A k \in gone :
          \/ k \in gone' /\ tries'[k] = tries[k]
          \/ Matches(k) \cap receipts' # {}]_vars

\* The docstring of _lift_quarantines, which speaks of the refs alone.
AbandonmentHoldsByName ==
    [][\A k \in gone :
          \/ k \in gone' /\ tries'[k] = tries[k]
          \/ Subjects(k) \cap receipts' # {}]_vars

\* Abandonment is visible, not silent: the look that gives a tick up has a
\* report of it to dispatch.
AbandonmentIsSaid ==
    \A k \in (GoneNow \ gone) \cap Work :
        \E r \in Reports : TriesNow[r] < TickCap

\* Only what is still due is given up: the count of a tick that drained is
\* dropped, on the last attempt as on any other.
DrainedIsForgotten == (GoneNow \ gone) \cap Work \subseteq due

\* The loop comes to rest once sessions write no row, nobody else changes
\* anything and the scheduler's own acts make nothing due, however many sessions
\* fail, die or talk to each other (the caps of quarantine_overrun,
\* quarantine_looping and quarantine_exhausted together).
ComesToRest == <>[](receipts = {} /\ ~outside /\ ~stirred) => <>[]Quiescent

\* Without the last condition: a preemption and the start it makes due undo each
\* other for ever, since neither is counted past the other.
ComesToRestAnyhow == <>[](receipts = {} /\ ~outside) => <>[]Quiescent

\* A question is not waited on for ever, however its sessions end: it is
\* answered or set aside, or the role it was put to was killed and never reaped.
QuestionsEnd ==
    <>[](~outside)
        => \A e \in Asks : e \in open ~> (e \notin open \/ To[e] \in claims)
=============================================================================
