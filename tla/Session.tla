------------------------------ MODULE Session ------------------------------
(***************************************************************************)
(* One session of a role: the loop of runner.run_session between the claim *)
(* and the commit.  The model replies with calls or with prose; the calls  *)
(* run in order, except that an act written behind a read whose answer is  *)
(* not in yet is held with everything after it, until the model revises it *)
(* or, by ending, stands by it.  What the doors decide of the words they   *)
(* are given is free.                                                      *)
(***************************************************************************)
EXTENDS Naturals, Sequences, FiniteSets, SequencesExt

CONSTANTS
    Mode,          \* the modes sessions are run in, of Modes
    Plan,          \* the calls a reply may carry, as sequences
    MaxIterations, \* MAX_ITERATIONS: replies in a session
    MaxSame        \* turns one refusal may repeat in (3)

Modes  == {"converse", "survey", "tests_failing"}
Read   == {"list", "lookup"}
Claim  == {"work", "chat"}                 \* brief.intake
Write  == {"segment", "amend", "attest", "commit"}
Send   == {"confirm", "converse", "ask", "challenge"}
Act    == Write \cup Send \cup {"write"}   \* code.write stages no row
Broken == "broken"                         \* a call that did not parse
Call   == Read \cup Claim \cup Act \cup {Broken}

ASSUME SessionAssumption ==
    /\ Mode \subseteq Modes
    /\ Plan \subseteq Seq(Call) \ {<<>>}
    /\ {MaxIterations, MaxSame} \subseteq Nat \ {0}

VARIABLES
    mode,      \* what the session was woken for
    phase,     \* where the loop is: asking, turn, standby, ending, and the two ends
    iteration,
    pending,   \* calls of the reply not run yet
    held,      \* held_calls
    fresh,     \* seen_read: a read of this turn has an answer nobody has seen
    ran,       \* already_run: the reads answered
    intake,    \* ctx.intake
    staged,    \* ctx.writes and ctx.outbound, in order
    told,      \* the reminders given, each once
    refusing,  \* turn_refusals, and what standing by was refused
    refused,   \* refused_same
    recent,    \* the last two replies
    plan,      \* history: the last reply that carried calls
    landed     \* what the commit wrote

vars == <<mode, phase, iteration, pending, held, fresh, ran, intake, staged, told,
          refusing, refused, recent, plan, landed>>

-----------------------------------------------------------------------------
(***************************************************************************)
(* The sandbox: what a mode offers, and what its doors refuse.             *)
(***************************************************************************)

\* The graph's edges narrowed by the mode's .tools file.
Grant(m) ==
    CASE m = "converse"      -> {"list"} \cup Claim \cup {"segment", "confirm", "converse", "ask"}
      [] m = "survey"        -> Read \cup {"amend", "attest"}
      [] m = "tests_failing" -> Read \cup {"write", "commit", "challenge"}

Tick == mode # "converse"

\* _recipient_of: an ask goes to every owner at once.
Recipient(s) == CASE s \in {"confirm", "converse"} -> "principal"
                  [] s = "ask"                     -> "owners"
                  [] s = "challenge"               -> "tester"

Done     == Range(staged)
Outbound == Done \cap Send
Rows     == Done \cap Write

\* answers_given.
Answer(c) == CASE c = "converse"             -> "chat"
               [] c = "ask"                  -> "inquiry"
               [] c \in {"confirm", "segment"} -> "work"
Answers(cs)  == {Answer(c) : c \in cs \cap {"converse", "ask", "confirm", "segment"}}

\* (Faulty: routing a question is outside the rule.)
SecondAnswerUnrouted(c) ==
    c \in {"converse", "confirm", "segment"} /\ Answers(Done) \ {Answer(c), "inquiry"} # {}

\* refuse_second_answer.
SecondAnswer(c) ==
    c \in {"converse", "ask", "confirm", "segment"} /\ Answers(Done) \ {Answer(c)} # {}

\* What a door refuses whatever the words: the answer given already, a message
\* sent twice, a reply before the branch is claimed or against it, a
\* confirmation of nothing, a second attestation.
Shut(c) ==
    \/ SecondAnswer(c)
    \/ c \in Outbound
    \/ c = "converse" /\ intake # "chat" /\ "segment" \notin Done
    \/ c = "confirm" /\ "segment" \notin Done
    \/ c = "attest" /\ c \in Done

-----------------------------------------------------------------------------
(***************************************************************************)
(* The loop.                                                               *)
(***************************************************************************)
Prose == {"done", "cut", "fence", "intent"}
Reply == [calls : Plan, says : {"done"}] \cup [calls : {<<>>}, says : Prose]

Silent == [calls |-> <<>>, says |-> "done"]

Init ==
    /\ mode \in Mode
    /\ phase = "asking" /\ iteration = 0
    /\ pending = <<>> /\ held = <<>> /\ fresh = FALSE
    /\ ran = {} /\ intake = "none" /\ staged = <<>>
    /\ told = {} /\ refusing = {} /\ refused = [c \in Act |-> 0]
    /\ recent = <<Silent, Silent>> /\ plan = <<>> /\ landed = {}

Sandbox  == <<ran, intake, staged>>
Verdicts == <<refusing, refused>>

\* The reminders a reply without calls is due, each once.
Reminders(r) ==
    {k \in {"cut", "fence", "intent", "noop"} \ told :
        /\ r.calls = <<>>
        /\ \/ k = r.says /\ (k = "fence" => "write" \in Grant(mode))
           \/ k = "noop" /\ held = <<>> /\ Tick /\ Outbound \cup Rows = {}}

\* The first that applies is the one given.
Reminder(r) ==
    LET due == Reminders(r)
    IN  IF due \cap {"cut", "fence", "intent"} # {} THEN r.says ELSE "noop"

\* Three replies alike: the session has nothing more to say.
Repeats(r) == recent = <<r, r>>

\* Calls of this reply supersede what the last one left held.
Superseded(h) == <<>>

\* The model replies: it is reminded, or stands by what is held, or repeats
\* itself, or its calls are run.
Replies(r) ==
    /\ phase = "asking" /\ iteration < MaxIterations
    /\ \A c \in Act : refused[c] <= MaxSame
    /\ r.calls = <<>> \/ Range(r.calls) \subseteq Grant(mode) \cup {Broken}
    /\ iteration' = iteration + 1
    /\ recent' = <<recent[2], r>>
    /\ plan' = IF r.calls = <<>> THEN plan ELSE r.calls
    /\ fresh' = FALSE /\ refusing' = {}
    /\ CASE Reminders(r) # {} ->
              told' = told \cup {Reminder(r)} /\ UNCHANGED <<phase, pending, held>>
         [] Reminders(r) = {} /\ r.calls = <<>> ->
              phase' = "standby" /\ pending' = held /\ UNCHANGED <<told, held>>
         [] r.calls # <<>> /\ Repeats(r) ->
              phase' = "ending" /\ UNCHANGED <<told, pending, held>>
         [] OTHER ->
              phase' = "turn" /\ pending' = r.calls /\ held' = Superseded(held) /\ UNCHANGED told
    /\ UNCHANGED <<mode, Sandbox, refused, landed>>

\* The backend raises: nothing of the session is written.
BackendFails ==
    /\ phase = "asking" /\ phase' = "failed"
    /\ UNCHANGED <<mode, iteration, pending, held, fresh, Sandbox, told, Verdicts, recent, plan, landed>>

-----------------------------------------------------------------------------
(***************************************************************************)
(* Running the calls of a reply.                                           *)
(***************************************************************************)
Next1 == Head(pending)

\* A fresh read holds every act behind it but the attestation.
Holds(c) == fresh /\ c \in Act \ {"attest"}

\* One call through the sandbox.  A read or a claim is answered, an act is done
\* or refused.
Runs(c) ==
    \/ c \in Read /\ UNCHANGED <<intake, staged, refusing>>
    \/ c \in Claim /\ intake' = c /\ UNCHANGED <<staged, refusing>>
    \/ c \in Act /\ ~Shut(c) /\ staged' = Append(staged, c) /\ UNCHANGED <<intake, refusing>>
    \/ c \in Act /\ refusing' = refusing \cup {c} /\ UNCHANGED <<intake, staged>>

RunsCall ==
    /\ phase = "turn" /\ pending # <<>>
    /\ LET c == Next1 IN
       \/ /\ c = Broken
          /\ pending' = Tail(pending) /\ UNCHANGED <<held, fresh, Sandbox, refusing>>
       \/ /\ Holds(c)
          /\ held' = pending /\ pending' = <<>> /\ UNCHANGED <<fresh, Sandbox, refusing>>
       \/ /\ c # Broken /\ ~Holds(c) /\ Runs(c)
          /\ pending' = Tail(pending) /\ UNCHANGED held
          /\ fresh' = (fresh \/ c \in Read \ ran) /\ ran' = ran \cup ({c} \cap Read)
    /\ UNCHANGED <<mode, phase, iteration, told, refused, recent, plan, landed>>

\* (Faulty: each refusal of the turn counts, whichever call it was for.)
CountedPerCall(n) ==
    [c \in Act |-> IF c \in refusing THEN n[c] + Cardinality(refusing) ELSE n[c]]

\* A refusal counts once a turn.
Counted(n) == [c \in Act |-> IF c \in refusing THEN n[c] + 1 ELSE n[c]]

\* What a session was woken to say is said: the Liaison has answered, every
\* recipient the mode reaches has been written to, the area is attested.
Finished ==
    \/ mode = "converse" /\ Outbound # {}
    \/ LET reachable == {Recipient(s) : s \in Grant(mode) \cap Send}
       IN  reachable # {} /\ reachable \subseteq {Recipient(s) : s \in Outbound}
    \/ "attest" \in Done

EndsTurn ==
    /\ phase = "turn" /\ pending = <<>>
    /\ refused' = Counted(refused)
    /\ phase' = IF Finished THEN "ending" ELSE "asking"
    /\ UNCHANGED <<mode, iteration, pending, held, fresh, Sandbox, told, refusing, recent, plan, landed>>

\* The loop runs out: of turns, or over a refusal that repeats.
RunsOut ==
    /\ phase = "asking" /\ phase' = "ending"
    /\ iteration = MaxIterations \/ \E c \in Act : refused[c] > MaxSame
    /\ UNCHANGED <<mode, iteration, pending, held, fresh, Sandbox, told, Verdicts, recent, plan, landed>>

\* What was held runs.  A call that did not parse has no name to run or to
\* report, and the handler of the error raises.
StandsBy ==
    /\ phase = "standby" /\ pending # <<>>
    /\ pending' = Tail(pending)
    /\ IF Next1 = Broken
       THEN phase' = "failed" /\ UNCHANGED <<Sandbox, refusing>>
       ELSE Runs(Next1) /\ UNCHANGED <<phase, ran>>
    /\ UNCHANGED <<mode, iteration, held, fresh, told, refused, recent, plan, landed>>

\* All of it has run: what was refused is told once, or the session ends.
StoodBy ==
    /\ phase = "standby" /\ pending = <<>>
    /\ IF refusing # {} /\ "stoodby" \notin told
       THEN phase' = "asking" /\ told' = told \cup {"stoodby"} /\ held' = <<>>
       ELSE phase' = "ending" /\ UNCHANGED <<told, held>>
    /\ UNCHANGED <<mode, iteration, pending, fresh, Sandbox, Verdicts, recent, plan, landed>>

\* A chat reply drops the segmentation and the confirmation beside it.
Kept == IF "converse" \in Done THEN Done \ {"segment", "confirm"} ELSE Done

Commits ==
    /\ phase = "ending" /\ phase' = "committed"
    /\ landed' = Kept
    /\ UNCHANGED <<mode, iteration, pending, held, fresh, Sandbox, told, Verdicts, recent, plan>>

Next ==
    \/ \E r \in Reply : Replies(r)
    \/ BackendFails \/ RunsCall \/ EndsTurn \/ RunsOut \/ StandsBy \/ StoodBy \/ Commits

Spec == Init /\ [][Next]_vars

-----------------------------------------------------------------------------
(***************************************************************************)
(* Properties.                                                             *)
(***************************************************************************)

\* The loop's counters stay in their bounds: a refusal is not repeated past the
\* turn that ends the session on it.
TypeOK ==
    /\ mode \in Mode
    /\ phase \in {"asking", "turn", "standby", "ending", "committed", "failed"}
    /\ iteration \in 0 .. MaxIterations
    /\ pending \in Seq(Call) /\ held \in Seq(Call) /\ fresh \in BOOLEAN
    /\ ran \subseteq Read /\ intake \in Claim \cup {"none"} /\ staged \in Seq(Act)
    /\ told \subseteq {"cut", "fence", "intent", "noop", "stoodby"}
    /\ refusing \subseteq Act /\ refused \in [Act -> 0 .. MaxSame + 1]
    /\ recent \in Reply \X Reply /\ plan \in Seq(Call) /\ landed \subseteq Act

\* The principal's words get one answer: what a session commits is chat, an
\* inquiry or work, never two of them (answers_given).
OneAnswer == Cardinality(Answers(landed)) <= 1

\* What is held, and so what standing by would run, is the end of the last reply
\* with calls: an act the model has revised away never runs.
StandsByTheLastPlan ==
    held # <<>> => IsSuffix(held, plan)

\* A session that ends clean has decided every call it was asked to hold: "a
\* session ending with held calls never superseded is the model standing by
\* them" (run_session).
HeldIsDecided ==
    phase = "committed" => held = <<>> \/ recent[2].calls = <<>>

\* "tool error, not session-fatal" (run_session): while the backend answers,
\* nothing a reply carries makes the session fail.
ToolErrorIsNotFatal ==
    [][phase = "standby" => phase' # "failed"]_vars
=============================================================================
