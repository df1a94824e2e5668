---------------------------- MODULE Onboarding ----------------------------
(***************************************************************************)
(* Onboarding: the phases a checkout is read in, as ticks of the frontier. *)
(* A phase is what the rows leave outstanding, so it is computed and never *)
(* stored; a subject is settled by its record, or given up when its tick   *)
(* has been dispatched AttemptCap times.  A session starts with the files  *)
(* its working set shows and may open more; it binds and attests what it   *)
(* opened, and the doors derive the record from what it wrote; constraint  *)
(* zero covers what nobody has surveyed; the observed rows are put to the  *)
(* principal when the last phase is over.                                  *)
(***************************************************************************)
EXTENDS Naturals, FiniteSets, Sequences

CONSTANTS
    Area,        \* areas of the partition
    Coded,       \* those with a symbol in the index
    Doc,         \* prose files, none when there is no README
    Word,        \* words of the lexicon
    Compound,    \* words owed once the account has said them together
    Surface,     \* boundary files
    File,        \* files of the index
    Home,        \* the area of each
    Imports,     \* pairs of files: the first imports the second
    Front,       \* manifest, schema and entry points
    Withheld,    \* prose, when prose_sources is off
    Declares,    \* the file that declares a word, if one does
    Cites,       \* what a claim cites, of File and of what is not on disk
    Phases,      \* onboarding_phases: the phases this run performs
    AttemptCap,  \* tick_attempt_cap
    Named,       \* bound: the subjects that the ids of rows may match
    Moving,      \* bound: areas whose content changes
    MaxStamp     \* bound: contents such an area takes on

ASSUME OnboardingAssumption ==
    /\ IsFiniteSet(Area) /\ Coded \cup Moving \subseteq Area /\ Compound \subseteq Word
    /\ {AttemptCap, MaxStamp} \subseteq Nat \ {0}
    /\ IsFiniteSet(File) /\ Home \in [File -> Area] /\ Imports \subseteq File \X File
    /\ Front \cup Withheld \cup Doc \cup Surface \subseteq File
    /\ Declares \in [Word -> SUBSET File]

Claim == {"items", "constraints"}   \* the load-bearing rows, one of each
Row   == Claim \cup Word \cup {"own"}   \* observed rows; own: a survey's own word

\* A tick's key: the phase, the role it wakes and the subject.
Frame      == <<"frame", "architect", "@frame">>
Program    == <<"orient", "vision_keeper", "@program">>
Reorient   == <<"reorient", "vision_keeper", "@reorient">>
Blind      == <<"blindspots", "liaison", "@blindspots">>
Prose      == {<<"reconcile", "vision_keeper", d>> : d \in Doc}
Term       == {<<"define", "terminologist", w>> : w \in Word}
Surveyor   == {"terminologist", "architect"}
Survey     == {"survey"} \X Surveyor \X Area
Boundary   == {<<"boundaries", "architect", s>> : s \in Surface}
Challenge  == {<<"challenge", "critic", c>> : c \in Claim}
Key        == {Frame, Program, Reorient, Blind} \cup Prose \cup Term \cup Survey
              \cup Boundary \cup Challenge
Zero       == {<<"zero", "-", refs>> : refs \in SUBSET Area}

SurveyOf(r, a) == <<"survey", r, a>>
PhaseOf(k)     == k[1]
Subject(k)     == k[3]

VARIABLES
    areas,      \* the areas the index is pinned to
    ignored,    \* areas the frame's rulings leave out
    repinned,   \* config frame_repinned
    stamp,      \* area_hashes
    record,     \* survey_records and challenges: the stamp recorded, 0 for none
    rows,       \* observed rows on file: terms, items, constraints
    zero,       \* areas constraint zero is bound to
    tries, gone, \* tick_attempts: attempts, quarantined
    later,      \* of an area's two survey rows, the role whose row is later
    session,    \* the session running
    shown,      \* observed rows put to the principal
    page,       \* the open page of them
    dealt,      \* rows ruled on, or deferred to the ledger
    lazy,       \* config baseline_election
    found, read \* history: what each record rests on

obVars == <<areas, ignored, repinned, stamp, record, rows, zero, tries, gone, later,
            session, shown, page, dealt, lazy, found, read>>

Tree  == <<areas, ignored, repinned, stamp, zero>>
Seat  == <<shown, page, dealt, lazy>>
Count == <<tries, gone, later>>
Done  == <<record, rows, found, read>>

NoSession   == [on |-> Frame, live |-> FALSE, wake |-> 0]
Fresh(k, s) == [on |-> k, live |-> TRUE, wake |-> s]

-----------------------------------------------------------------------------
(***************************************************************************)
(* What is outstanding.                                                    *)
(***************************************************************************)
Recorded(k) == record[k] # 0
Open(K)     == {k \in K : ~Recorded(k) /\ k \notin gone}
When(b, K)  == IF b THEN K ELSE {}

\* pending_terms: a word is settled by a live row, a record or the bound.
Pending ==
    {k \in Open(Term) : Subject(k) \notin rows /\ (Subject(k) \in Compound => "items" \in rows)}

\* A record of a tree that is gone is not a record.
Surveyed(r, a) == record[SurveyOf(r, a)] = stamp[a]

\* The dict of _survey_wakes: one role per area, the later row's.
Abandoned(r, a) ==
    /\ SurveyOf(r, a) \in gone
    /\ \A q \in Surveyor \ {r} : SurveyOf(q, a) \in gone => later[a] = r

Outstanding(r) == {SurveyOf(r, a) : a \in {b \in areas : ~Abandoned(r, b) /\ ~Surveyed(r, b)}}

\* The Terminologist finishes every area before the Architect starts.
SurveyWakes ==
    IF Outstanding("terminologist") # {} THEN Outstanding("terminologist")
                                         ELSE Outstanding("architect")

Claimed == {k \in Challenge : Subject(k) \in rows}

WakesOf(p) ==
    CASE p = "frame"      -> Open({Frame})
      [] p = "orient"     -> Open({Program})
      [] p = "reconcile"  -> When(Recorded(Program), Open(Prose))
      [] p = "define"     -> Pending
      [] p = "survey"     -> SurveyWakes
      [] p = "reorient"   -> When(Recorded(Program) /\ rows \ Claim # {}, Open({Reorient}))
      [] p = "boundaries" -> Open(Boundary)
      [] p = "challenge"  -> Open(Claimed)
      [] OTHER            -> When(Recorded(Program), Open({Blind}))   \* blindspots

\* onboarding_phase: the first phase, of those this run performs, with something
\* outstanding.  The order is the code's, whatever order the setting lists.
Stages == <<"frame", "orient", "reconcile", "define", "survey", "reorient", "boundaries",
            "challenge", "blindspots">>
Due    == {i \in DOMAIN Stages : Stages[i] \in Phases /\ WakesOf(Stages[i]) # {}}
Phase  == LET due == Due
          IN  IF due = {} THEN "done" ELSE Stages[CHOOSE i \in due : \A j \in due : i <= j]

\* Areas with a survey record, whoever's and of whatever content.
ReadBySome == {a \in Area : \E r \in Surveyor : Recorded(SurveyOf(r, a))}

\* The areas once what was ruled out has left.
Partition == Area \ ignored

\* refresh_constraint_zero binds the areas that hold code.
ZeroOver(present) == (present \cap Coded) \ ReadBySome

\* areas.pin: the index is divided anew, and what was ruled out has no area.
Pin == areas' = Partition /\ zero' = ZeroOver(Partition)

\* stamp_area_hashes: what an area holds now, on main alone.
Restamp(a) == stamp[a] < MaxStamp /\ stamp' = [stamp EXCEPT ![a] = @ + 1]

\* The predicate asks of every area.
ZeroWake == LET want == areas \ ReadBySome
            IN  IF zero = want THEN {} ELSE {<<"zero", "-", zero \ want>>}

\* (Faulty: what was given up is offered again.)
OfferedAgain(K) == K

\* quarantine_stalled: what was given up is not offered.
StillOffered(K) == K \ gone

Phased   == UNION {WakesOf(p) : p \in {Phase} \ {"done"}}
Frontier == StillOffered(ZeroWake \cup Phased)

\* Counts of what is no longer produced are dropped, unless given up.
Kept == ZeroWake \cup Phased \cup gone
Forgotten(K) == [k \in DOMAIN tries |-> IF k \in K THEN tries[k] ELSE 0]

-----------------------------------------------------------------------------
(***************************************************************************)
(* The loop: chores, then the first wake.                                  *)
(***************************************************************************)
ObInit ==
    /\ areas = Area /\ ignored = {} /\ repinned = FALSE
    /\ stamp = [a \in Area |-> 1] /\ zero = Coded
    /\ record = [k \in Key |-> 0] /\ rows = {}
    /\ tries = [k \in Key \cup Zero |-> 0] /\ gone = {}
    /\ later = [a \in Area |-> "terminologist"]
    /\ session = NoSession
    /\ shown = {} /\ page = {} /\ dealt = {} /\ lazy = FALSE
    /\ found = {} /\ read = [k \in Key |-> 0]

\* The frame's rulings are applied by the first look that sees its record.
RepinDue == ~repinned /\ Recorded(Frame)

Idle == ~session.live /\ ~RepinDue

Repin ==
    /\ ~session.live /\ RepinDue
    /\ repinned' = TRUE /\ Pin
    /\ UNCHANGED <<ignored, stamp, Count, Done, session, Seat>>

\* (Faulty: what the scheduler performs itself is not counted.)
AttemptOfRoles(k, t) == IF PhaseOf(k) = "zero" THEN t ELSE [t EXCEPT ![k] = @ + 1]

\* note_dispatch: every tick is counted, the scheduler's own too.
Attempt(k, t) == [t EXCEPT ![k] = @ + 1]

\* A dispatch is counted; at the cap the next look gives the tick up.
Dispatched(k) ==
    /\ \E K \in {Kept} : tries' = Attempt(k, Forgotten(K))
    /\ gone' = IF tries'[k] >= AttemptCap THEN gone \cup {k} ELSE gone
    /\ later' = IF PhaseOf(k) = "survey" /\ tries[k] = 0
                THEN [later EXCEPT ![Subject(k)] = k[2]] ELSE later

\* The scheduler rebinds constraint zero.
Rebind ==
    /\ Idle
    /\ \E k \in StillOffered(ZeroWake) : Dispatched(k)
    /\ zero' = ZeroOver(areas)
    /\ UNCHANGED <<areas, ignored, repinned, stamp, Done, session, Seat>>

\* A phase's subjects are offered in an order of their own: any, but fixed.
First(K) == CHOOSE k \in K : TRUE

\* A role is woken for the first subject.
Dispatch ==
    /\ Idle /\ StillOffered(ZeroWake) = {} /\ StillOffered(Phased) # {}
    /\ \E k \in {First(StillOffered(Phased))} :
          /\ Dispatched(k)
          /\ session' = Fresh(k, IF PhaseOf(k) = "survey" THEN stamp[Subject(k)] ELSE 1)
    /\ UNCHANGED <<Tree, Done, Seat>>

\* The main checkout moves under the index, even while a session reads it.
Refresh ==
    /\ Pin
    /\ \E a \in areas \cap Moving : Restamp(a)
    /\ UNCHANGED <<ignored, repinned, Count, Done, session, Seat>>

-----------------------------------------------------------------------------
(***************************************************************************)
(* What a session reads.                                                   *)
(***************************************************************************)
\* The files an area is about: its own and those they import.
Inside(a) == LET own == {f \in File : Home[f] = a}
             IN  own \cup {g \in File : \E f \in own : <<f, g>> \in Imports}

\* code.area: all of them, as far as prose is let in.
AreaView(a) == Inside(a) \ Withheld

\* The README left out, a file that reads what a user writes: one import of a
\* surface that is not in the front already.
FrontReaders == {f \in File \ (Front \cup Doc \cup Withheld) :
                    \E s \in Surface : <<f, s>> \in Imports}

\* code.front: the account is written from code, so the README is left out.
FrontView == (Front \ (Doc \cup Withheld))
             \cup (IF FrontReaders = {} THEN {} ELSE {CHOOSE f \in FrontReaders : TRUE})

\* The file that declares the word, a type before a name: shown whole.
Declaring(w) == Declares[w] \ Withheld

\* code.concordance: lines that say the word, which open nothing, and that file.
TermView(w) == Declaring(w)

\* code.prose: the file to reconcile.
ProseView(d) == {d} \ Withheld

\* code.boundary: the file the outside touches and whatever reads it.
BoundaryView(s) == {s} \cup {f \in File : <<f, s>> \in Imports}

\* challenge.load: the files the claim cites; the claim itself, if it cites none.
ClaimView(c) == IF Cites[c] = {} THEN {c} ELSE Cites[c] \cap File

\* code.tree: the top level by name, with what each entry is taken for.
TreeView == {}

\* code.gaps: the run's own record of what it could not read.
GapsView == {}

\* push_working_set: read into the prompt before the first turn.
Pushed(k) ==
    CASE PhaseOf(k) = "survey"     -> AreaView(Subject(k))
      [] PhaseOf(k) = "orient"     -> FrontView
      [] PhaseOf(k) = "define"     -> TermView(Subject(k))
      [] PhaseOf(k) = "reconcile"  -> ProseView(Subject(k))
      [] PhaseOf(k) = "boundaries" -> BoundaryView(Subject(k))
      [] PhaseOf(k) = "challenge"  -> ClaimView(Subject(k))
      [] PhaseOf(k) = "frame"      -> TreeView
      [] PhaseOf(k) = "blindspots" -> GapsView
      [] PhaseOf(k) = "reorient"   -> {}

\* code.source: a file, never a listing; the gaps are read without it.
MayOpen(k) == IF k = Blind THEN {} ELSE File \ Withheld

-----------------------------------------------------------------------------
(***************************************************************************)
(* A session: what it does at the doors, then its commit.                  *)
(***************************************************************************)

\* What it has opened in the end: one file besides is as good as several to every
\* door.
Openings(k) == {Pushed(k) \cup L : L \in {{}} \cup {{f} : f \in MayOpen(k)}}

\* What a session does: what it opens, what it leaves of the artefact this mode
\* owes (a title is a row with no text; refused, that door turned it away and
\* nothing landed), how often it attests and what it says.
Deeds(k) == [opened : Openings(k), wrote : {"nothing", "refused", "title", "body"},
             calls : 0 .. 3, said : {"found", "none_found"}]

\* model.amend: an onboarding wake's constraint binds what its session opened.
Binds(d) == d.opened \cap File # {}

\* A constraint is written with its text, or it is refused.
Constrains(k, d) ==
    d.wrote = "body" /\ PhaseOf(k) \in {"survey", "boundaries"} /\ k[2] = "architect"

\* glossary.amend: a word has its sense, and in a survey something read says it.
Says(k, d) == PhaseOf(k) = "survey" /\ k[2] = "terminologist" => d.opened # {}

\* problem.assert and ledger.log ask for a text and take an empty one.
MayBeBlank(k) == PhaseOf(k) \in {"orient", "reorient", "reconcile", "blindspots"}

\* What the doors let through; the Critic writes no artefact.
Legal(k, d) ==
    /\ d.wrote = "title" => MayBeBlank(k)
    /\ d.wrote = "body" => Says(k, d)
    /\ Constrains(k, d) => Binds(d)
    /\ PhaseOf(k) = "challenge" => d.wrote = "nothing"

Nothing(d) == d.wrote \in {"nothing", "refused"}

\* A write was refused and nothing landed: not a result, once.
HeldBack(d) == d.wrote = "refused"

\* Found, with nothing written: asked for once.
AskedFor(d) == Nothing(d) /\ d.said = "found"

\* The attestation that is taken.
Needed(d) == 1 + (IF HeldBack(d) THEN 1 ELSE 0) + (IF AskedFor(d) THEN 1 ELSE 0)

\* Closing an area takes a file of it, or one it imports, that was opened; the
\* program, any file; a word, a surface or the tree needs none.
Evidenced(k, d) ==
    CASE PhaseOf(k) = "survey" -> d.opened \cap Inside(Subject(k)) # {}
      [] PhaseOf(k) = "orient" -> d.opened # {}
      [] OTHER                  -> TRUE

\* (Faulty: the record says what the session says.)
OutcomeAsSaid(d) == d.said

\* The record follows what was written.
Outcome(d) == IF Nothing(d) THEN "none_found" ELSE "found"

\* surveys.attest; the Critic's verdict on a claim; the frame's record is derived
\* from its rulings.
Records(k, d) ==
    CASE PhaseOf(k) = "challenge" -> d.opened # {} /\ d.calls > 0
      [] PhaseOf(k) = "frame" /\ d.wrote = "body" -> TRUE
      [] OTHER -> d.calls >= Needed(d) /\ d.wrote # "title" /\ Evidenced(k, d)

\* frame.assign: what the rulings leave out.
Rulings == SUBSET Area

\* What a session leaves on file.
Landing(k, d) ==
    IF Nothing(d) THEN {}
    ELSE CASE Constrains(k, d) -> {"constraints"}
           [] PhaseOf(k) = "define" -> {Subject(k)}
           [] PhaseOf(k) = "survey" /\ k[2] = "terminologist" -> {"own"}
           [] PhaseOf(k) \in {"orient", "reorient"} -> {"items"}
           [] OTHER -> {}

\* What all that comes to, on each subject.
ResultsOn(k) ==
    {[on |-> k, records |-> Records(k, d), found |-> Outcome(d) = "found",
      lands |-> Landing(k, d), ruled |-> PhaseOf(k) = "frame" /\ d.wrote = "body"]
     : d \in {e \in Deeds(k) : Legal(k, e)}}
Results == UNION {ResultsOn(k) : k \in Key}

On == session.on

\* (Faulty: the record is stamped as the tree stands when it lands.)
StampAtEnd == IF PhaseOf(On) = "survey" THEN stamp[Subject(On)] ELSE 1

\* area_hash_at_wake.
Stamped == session.wake

\* What a key's text names: the areas of a rebinding, the subject of a phase.
About(k) == IF PhaseOf(k) = "zero" THEN Subject(k) ELSE {Subject(k)}

\* What the ids of a session's rows match: an area it describes, a term, an item, a
\* path, whatever it calls a row, and what merely looks like it.
Names == SUBSET (Named \cap UNION {About(k) : k \in gone \ {On}})

\* _lift_quarantines: a row whose id matches a key revives what was given up under
\* it, but not the session's own tick, which the next look marks.
Revived(D) == {k \in gone \ {On} : About(k) \cap D # {}}

\* A session commits; one that failed or did nothing leaves nothing.
Ends ==
    /\ session.live /\ session' = NoSession
    /\ \E r \in Results :
          /\ r.on = On
          /\ rows' = rows \cup r.lands
          /\ IF r.records
             THEN /\ record' = [record EXCEPT ![On] = Stamped]
                  /\ found' = IF r.found THEN found \cup {On} ELSE found \ {On}
                  /\ read' = [read EXCEPT ![On] = session.wake]
             ELSE UNCHANGED <<record, found, read>>
          /\ ignored' \in IF r.ruled THEN Rulings ELSE {ignored}
    /\ \E R \in {Revived(D) : D \in Names} :
          /\ gone' = gone \ R
          /\ tries' = [k \in DOMAIN tries |-> IF k \in R THEN 0 ELSE tries[k]]
    /\ UNCHANGED <<areas, repinned, stamp, zero, later, Seat>>

-----------------------------------------------------------------------------
(***************************************************************************)
(* The observed rows, once onboarding is over.                             *)
(***************************************************************************)

\* Rows never put to the principal; under the lazy election those deferred
\* already are left out too.
Offer == rows \ (IF lazy THEN shown \cup dealt ELSE shown)

\* A page answered with no ruling leaves its rows in limbo.
Limbo == shown \ (page \cup dealt)

\* do:defer_baseline.
Defer ==
    /\ Idle
    /\ LET due == IF Limbo # {} THEN Limbo ELSE When(lazy, Offer)
       IN  due # {} /\ Phase = "done" /\ dealt' = dealt \cup due
    /\ UNCHANGED <<Tree, Count, Done, session, shown, page, lazy>>

\* The Liaison presents them, one page at a time.
Present ==
    /\ Idle /\ page = {} /\ ~lazy /\ Limbo = {} /\ Offer # {} /\ Phase = "done"
    /\ page' = Offer /\ shown' = shown \cup Offer
    /\ UNCHANGED <<Tree, Count, Done, session, dealt, lazy>>

\* The principal answers, with a ruling or without one.
Answer ==
    /\ page # {} /\ page' = {}
    /\ dealt' \in {dealt, dealt \cup page}
    /\ UNCHANGED <<Tree, Count, Done, session, shown, lazy>>

\* The principal elects to confirm lazily; read only once onboarding is over.
Elect ==
    /\ ~lazy /\ Phase = "done" /\ lazy' = TRUE
    /\ UNCHANGED <<Tree, Count, Done, session, shown, page, dealt>>

Loop == Repin \/ Rebind \/ Dispatch \/ Defer \/ Present
ObNext == Loop \/ Ends \/ Refresh \/ Answer \/ Elect

ObSpec == ObInit /\ [][ObNext]_obVars
\* One driver runs the loop and the session in it.
ObFairSpec == ObSpec /\ WF_obVars(Loop \/ Ends)

-----------------------------------------------------------------------------
(***************************************************************************)
(* Properties.                                                             *)
(***************************************************************************)

\* The counters keep to the bound, and what is at it is given up.
ObTypeOK ==
    /\ areas \subseteq Area /\ ignored \subseteq Area /\ repinned \in BOOLEAN
    /\ stamp \in [Area -> 1 .. MaxStamp] /\ zero \subseteq Coded
    /\ record \in [Key -> 0 .. MaxStamp] /\ read \in [Key -> 0 .. MaxStamp]
    /\ found \subseteq Key
    /\ rows \subseteq Row /\ shown \subseteq Row /\ page \subseteq shown /\ dealt \subseteq Row
    /\ tries \in [Key \cup Zero -> 0 .. AttemptCap]
    /\ gone = {k \in Key \cup Zero : tries[k] = AttemptCap}
    /\ later \in [Area -> Surveyor] /\ lazy \in BOOLEAN

\* Once the scheduler has no binding left to do, constraint zero covers exactly
\* the areas with code that nobody has surveyed.
ZeroIsTheUnread ==
    (Idle /\ StillOffered(ZeroWake) = {})
    => zero = {a \in areas \cap Coded : \A r \in Surveyor : record[SurveyOf(r, a)] = 0}

\* A phase after the surveys begins when every area has been read as it is now
\* by both roles, or given up: a record never vouches for a tree its session
\* did not read.
SurveysAreOfTheTree ==
    Phase \in {"reorient", "boundaries", "challenge", "blindspots", "done"}
    => \A r \in Surveyor, a \in areas :
          read[SurveyOf(r, a)] = stamp[a] \/ SurveyOf(r, a) \in gone

\* What a mode that attests is there to write.
Owed(k) ==
    CASE PhaseOf(k) = "define" -> {Subject(k)}
      [] PhaseOf(k) = "survey" /\ k[2] = "terminologist" -> {"own"}
      [] PhaseOf(k) \in {"survey", "boundaries"} /\ k[2] = "architect" -> {"constraints"}
      [] PhaseOf(k) \in {"orient", "reorient"} -> {"items"}
      [] OTHER -> {}

\* A record that something was found has the finding on file: what a session
\* claims never makes it so (surveys_attest).
FindingIsOnFile == \A k \in found : Owed(k) \subseteq rows

\* An observed row is put to the principal once, whatever came of it, and never
\* after it was deferred (observed_entries).
BaselineIsPutOnce ==
    [][page' \notin {page, {}} => page' \cap (shown \cup dealt) = {}]_obVars

\* From some step on, no row revives what was given up.
NothingRevived == <>[][gone \subseteq gone']_obVars

\* However sessions fail, and whatever the tree becomes, the frontier of onboarding
\* is empty in the end once no row revives what was given up: each subject it offers
\* is settled or given up, the scheduler's own included (the bound of note_dispatch).
FrontierDrains == NothingRevived => <>[](Frontier = {})

\* Without the condition: two surveys that fail, each writing a row named after the
\* other's area, revive each other for ever.
FrontierDrainsAnyhow == <>[](Frontier = {})

\* "An abandoned area is settled, not outstanding": onboarding ends once no row
\* revives what was given up (_survey_wakes).
OnboardingEnds == NothingRevived => <>[](Phase = "done")
=============================================================================
