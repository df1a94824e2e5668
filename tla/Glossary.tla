------------------------------ MODULE Glossary ------------------------------
(***************************************************************************)
(* One word of the glossary, and the senses it is given.  Sessions amend   *)
(* the word from the whole program, from an area or for a delivery; two    *)
(* live senses are a collision, which a session composes, merges or puts   *)
(* to the principal; the answer rules rows or parks them; the rows the     *)
(* principal approved are adopted; criteria rest on rows, and work resting *)
(* on a collision is not offered.  The driver runs one session at a time;  *)
(* the principal answers whenever they like.                               *)
(***************************************************************************)
EXTENDS Naturals, FiniteSets

CONSTANTS
    Base,        \* the row named after the word
    Area,        \* areas of the partition; the row slug#area is named as the area
    Root,        \* the area "."
    Fact,        \* content words a sense can carry
    Declared,    \* those the concordance shows
    Criterion,   \* criteria that may be written in this word
    MaxCalls,    \* bound: calls of a collision session
    MaxEdits,    \* bound: deliveries, re-surveys, decisions, criteria reworded
    MaxRulings,  \* bound: rulings on the word
    None

Id      == {Base} \cup Area
Reading == (SUBSET Fact) \ {{}}
Entry   == [sense : Reading, area : Area \cup {None}, sup : Id \cup {None}]
Letter  == [kind : {"report", "clarify", "answer", "relay"}, refs : SUBSET Id,
            approves : SUBSET Id]

ASSUME GlossaryAssumption ==
    /\ IsFiniteSet(Area) /\ Root \in Area
    /\ Declared \subseteq Fact
    /\ {MaxCalls, MaxEdits, MaxRulings} \subseteq Nat
    /\ Base \notin Area /\ None \notin Area \cup {Base} /\ "define" \notin Area
    /\ None \notin Entry

\* The view term_provenance, as a rank: a row takes the best of what it rests on.
Reasoned == 0    \* nothing, or a statement nobody ratified
Observed == 1    \* code
Decided  == 2    \* a ratified statement, or a landed ruling

VARIABLES
    row,      \* glossary_terms
    rests,    \* refs of the rows, as the provenance they give
    crit,     \* refs of the criteria: the rows each is written in
    owed,     \* what the Terminologist still has to read: "define", then areas
    mail,     \* open messages that name rows of the word
    parked,   \* open ledger rows of kind unaddressed_answer, by the row they are about
    ruled,    \* rows named by a landed ruling
    rulings,  \* their number
    decided,  \* rows named by a decision that closes no parking row
    session,  \* the collision session running
    encoded,  \* criteria the Tester has been given
    edits,    \* counter of the bound MaxEdits
    put       \* history: rows put to the principal

vars == <<row, rests, crit, owed, mail, parked, ruled, rulings, decided, session, encoded,
          edits, put>>

Seat   == <<mail, parked, ruled, rulings, decided, put>>
Words  == <<row, rests, crit>>
Driver == session = None

Best(S) == CHOOSE b \in S : \A x \in S : x <= b

\* ------------------------------------------------------------ derived facts

OnFile  == {i \in Id : row[i] # None}
Live    == {i \in OnFile : row[i].sup = None}
Counted == {i \in Live : row[i].area # Root}     \* "." is material, not a trigger

Ruled  == decided \cup ruled
Raised == parked \cup UNION {m.refs : m \in mail}

\* (Faulty: one ruled sense settles the word.)
CollisionIfNoneRuled ==
    IF owed = {} /\ Cardinality(Counted) >= 2 /\ Live \cap Ruled = {} /\ Live \cap Raised = {}
    THEN Live ELSE {}
\* predicates.term_collision: the rows of its wake, none when it is quiet.
Collision ==
    IF /\ owed = {}
       /\ Cardinality(Counted) >= 2
       /\ ~ Live \subseteq Ruled
       /\ Live \cap Raised = {}
    THEN Live ELSE {}
\* scheduler.rests_on_a_collision
Held(c) == crit[c] \cap Collision # {}

Init ==
    /\ row = [i \in Id |-> None]
    /\ rests = [i \in Id |-> Reasoned]
    /\ crit = [c \in Criterion |-> {}]
    /\ owed = {"define"} \cup Area
    /\ mail = {} /\ parked = {} /\ decided = {} /\ put = {}
    /\ ruled = {} /\ rulings = 0
    /\ session = None /\ encoded = {} /\ edits = 0

\* ------------------------------------------------------------- glossary.amend

\* (Faulty: an entry written about the whole program is no prior.)
PriorOfAnArea(a) ==
    IF Base \in Live /\ row[Base].area \notin {a, None} THEN {Base} ELSE {}
\* The live entry an area's reading is measured against.
Prior(a) == IF Base \in Live /\ row[Base].area # a THEN {Base} ELSE {}

\* The rows s may be written to: none when the door refuses it.
Target(a, s) ==
    IF a = None \/ Prior(a) = {} THEN {Base}
    ELSE {i \in {a} : ~ s \subseteq row[Base].sense}

\* db._apply_write: an UPDATE of the columns given leaves superseded_by alone.
Amended(i, s, a) ==
    [row EXCEPT ![i] = [sense |-> s, area |-> a,
                        sup |-> IF row[i] = None THEN None ELSE row[i].sup]]

Amend(a, s, why) ==
    \E i \in Target(a, s) :
        /\ row' = Amended(i, s, a)
        /\ rests' = [rests EXCEPT ![i] = Best({@, why})]

\* The word's define session: its first entry, over the whole program.
Define(s) ==
    /\ Driver /\ "define" \in owed
    /\ owed' = owed \ {"define"}
    /\ IF s = {} THEN UNCHANGED <<row, rests>>      \* none_found
       ELSE Amend(None, s, Observed)
    /\ UNCHANGED <<crit, Seat, session, encoded, edits>>

\* The survey of an area, "." last: what it says of the word, if anything.
Survey(a, s) ==
    /\ Driver /\ a \in owed /\ "define" \notin owed
    /\ a = Root => owed = {Root}
    /\ owed' = owed \ {a}
    /\ IF s = {} THEN UNCHANGED <<row, rests>> ELSE Amend(a, s, Observed)
    /\ UNCHANGED <<crit, Seat, session, encoded, edits>>

\* A delivery amends the word, resting on the statements its wake names, if any.
Deliver(s, why) ==
    /\ Driver /\ owed = {} /\ edits < MaxEdits
    /\ edits' = edits + 1
    /\ Amend(None, s, why)
    /\ UNCHANGED <<crit, owed, Seat, session, encoded>>

\* An area's code moves: the Terminologist's survey of it is owed again.
Drift(a) ==
    /\ edits < MaxEdits /\ "define" \notin owed
    /\ a \notin owed
    /\ owed' = owed \cup {a} /\ edits' = edits + 1
    /\ UNCHANGED <<Words, Seat, session, encoded>>

\* ------------------------------------------------------ the collision session

\* What a session has staged; every door reads the rows on file.
Fresh(refs) ==
    [refs |-> refs, calls |-> 0, warned |-> FALSE, told |-> {},
     draft |-> [i \in Id |-> None], bases |-> [i \in Id |-> Reasoned],
     terms |-> [c \in Criterion |-> [add |-> {}, drop |-> {}]]]

Woken ==
    /\ Driver /\ Collision # {}
    /\ session' = Fresh(Collision)
    /\ UNCHANGED <<Words, owed, Seat, encoded, edits>>

Calling == session # None /\ session.calls < MaxCalls

\* glossary.same: drop is superseded by keep, which inherits what it rests on,
\* and the criteria written in drop are repointed.
Same(keep, drop) ==
    /\ Calling /\ keep # drop /\ {keep, drop} \subseteq OnFile
    /\ row[drop].sup = None
    /\ session' = [session EXCEPT
         !.calls = @ + 1,
         !.draft[drop] = [row[drop] EXCEPT !.sup = keep],
         !.bases[keep] = Best({@, rests[drop]}),
         !.terms = [c \in Criterion |->
             IF drop \in crit[c]
             THEN [add  |-> (@[c].add \cup {keep}) \ {drop},
                   drop |-> (@[c].drop \cup {drop}) \ {keep}]
             ELSE @[c]]]
    /\ UNCHANGED <<Words, owed, Seat, encoded, edits>>

\* glossary.synthesise: the sense the readings add up to, on the word's own row.
Synthesise(ids, s) ==
    /\ Calling
    /\ Cardinality(ids) >= 2 /\ ids \subseteq session.refs
    /\ \A i \in ids : row[i].sense # s
    /\ LET said == UNION {row[i].sense : i \in ids}
           adds == s \cap (Declared \ said) # {}
           area == IF Base \in ids THEN row[Base].area ELSE None
       IN session' = IF Declared # {} /\ ~ adds /\ ~ session.warned
            THEN [session EXCEPT !.warned = TRUE]
            ELSE [session EXCEPT
                    !.calls = @ + 1,
                    !.draft = [i \in Id |->
                        IF i = Base THEN [sense |-> s, area |-> area, sup |-> None]
                        ELSE IF i \in ids /\ row[i].sup = None
                             THEN [row[i] EXCEPT !.sup = Base] ELSE @[i]],
                    !.bases[Base] = Best({@} \cup {rests[i] : i \in ids \ {Base}})]
    /\ UNCHANGED <<Words, owed, Seat, encoded, edits>>

\* msg.report_liaison: two different things under one word.
Report(refs) ==
    /\ Calling /\ Cardinality(refs) >= 2 /\ refs \subseteq session.refs
    /\ session.told = {}
    /\ session' = [session EXCEPT !.calls = @ + 1, !.told = refs]
    /\ UNCHANGED <<Words, owed, Seat, encoded, edits>>

\* The commit: the writes in the order staged, the message with them.
Commit ==
    /\ session # None
    /\ row' = [i \in Id |-> IF session.draft[i] = None THEN row[i] ELSE session.draft[i]]
    /\ rests' = [i \in Id |-> Best({rests[i], session.bases[i]})]
    /\ crit' = [c \in Criterion |->
                   (crit[c] \cup session.terms[c].add) \ session.terms[c].drop]
    /\ mail' = mail \cup {[kind |-> "report", refs |-> session.told, approves |-> {}] :
                             r \in {session.told} \ {{}}}
    /\ session' = None
    /\ UNCHANGED <<owed, parked, ruled, rulings, decided, put, encoded, edits>>

\* A session that dies commits nothing.
Dies ==
    /\ session # None
    /\ session' = None
    /\ UNCHANGED <<Words, owed, Seat, encoded, edits>>

\* ----------------------------------------------------- to the principal and back

Turned(m, kind, as) ==
    (mail \ {m}) \cup {[kind |-> kind, refs |-> m.refs, approves |-> as]}

\* The Liaison carries the report to the principal, or ends having asked nothing.
Ask(m) ==
    /\ Driver /\ m \in mail /\ m.kind = "report"
    /\ \/ mail' = Turned(m, "clarify", {}) /\ put' = put \cup m.refs
       \/ mail' = mail \ {m} /\ UNCHANGED put
    /\ UNCHANGED <<Words, owed, parked, ruled, rulings, decided, session, encoded, edits>>

\* The principal's words; any time, and never guaranteed.
Answer(m) ==
    /\ m \in mail /\ m.kind = "clarify"
    /\ mail' = Turned(m, "answer", {})
    /\ UNCHANGED <<Words, owed, parked, ruled, rulings, decided, session, encoded, edits, put>>

\* (Faulty: the map rules every row of the word.)
RuleAll(m, names, approves) ==
    /\ Driver /\ m \in mail /\ m.kind = "answer"
    /\ rulings < MaxRulings
    /\ names # {} /\ names \subseteq m.refs /\ approves \subseteq names
    /\ ruled' = ruled \cup OnFile /\ rulings' = rulings + 1
    /\ mail' = Turned(m, "relay", approves)
    /\ UNCHANGED <<Words, owed, parked, decided, session, encoded, edits, put>>
\* rulings.rule, then the relay: the rows the words settle are ruled, and the
\* door parks each row the map leaves out.
Rule(m, names, approves) ==
    /\ Driver /\ m \in mail /\ m.kind = "answer"
    /\ rulings < MaxRulings
    /\ names # {} /\ names \subseteq m.refs /\ approves \subseteq names
    /\ ruled' = ruled \cup names /\ rulings' = rulings + 1
    /\ parked' = parked \cup (m.refs \ names)
    /\ mail' = Turned(m, "relay", approves)
    /\ UNCHANGED <<Words, owed, decided, session, encoded, edits, put>>

\* ledger.unaddressed: the words answer something else, for each of the rows; so
\* may the words on file from an earlier time these rows were put.
Unaddressed(m) ==
    /\ Driver /\ m \in mail
    /\ \/ m.kind = "answer"
       \/ m.kind = "report" /\ m.refs \cap put # {}
    /\ parked' = parked \cup m.refs
    /\ mail' = mail \ {m}
    /\ UNCHANGED <<Words, owed, ruled, rulings, decided, session, encoded, edits, put>>

\* (Faulty: the rows the session names are not held against the ruling.)
AdoptNamed(m, ids) ==
    /\ Driver /\ m \in mail /\ m.kind = "relay"
    /\ ids # {} /\ ids \subseteq OnFile
    /\ rests' = [i \in Id |-> IF i \in ids /\ rests[i] = Observed THEN Decided ELSE rests[i]]
    /\ mail' = mail \ {m}
    /\ UNCHANGED <<row, crit, owed, parked, ruled, rulings, decided, session, encoded, edits, put>>
\* glossary.adopt: of the rows the session names, those the ruling approves that
\* rest on code; the others are skipped.
Adopt(m, ids) ==
    /\ Driver /\ m \in mail /\ m.kind = "relay"
    /\ ids # {} /\ ids \subseteq OnFile
    /\ rests' = [i \in Id |-> IF i \in ids \cap m.approves /\ rests[i] = Observed THEN Decided
                              ELSE rests[i]]
    /\ mail' = mail \ {m}
    /\ UNCHANGED <<row, crit, owed, parked, ruled, rulings, decided, session, encoded, edits, put>>

\* principal.land on a parked row: the decision closes it and rules no sense.
Unpark(i) ==
    /\ i \in parked
    /\ parked' = parked \ {i}
    /\ UNCHANGED <<Words, owed, mail, ruled, rulings, decided, session, encoded, edits, put>>

\* decisions.author, naming a row of the word.
Decide(i) ==
    /\ Driver /\ owed = {} /\ i \in OnFile
    /\ edits < MaxEdits /\ edits' = edits + 1
    /\ decided' = decided \cup {i}
    /\ UNCHANGED <<Words, owed, mail, parked, ruled, rulings, session, encoded, put>>

\* ----------------------------------------------------------- what rests on it

\* criteria.specify and respecify, written in one sense of the word: the list
\* given replaces the list on file.
Specify(c, i) ==
    /\ Driver /\ owed = {} /\ i \in OnFile
    /\ IF crit[c] = {} THEN UNCHANGED edits
       ELSE edits < MaxEdits /\ edits' = edits + 1
    /\ crit' = [crit EXCEPT ![c] = {i}]
    /\ UNCHANGED <<row, rests, owed, Seat, session, encoded>>

\* The batch's work is offered, and the Tester encodes the criterion.
Encode(c) ==
    /\ Driver /\ crit[c] # {} /\ c \notin encoded
    /\ ~ Held(c)
    /\ encoded' = encoded \cup {c}
    /\ UNCHANGED <<Words, owed, Seat, session, edits>>

Terminologist ==
    \/ \E s \in Reading \cup {{}} : Define(s)
    \/ \E a \in Area, s \in Reading \cup {{}} : Survey(a, s)
    \/ \E s \in Reading, w \in {Reasoned, Decided} : Deliver(s, w)
    \/ Woken
    \/ \E k, d \in Id : Same(k, d)
    \/ \E ids \in SUBSET Id, s \in Reading : Synthesise(ids, s)
    \/ \E ids \in SUBSET Id : Report(ids)
    \/ Commit
    \/ Dies
    \/ \E m \in mail, ids \in SUBSET Id : Adopt(m, ids)
    \/ \E c \in Criterion, i \in Id : Specify(c, i)

Next ==
    \/ Terminologist
    \/ \E m \in mail : Ask(m)
    \/ \E m \in mail : Answer(m)
    \/ \E m \in mail, ns, as \in SUBSET Id : Rule(m, ns, as)
    \/ \E m \in mail : Unaddressed(m)
    \/ \E i \in parked : Unpark(i)
    \/ \E i \in Id : Decide(i)
    \/ \E c \in Criterion : Encode(c)
    \/ \E a \in Area : Drift(a)

Spec == Init /\ [][Next]_vars

\* ----------------------------------------------------------------- properties

Staged == [refs : SUBSET Id, calls : 0 .. MaxCalls, warned : BOOLEAN, told : SUBSET Id,
           draft : [Id -> Entry \cup {None}], bases : [Id -> Reasoned .. Decided],
           terms : [Criterion -> [add : SUBSET Id, drop : SUBSET Id]]]

\* Every variable has its type, and a session is of rows on file.
TypeOK ==
    /\ row \in [Id -> Entry \cup {None}]
    /\ rests \in [Id -> Reasoned..Decided]
    /\ crit \in [Criterion -> SUBSET Id]
    /\ owed \subseteq {"define"} \cup Area
    /\ mail \subseteq Letter
    /\ parked \subseteq Id /\ decided \subseteq Id /\ put \subseteq Id
    /\ ruled \subseteq Id /\ rulings \in 0..MaxRulings
    /\ encoded \subseteq Criterion /\ edits \in 0..MaxEdits
    /\ session \in Staged \cup {None}
    /\ session # None => session.refs \subseteq OnFile

\* Nothing wins silently: an area's survey never replaces a live reading that
\* was written about another area or about the whole program (glossary.amend's
\* second-area rule).
ReadingsAreKept ==
    [][ \A a \in Area : a \in owed /\ a \notin owed' =>
          \A i \in {Base} \cup Area :
              i \in Live /\ row[i].area # a => row'[i] = row[i] ]_vars

\* A word with two live senses goes quiet after the readings only if one of
\* them is in front of somebody, or every one of them has been put to the
\* principal or named by a decision: a sense written after the ruling is asked
\* about again, and one ruled sense does not speak for the others
\* (term_collision with rulings.rule and ledger.unaddressed).
EverySenseIsPut ==
    owed = {} /\ Cardinality(Counted) >= 2 /\ Collision = {} /\ Live \cap Raised = {}
        => Live \subseteq put \cup decided

\* A session woken by a ruling makes a row rest on the principal's word only if
\* that row was put to them and their words named it, whatever was surveyed,
\* merged or asked between the report and the adoption (_adopt_rows over the
\* letters of msg.report_liaison, msg.clarify and rulings.rule).
AdoptedWasPut ==
    [][ \A m \in mail \ mail' : m.kind = "relay" =>
          \A i \in Id : rests'[i] # rests[i] => i \in put \cap ruled ]_vars

\* A word that has been given a sense keeps a live one.
WordKeepsASense == OnFile # {} => Live # {}
=============================================================================
