------------------------------ MODULE MCSeat -------------------------------
(***************************************************************************)
(* A small instance for TLC: the consoles are interchangeable.             *)
(***************************************************************************)
EXTENDS Seat, TLC

Symmetry == Permutations(Console)

\* Bounds: one landing is cut, two go on at a time, two readings are kept, no
\* ruling lands at the end of the mail, and the last message relays an answer.
MCStory ==
    /\ Cardinality(cut) <= 1 /\ Len(readings) <= 2
    /\ Cardinality({h \in Hand : landing[h] # Idle}) <= 2
    /\ Len(mail) >= MaxMail - 1 => \A h \in Hand : landing[h].step # "rows"
    /\ Len(mail) = MaxMail => Verb(MaxMail) = "relay" /\ Verb(mail[MaxMail].cause) = "converse"
=============================================================================
