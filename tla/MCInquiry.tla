----------------------------- MODULE MCInquiry -----------------------------
(***************************************************************************)
(* Small instances for TLC.                                                *)
(***************************************************************************)
EXTENDS Inquiry

MCRound == <<"architect", "terminologist", "vision_keeper">>

\* The Tester asks on its own.
MCTester == {<<"tester", "tests_missing">>}

\* One story at a time, each with its own length: what a principal's question
\* starts, or what a Tester's block starts.
MCStory ==
    LET of(r) == {i \in DOMAIN mail : mail[i].from = r /\ mail[i].cause = 0}
    IN  /\ of("principal") = {} \/ of("tester") = {}
        /\ of("tester") # {} =>
              /\ Len(mail) <= 9
              /\ \A i \in DOMAIN mail : mail[i].to # "researcher"
=============================================================================
