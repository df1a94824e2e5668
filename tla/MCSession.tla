----------------------------- MODULE MCSession -----------------------------
(***************************************************************************)
(* A small instance for TLC: the replies of each mode, among them two that *)
(* hold an act behind a read, two acts in one reply and a read given       *)
(* again.                                                                  *)
(***************************************************************************)
EXTENDS Session

MCPlan ==
    { <<"chat", "converse">>, <<"work", "segment">>, <<"segment", "confirm">>,
      <<"ask", "converse">>, <<"list", "ask">>, <<"confirm", "list", "ask">>,
      <<"list", "attest">>, <<"amend", "attest">>, <<"list", "amend">>,
      <<"list", "lookup", "amend", "attest">>, <<"list", "amend", Broken>>,
      <<"list", "write">>, <<"list", "commit", "challenge">>,
      <<"write", "commit">>, <<"list", "challenge">>, <<Broken>> }
=============================================================================
