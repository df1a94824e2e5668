------------------------------ MODULE MCChain ------------------------------
EXTENDS Chain

\* The account of the code is read first.  Then one of three stories: an item
\* as it was asked for; that item amended, with a third ticket; or two items
\* that share their batches.  The last two keep to plain criteria, green runs
\* and no spare call, but for two items of one ticket each, which have one.
MCAsked   == {i \in Item \ Found : version[i] # 0}
MCFirst   == CHOOSE i \in Item \ Found : TRUE
MCAmended == \E i \in Item : version[i] > 1
MCTwo     == Cardinality(MCAsked) > 1
MCTickets == {t \in TicketId : ticket[t] # NoTicket}
MCStory ==
    /\ MCAsked # {} => MCFirst \in MCAsked /\ \A i \in Found : approved[i]
    /\ ~(MCTwo /\ MCAmended)
    /\ Cardinality(MCTickets) <= 3
    /\ MCTwo \/ MCAmended =>
          /\ spare = MaxSpare \/ (MCTwo /\ spare = MaxSpare - 1 /\ Cardinality(MCTickets) <= 2)
          /\ \A c \in Written : criterion[c].words \in Clear
          /\ \A x \in AnyTest : run[x] # NoRun => run[x].passed
=============================================================================
