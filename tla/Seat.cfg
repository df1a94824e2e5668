SPECIFICATION Spec
CONSTANTS
    Item = {i1}
    Batch = batch
    Console = {c1, c2}
    Loop = loop
    Displayed = TRUE
    PageLimit = 1
    MaxVersion = 2
    MaxMail = 6
SYMMETRY Symmetry
INVARIANTS OneVerdict LooseEndsAreCarried  OverruledContests
CHECK_DEADLOCK FALSE
CONSTRAINT MCStory
