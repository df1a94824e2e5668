SPECIFICATION FairSpec
CONSTANTS
    None = None
    Item = {i1, i2, i3}
    Found = {i3}
    Handle = {h1,h2,h3,h4}
    Criterion = {c1,c2,c3,c4,c5}
    Test = {x1,x2,x3,x4,x5,x6}
    Inherited = {y1}
    Path = {p1,p2,p3,p4,p5,p6}
    Clear = {w1}
    Vague = {v1}
    OfTests = {o1}
    MaxBatch = 3
    MaxVersion = 2
    MaxCommit = 2
    PerTicket = 2
    MaxSlice = 2
    MaxSpare = 1
INVARIANTS OneTestPerFile
PROPERTIES WorkKeepsItsPlace MergesOnItsOwnTests ChainDelivers
CHECK_DEADLOCK FALSE
CONSTRAINT MCStory
