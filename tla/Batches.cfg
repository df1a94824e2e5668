SPECIFICATION Spec
CONSTANTS
    i1 = i1
    i2 = i2
    Item = {i1, i2}
    Batch <- MCTeamBatch
    ItemOf <- MCTeamItemOf
    Priorities = {0, 1}
    MaxVersion = 2
    MaxCommit = 2
CONSTRAINT MCStory
INVARIANTS TypeOK OneRunning RangesDisjoint OneOpenBatch
PROPERTIES KeepsTheLine MergesApproved WorkStopsAtRevocation
