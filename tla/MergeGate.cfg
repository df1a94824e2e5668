SPECIFICATION Spec
CONSTANTS
    app = app
    util = util
    ours = ours
    theirs = theirs
    Path = {app, util}
    Grain = {app, util}
    Ground = {app, util}
    Covers <- Alone
    Rules <- Register
    Criteria = {ours}
    Inherited = {theirs}
    LoopCap = 2
    MaxCommit = 2
    MaxBody = 2
INVARIANTS NeverStalls
PROPERTIES MergesTested NewHeadIsUnjudged
