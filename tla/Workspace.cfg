SPECIFICATION WsSpec
CONSTANTS
    prog = prog
    extra = extra
    built = built
    test = test
    run = run
    asked = asked
    old = old
    new = new
    Source = {prog, extra, built}
    TestFile = {test}
    Name = {run, asked}
    Body = {old, new}
    Draft <- MCDraft
    TestText <- MCTestText
    TestPath = {test, extra}
    First <- MCFirst
    Bare = {asked}
    SurfaceIn = {}
    NamedFile = {}
    Private = {}
    Misplaced = {}
    Unindexed = {built}
    ReachAsked = FALSE
    Unanswerable <- MCUnanswerable
    NoDef = NoDef
    Gone = Gone
    MaxCommit = 3
    MaxMain = 2
CONSTRAINT MCStory
INVARIANTS WsTypeOK  
PROPERTIES DeliversTheTest
