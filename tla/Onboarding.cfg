SPECIFICATION ObFairSpec
CONSTANTS
    Area <- MCArea
    Coded <- MCCoded
    Doc = {"readme"}
    Word = {"recipe"}
    Compound = {}
    Surface = {"schema"}
    File <- MCFile
    Home <- MCHome
    Imports <- MCImports
    Front = {"main"}
    Withheld = {}
    Declares <- MCDeclares
    Cites <- MCCites
    Named = {"src", "constraints"}
    Phases <- MCReading
    AttemptCap = 1
    Moving <- MCCoded
    MaxStamp = 2
INVARIANTS ObTypeOK SurveysAreOfTheTree FindingIsOnFile
PROPERTIES FrontierDrains
CHECK_DEADLOCK FALSE
