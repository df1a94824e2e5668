SPECIFICATION ObFairSpec
CONSTANTS
    Area = {"src"}
    Coded = {"src"}
    Doc = {}
    Word = {}
    Compound = {}
    Surface = {}
    File <- MCSmallFile
    Home <- MCSmallHome
    Imports = {}
    Front = {"main"}
    Withheld = {}
    Declares <- MCSmallDeclares
    Cites <- MCCites
    Named = {"src"}
    Phases <- MCWhole
    Moving = {}
    AttemptCap = 1
    MaxStamp = 1
PROPERTY OnboardingEnds
CHECK_DEADLOCK FALSE
