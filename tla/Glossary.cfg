SPECIFICATION Spec
CONSTANTS
    Base = base
    Root = root
    Area = {src, root}
    Fact = {f, g}
    Declared = {g}
    Criterion = {c1}
    MaxCalls = 1
    MaxEdits = 1
    MaxRulings = 1
    None = None
INVARIANTS EverySenseIsPut
PROPERTIES ReadingsAreKept AdoptedWasPut
CHECK_DEADLOCK FALSE
