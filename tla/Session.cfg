SPECIFICATION Spec
CONSTANTS
    Mode = {"converse", "survey", "tests_failing"}
    Plan <- MCPlan
    MaxIterations = 5
    MaxSame = 1
INVARIANTS TypeOK OneAnswer
CHECK_DEADLOCK FALSE
