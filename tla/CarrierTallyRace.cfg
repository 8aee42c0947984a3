SPECIFICATION Spec
CONSTANTS
    MaxTime = 2
    MaxAnswers = 2
    MaxRefusals = 0
CHECK_DEADLOCK FALSE
INVARIANTS
    NeverUnderReports
