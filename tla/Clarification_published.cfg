CONSTANTS
    ScreenAsWritten = TRUE
    MaxCommits = 3
SPECIFICATION ClarificationSpec
INVARIANT RefusalComesFirst
CHECK_DEADLOCK FALSE
