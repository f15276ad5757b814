SPECIFICATION SupervisorFairSpec
INVARIANTS GroupIsOwn ReportIsTrue
PROPERTIES Ends
CHECK_DEADLOCK FALSE
