\* Two connections in a row: the loops of the first are still running when it is torn down.
SPECIFICATION ClientSpec
CONSTANTS MaxSessions = 2  MaxRetries = 1
INVARIANTS ClientSurvives
CHECK_DEADLOCK FALSE
