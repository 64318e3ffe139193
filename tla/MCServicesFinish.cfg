SPECIFICATION StreamSpec
INVARIANT FinishAnswered
CHECK_DEADLOCK FALSE
