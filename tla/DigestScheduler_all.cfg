SPECIFICATION SchedulerSpec
CONSTANTS
    Calls = {c1, c2, c3}
    MaxDay = 1
    NoCall = NoCall
INVARIANTS NoDuplicateRun AnswersCurrent
PROPERTIES CallsReturn
CHECK_DEADLOCK FALSE
