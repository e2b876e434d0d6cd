SPECIFICATION SinkSpec
CONSTANTS
    Events = {e1, e2, e3, e4}
    Closers = {s1, s2}
    QueueSize = 2
    NoEvent = NoEvent
CHECK_DEADLOCK FALSE
INVARIANTS NoPanic NilMeansPosted
PROPERTIES ImplementsChannel CallersReturn
