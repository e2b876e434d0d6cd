SPECIFICATION Spec
CONSTANTS
    s1 = s1
    Messages = {m1}
    Sources = {s1}
    SourceOf <- ToOneSource
    Executions = {x1, x2, x3}
    MaxDeliveries = 3
    Readers = {q1}
    Recovered = {}
    None = None
INVARIANTS PermalinksHold OnlyActivated NothingLostQuietly
