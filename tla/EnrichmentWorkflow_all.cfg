SPECIFICATION Spec
CONSTANTS
    e1 = e1
    e2 = e2
    u1 = u1
    Urls = {u1}
    Handlers = {h1, h2}
    ModelScores = {3, 6}
    None = None
    Executions = {x1, x2}
    Entries = {e1, e2}
    EntryUrl <- OneUrl
    Malformed = {e2}
    BridgeEntries = {e1}
    ItemCarried = {TRUE}
INVARIANTS AlertOnce FailuresExplained
PROPERTIES ExecutionsEnd
