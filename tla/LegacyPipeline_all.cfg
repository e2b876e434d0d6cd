SPECIFICATION Spec
CONSTANTS
    Items = {i1}
    Letters = {l1}
    Pollers = {p1}
    Enrichers = {w1}
    MaxTime = 1
    MaxFaults = 1
    MaxArticles = 1
    None = None
INVARIANTS CursorKeepsUp DuplicatesPaid NothingStranded
PROPERTIES PipelineSettles
