SPECIFICATION Spec
CONSTANTS
    Articles = {a1, a2}
    Days = {1, 2}
    Requests = {r1, r2}
    Lookback = 2
    MaxItems = 1
    MaxTime = 2
    None = None
SYMMETRY Symmetry
INVARIANTS ScoresAccounted NoRepeat NothingSkipped
PROPERTIES ImplementsStore
