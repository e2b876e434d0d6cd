SPECIFICATION Spec
CONSTANTS
    Articles = {a1, a2}
    Days = {1}
    Requests = {r1, r2}
    Lookback = 1
    MaxItems = 1
    MaxTime = 1
    None = None
INVARIANTS ScoresFollowDigest
