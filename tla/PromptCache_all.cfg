SPECIFICATION PromptSpec
CONSTANTS
    Fetchers = {g1, g2}
    MaxVersion = 3
    Malformed = {3}
    TTL = 2
    Timeout = 1
INVARIANTS RollbackBites
PROPERTIES PromotionServed
