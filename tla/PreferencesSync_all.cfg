SPECIFICATION Spec
CONSTANTS
    t1 = t1
    t1spaced = t1spaced
    t2 = t2
    odd = odd
    Texts = {t1, t1spaced, t2, odd}
    Normal <- MCNormal
    Shaped = {t1, t2}
    Requests = {r1, r2}
    MaxRows = 3
    Executions = {x1}
    None = None
INVARIANTS SyncConverges AnswerAccepted
SYMMETRY Symmetry
