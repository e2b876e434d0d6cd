SPECIFICATION DailySpec
CONSTANTS
    Days = {d1, d2}
    Requests = {r1, r2}
    Artifacts = {full1, full2, empty}
    EmptyOnes = {empty}
    None = None
    Executions = {x1, x2}
    MaxSendRetries = 2
    Pools <- SmallPools
    Floor = 3
    MaxItems = 3
CHECK_DEADLOCK FALSE
INVARIANTS EmailsAgree QuietMeansDelivered SizeAsPromised EvenSources
