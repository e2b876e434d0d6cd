SPECIFICATION MigrationSpec
CONSTANTS
    a1 = a1
    Articles = {a1}
    Requests = {r1, r2}
    MaxTime = 1
    Past = 2
    None = None
    LegacyTables <- MCLegacyTables
SYMMETRY Symmetry
INVARIANTS OneScorePerName UserVoteCurrent BookmarkOnce CleanRunFinishes CountsHonest
PROPERTIES LiveDataKept
