SPECIFICATION Spec
CONSTANTS
    Urls = {u1, u2}
    Handlers = {h1, h2}
    ModelScores <- MCModelScores
    None = None
INVARIANTS OneOwner OrphansExplained RepliesTruthful
PROPERTIES ImplementsLifecycle EnrichmentSettles
