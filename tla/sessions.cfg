\* Any three requests, two of them overlapping, with one model that has a preset and one without.
SPECIFICATION Spec
CONSTANTS
    Requests <- MCRequests
    openai = openai
    mine = mine
    ModelIds <- MCModelIds
    Presets <- MCPresets
    None = None
    Env = Env
    Databases <- MCDatabases
INVARIANTS LostOnlyByOverlap SecretsAreHandled
PROPERTIES MemoryLosesNothing
CHECK_DEADLOCK FALSE
