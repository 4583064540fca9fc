SPECIFICATION Spec
CONSTANTS
    w1 = w1
    w2 = w2
    Words <- MCWords
    MaxRequests = 3
    MaxCommands = 3
INVARIANTS
    Coherence
PROPERTIES
    Can3MissesOnlyForNewer
    PipelineSpec
