SPECIFICATION Spec
CONSTANTS
    Axes = {1, 2}
    Stop = 1
    OldOffset = 1
    LastStep = 1
    SetupRetries = 1
    StableSamples = 2
    MaxGestures = 1
    MaxTrouble = 1
INVARIANTS ZeroIsCentre AbortRestores
PROPERTIES CalibrationEnds FaultStops
