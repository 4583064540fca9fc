SPECIFICATION Spec
CONSTANTS
    Axes = {1, 2}
    Stop = 1
    OldOffset = 1
    LastStep = 1
    SetupRetries = 0
    StableSamples = 2
    MaxGestures = 2
    MaxTrouble = 1
INVARIANT NoMixedCoordinates
