SPECIFICATION Spec
CONSTANTS
    Steers = {1, 2}
    Poses = {"a", "b"}
    MaxFaults = 1
PROPERTIES NoTractionOverSplit RecoveryCompletes StaleStops
