SPECIFICATION MCSpec
CONSTANTS
    LinkQualify = 2
    NeutralQualify = 2
    CenterHold = 2
    DomainGuard = 1
    LongPress = 1
    TrackStable = 3
    TrackExit = 3
    B1Presses = 3
    B1Window = 3
    B1Hold = 1
    Inputs <- MCInputs
    Conditions <- MCConditions
    Gaps <- MCGaps
INVARIANTS
    RearmDelay
    AdjustExcludesDrive
    CalibrationNeedsGesture
PROPERTIES
    EstopClearsSafely
    NoReversalWhileMoving
    ArmsOnlyInPark
    ModeChangesParked
    PowerOnAfterQuiet
    TrackReversalPause
