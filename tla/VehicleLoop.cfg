SPECIFICATION FairSpec
CONSTANTS
    LinkQualify = 1
    NeutralQualify = 1
    CenterHold = 1
    DomainGuard = 1
    LongPress = 1
    TrackStable = 1
    TrackExit = 1
    B1Presses = 2
    B1Window = 1
    B1Hold = 1
    SteerOnly = FALSE
    Profile = "whole_vehicle"
    Inputs <- LoopInputs
INVARIANTS
    StopClearsCommand
    NoReversalTorque
    HydraulicsExcludeDrive
    AssistFollowsValve
PROPERTIES
    RelayReleasedAtRest
    RecoversWhenNeutral
