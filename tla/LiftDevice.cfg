SPECIFICATION Spec
CONSTANTS
    Legs = {1, 2}
    Retracted = 1
    Extended = 2
    Top = 3
    Masks = {"extend track"}
    Scenarios <- Scenes
    Preload = 2
    Proof = 2
    Flips = FALSE
PROPERTIES CoherentStream StopDisables LiftArrives ValvesServed
