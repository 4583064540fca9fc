SPECIFICATION Spec
CONSTANTS
    Legs = {1, 2}
    Retracted = 0
    Extended = 2
    Top = 2
    Masks = {"extend track"}
    Scenarios <- OnlyReversing
    Preload = 1
    Proof = 2
    Flips = TRUE
PROPERTIES CoherentStream
