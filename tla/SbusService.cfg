SPECIFICATION Spec
CONSTANTS
    FrameLength = 3
    Payload <- MCPayload
    Wrap = 7
    Timeout = 3
    Period = 2
    MaxLag = 1
    ErrorLimit = 1
INVARIANTS
    SilenceDetected
    SampleIsOneFrame
PROPERTIES
    LossConfined
