SPECIFICATION Spec
CONSTANTS
    Wrap = 10
    RequestStale = 1
    SafetyStale = 1
    CommandStale = 1
    FutureSkew = 1
    BusLag = 1
    MaxStall = 4
PROPERTIES
    BoundedAuthority
    NoDriveWithoutSafety
    FreshIsKept
