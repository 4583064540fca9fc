SPECIFICATION Spec
CONSTANTS
    Groups = {1, 2}
    Descriptor <- MCDescriptor
    QueueCapacity = 3
    HistoryCapacity = 1
    BurstLimit = 2
    MaxRetries = 2
    TxTimeout = 1
    Backoff = 1
    Keys = {"target", "controlword"}
    OrderedKeys = {"controlword"}
    CommandCapacity = 2
    MaxRequests = 2
INVARIANTS LaneConsistent WritesKept
PROPERTIES TransferSpec GroupsDecided TransportRecovers
