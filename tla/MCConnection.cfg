\* Bodies of up to two units, a first request and a reused connection.
CONSTANTS
    MaxUnits = 2
    MaxCompleted = 1
SPECIFICATION Spec
CHECK_DEADLOCK FALSE
INVARIANTS
    NothingUnvettedUpstream
    NextRequestAligned
    AcceptedMeansDelivered
PROPERTIES
    CloseIsKept
    ConnectionEnds
