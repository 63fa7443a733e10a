\* Connections race with a reload that lowers the cap.  The process
\* ends when it has stopped.
CONSTANTS
    Conns = {c1, c2, c3}
    MaxVersion = 2
    Listeners = 2
    Caps <- MCCaps
SPECIFICATION Spec
CHECK_DEADLOCK FALSE
INVARIANTS
    ActiveCounts
    CapHolds
    LastSignalServed
PROPERTIES
    RefusedOnlyAtCap
    ShutdownEnds
