\* Two reloads and three revisions: a refresh can start before a reload builds,
\* between building and swapping, and after it.
CONSTANTS
    RefreshThreads = {r1, r2}
    MaxRevision = 3
    MaxGeneration = 3
    MaxReports = 4
    QueueCap = 2
SPECIFICATION Spec
INVARIANTS
    NeverAhead
    TelemetryAccounted
PROPERTIES
    GenerationMonotone
    RefreshEnds
    ReloadEnds
