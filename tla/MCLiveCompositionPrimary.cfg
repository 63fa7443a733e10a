\* A refresh that was started before a reload installs into the old generation.
CONSTANTS
    RefreshThreads = {r1, r2}
    MaxRevision = 2
    MaxGeneration = 2
    MaxReports = 0
    QueueCap = 1
SPECIFICATION Spec
INVARIANTS
    AssignedIsPrimary
