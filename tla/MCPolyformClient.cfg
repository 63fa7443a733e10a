\* One client: the process registers, refreshes, fails and restarts, as either
\* of two releases.
CONSTANTS
    Clients = {c1}
    Functions <- MCFunctions
    Inventory <- MCInventory
    Releases = {1, 2}
    Assignments <- MCAssignments
    MaxList = 2
    MaxRevision = 2
SPECIFICATION Spec
INVARIANTS
    StateFileWhole
    PersistedBeforeActive
    NoEquivocation
    AssignedInService
PROPERTIES
    FloorMonotone
    RestoreNeedsNewList
