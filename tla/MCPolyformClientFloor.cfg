\* Two clients over one state file: the persisted floor goes back.
CONSTANTS
    Clients = {c1, c2}
    Functions <- MCFunctions
    Inventory <- MCInventory
    Releases = {1}
    Assignments <- MCAssignments
    MaxList = 2
    MaxRevision = 1
SPECIFICATION Spec
PROPERTIES
    FloorMonotone
CHECK_DEADLOCK FALSE
