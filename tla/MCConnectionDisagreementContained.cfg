CONSTANTS
    MaxUnits = 1
    MaxCompleted = 1
SPECIFICATION Spec
CHECK_DEADLOCK FALSE
INVARIANT DisagreementContained
