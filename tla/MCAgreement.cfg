\* One request, its function run up to twice and then classified, against every
\* quarantine list and composition.
CONSTANTS
    Workers = {w1}
    Functions = {"f", "g"}
    Classify = "g"
    N = 5
    Implements <- MCImplements
    Outcomes = {1, 2}
    OkOutcomes = {1}
    MaxRuns = 2
SPECIFICATION Spec
INVARIANTS
    Unanimous
    NoInternal
    RunsSelected
    DisagreementTraced
PROPERTIES
    RunEnds
