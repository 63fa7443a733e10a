\* Three workers: two race for the exchange while the third drops.
CONSTANTS
    Workers = {w1, w2, w3}
    Sizes = {0, 1, 2}
    Limits = {1, 3}
    MaxUsize = 4
SYMMETRY Symmetry
SPECIFICATION Spec
INVARIANTS
    TypeOK
    Accounting
    WithinHighestLimit
    NoLeak
PROPERTIES
    ImplementsCeilingBudget
