SPECIFICATION Spec
CONSTANTS
    Acts = {a1, a2}
    Deciders = {d1, d2}
    Cancellers = {c1}
    MaxRestarts = 1
    Collisions = TRUE
SYMMETRY RequestSymmetry
INVARIANTS
    TypeOK
    WriteNeedsApprovalRow
PROPERTIES
    CancelHolds
