SPECIFICATION Spec
CONSTANTS
    Acts = {a1, a2}
    Deciders = {d1, d2}
    Cancellers = {}
    MaxRestarts = 0
    Collisions = FALSE
INVARIANTS
    RejectedExecutesNothing
