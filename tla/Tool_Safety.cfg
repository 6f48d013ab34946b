SPECIFICATION Spec
CONSTANTS
    b1 = b1
    b2 = b2
    b3 = b3
    Calls = {c1, c2, c3}
    Keys = {k1}
    Bodies <- MCBodies
    Redact <- MCRedact
    Requests <- MCRequests
SYMMETRY CallSymmetry
INVARIANTS
    ReplayIsFaithful
PROPERTIES
    NoRepeatAfterSuccess
