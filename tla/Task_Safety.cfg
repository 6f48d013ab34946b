SPECIFICATION FairSpec
CONSTANTS
    Creates = {c1, c2}
    Cancels = {x1, x2}
    Inputs <- MCInputs
INVARIANTS
    CauseIsSupported
PROPERTIES
    SettledResultStands
    RequestsAnswered
