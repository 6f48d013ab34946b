SPECIFICATION FairSpec
CONSTANTS
    MaxModelCalls = 10
    MaxToolCalls = 9
    MaxDelegations = 3
    MaxDelegationDepth = 3
    MaxCost = 28
    MaxReadRetries = 2
    Threshold = 3
    SpecialistOutputs <- MCOutputs
INVARIANTS
    TypeOK
    ApprovalGate
    WritesOnce
    BudgetsHold
    OneTerminalEvent
    OnlySpecialistLeadsToWrites
    ConflictCapped
    CancelStopsCalls
PROPERTIES
    ImplementsContract
    ReturnsFromRun
