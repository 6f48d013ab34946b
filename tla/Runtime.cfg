SPECIFICATION FairSpec
CONSTANTS
    Fakes = {f}
    Texts = {t}
    Objects = {o}
    Writes = {w}
    MaxRetries = 1
    Horizon = 1
    Limit <- MCLimit
    Seeds <- MCSeeds
    Usages <- MCUsages
    Lengths <- MCLengths
INVARIANTS
    TypeOK
    AttemptsBounded
PROPERTIES
    OverrunStopsNewCalls
    CancelIsFinal
    CallsEnd
