SPECIFICATION FairSpec
CONSTANTS
    Writers <- MCWriters
    Script <- MCScript
    MaxRetries = 2
    MaxFailures = 3
    MaxReconnects = 2
INVARIANTS
    TypeOK
    DenseSequences
    NoGapShown
PROPERTIES
    EventuallyShown
