SPECIFICATION FairSpec
CONSTANTS
    Requests = {r1, r2, r3}
    MaxFailures = 2
    MaxRetries = 2
PROPERTIES
    NoRunAfterAnswer
    AcceptedIsExecuted
