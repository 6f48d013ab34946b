SPECIFICATION Spec
CONSTANTS
    Writers <- MCWriters
    Script <- MCScript
    MaxRetries = 2
    MaxFailures = 0
    MaxReconnects = 0
INVARIANTS
    CollisionsRetried
