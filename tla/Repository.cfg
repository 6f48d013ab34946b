SPECIFICATION Spec
CONSTANTS
    Tenants = {t1, t2}
    Runs = {r1, r2}
    Sessions = {s1, s2, s3}
    Ids = {i1, i2}
    Keys = {k1}
    Words <- MCWords
    Sensitive <- MCSensitive
    Bodies <- MCBodies
    Statuses = {"succeeded", "failed"}
    none = none
SYMMETRY Symmetry
INVARIANTS
    TenantIsolation
    NothingSecretStored
    SequentialReplay
PROPERTY
    RowsKept
