\* Two concurrent tasks of one contract, three failed downloads, two faults or
\* interventions of an administrator.
SPECIFICATION Spec
CONSTANTS
    c1 = c1  c2 = c2  t1 = t1  t2 = t2
    Contract = {c1}
    NoContract = NoContract
    Implementations <- MCOwnImplementation
    Tasks = {t1, t2}
    Clients = 1
    CONTRACT_MAX_DOWNLOAD_RETRIES = 1
    EditedRetries = {0}
    MaxFailures <- MCThreeFailures
    MaxFaults = 2
SYMMETRY MCSymmetry
INVARIANTS
    CachedNoIsRight
    FailuresRemembered
PROPERTIES
    AbiKept
    TasksSettle
