\* Two contracts that name each other, one task at a time, one fault or one row
\* deleted by an administrator.
SPECIFICATION FairSpec
CONSTANTS
    c1 = c1  c2 = c2  t1 = t1  t2 = t2
    Contract = {c1, c2}
    NoContract = NoContract
    Implementations <- MCImplementations
    Tasks = {t1}
    Clients = 1
    CONTRACT_MAX_DOWNLOAD_RETRIES = 1
    EditedRetries = {}
    MaxFailures <- MCFailuresOfOne
    MaxFaults = 1
INVARIANT
    ImplementationsSent
PROPERTIES
    MessagesAreHandled
    ProxyFollowed
    MissingRetried
    UnscheduledStop
