\* One contract whose downloads fail until its retries are used up.
SPECIFICATION Spec
CONSTANTS
    c1 = c1  c2 = c2  t1 = t1  t2 = t2
    Contract = {c1}
    NoContract = NoContract
    Implementations <- MCOwnImplementation
    Tasks = {t1}
    Clients = 1
    CONTRACT_MAX_DOWNLOAD_RETRIES = 1
    EditedRetries = {}
    MaxFailures <- MCTwoFailures
    MaxFaults = 0
INVARIANT
    FewerRetriesFetched
