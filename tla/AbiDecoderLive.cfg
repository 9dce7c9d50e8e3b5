\* One worker, one fault: startup and requests make progress.
SPECIFICATION FairSpec
CONSTANTS
    a1 = a1  a2 = a2  a3 = a3  s1 = s1  s2 = s2
    w1 = w1  w2 = w2  r1 = r1  r2 = r2
    Abi = {a1, a2}
    Selector = {s1, s2}
    SelectorsOf <- MCSelectorsOf
    LocalAbis <- MCOneLocalAbi
    Workers = {w1}
    Requests = {r1, r2}
    NoAbi = NoAbi
    Web = Web
    Free = Free
    MaxId = 2
    MaxFaults = 1
PROPERTIES
    StartupCompletes
    CommittedIsLoaded
    RequestsAnswered
