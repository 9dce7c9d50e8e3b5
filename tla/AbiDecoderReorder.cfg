\* Two workers and no fault: a lower id is committed after a higher one.
SPECIFICATION Spec
CONSTANTS
    a1 = a1  a2 = a2  a3 = a3  s1 = s1  s2 = s2
    w1 = w1  w2 = w2  r1 = r1  r2 = r2
    Abi = {a1, a2, a3}
    Selector = {s1, s2}
    SelectorsOf <- MCSelectorsOf3
    LocalAbis <- MCOneLocalAbi
    Workers = {w1, w2}
    Requests = {r1}
    NoAbi = NoAbi
    Web = Web
    Free = Free
    MaxId = 3
    MaxFaults = 0
INVARIANT
    NewAbisNeverSkipped
