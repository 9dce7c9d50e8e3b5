\* Two queries, two requests, two tasks, two writes, one fault.
SPECIFICATION FairSpec
CONSTANTS
    f1 = f1  f2 = f2  r1 = r1  r2 = r2  t1 = t1  t2 = t2
    Field = {f1, f2}
    Requests = {r1, r2}
    Tasks = {t1, t2}
    MaxVersion = 2
    MaxFaults = 1
INVARIANTS
    EveryHashExpires
    OnlyLateFillsAreStale
PROPERTY
    StaleLeaves
