SPECIFICATION FairSpec
CONSTANTS
    c1 = c1
    Event = {e1}
    Handler = {h1, h2}
    Contract = {0, 2, 9}
    NULL_ADDRESS = 0
    Kind <- MCKind
    Involved <- MCInvolved
    NoEvent = NoEvent
    MaxQueueFaults = 1
    Chain = {c1}
    Deployments = 2
    Creator = {t1, t2}
    NoChain = NoChain
    MaxSafeFaults = 2
    ChainOf <- MCChainOf
INVARIANTS
    NothingForgotten
    CachedMeansComplete
    CreatorsBounded
PROPERTIES
    DeliveryRefined
    EventsAreSettled
    ChainsComplete
    InfoArrives
