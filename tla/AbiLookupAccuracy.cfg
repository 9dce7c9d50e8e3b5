\* The ABI of the contract does not have the function that is decoded.
SPECIFICATION Spec
CONSTANTS
    a1 = a1  a2 = a2  s1 = s1  r1 = r1  r2 = r2
    Abi = {a1, a2}
    NoAbi = NoAbi
    Selector = {s1}
    SelectorsOf <- MCSelectorsOf
    Chain = {1, 2}
    NoChain = NoChain
    NoAddress = NoAddress
    Requests = {r1}
INVARIANT
    AccuracyIsOfFunction
