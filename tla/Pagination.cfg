SPECIFICATION Spec
CONSTANTS
    Row = {1, 2, 3, 4, 5}
    Limits <- MCLimits
    default_page_size = 2
    max_page_size = 3
    MaxChanges = 2
INVARIANTS
    ForwardWalkMisses
    BackwardWalkMisses
    ForwardWalkRepeats
    NothingElseShown
    LinksValid
