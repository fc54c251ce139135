SPECIFICATION Spec
CONSTANTS
    n1 = n1
    n2 = n2
    n3 = n3
    a1 = a1
    a2 = a2
    Nodes = {n1, n2}
    Agents = {a1}
    NoOwner = NoOwner
    Contents = {c1}
    NoHash = NoHash
    Specs = {}
    AutoChecked = {n2}
    ParentOf <- Chain
    ComputedTiers = {0, 2}
    AutoAbove = 0
    MaxAttempts = 1
    MaxVersion = 2
    MaxExpiries = 1
PROPERTIES
    HardBlockHolds
    Gate2IsComplete
    ApprovedWorkSurvives
