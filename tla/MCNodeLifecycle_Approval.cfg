SPECIFICATION Spec
CONSTANTS
    n1 = n1
    n2 = n2
    n3 = n3
    a1 = a1
    a2 = a2
    Nodes = {n1}
    Agents = {a1}
    NoOwner = NoOwner
    Contents = {c1, c2}
    NoHash = NoHash
    Specs = {}
    AutoChecked = {n1}
    ParentOf <- Flat
    ComputedTiers = {0, 1, 2}
    AutoAbove = 0
    MaxAttempts = 2
    MaxVersion = 1
    MaxExpiries = 0
INVARIANTS
    WorkIsApproved
