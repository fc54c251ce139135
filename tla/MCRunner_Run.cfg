SPECIFICATION RSpec
CONSTANTS
    d1 = d1
    d2 = d2
    h = h
    Nodes = {1, 2}
    Agents = {d1, d2}
    Drivers = {d1, d2}
    Others <- Nobody
    NoOwner = NoOwner
    Contents = {c1}
    NoHash = NoHash
    Specs = {}
    AutoChecked = {1, 2}
    ParentOf <- Flat
    ComputedTiers = {0}
    AutoAbove = 0
    MaxAttempts = 1
    MaxVersion = 1
    MaxExpiries = 1
    Route <- ToFirst
    OnLimit <- LimitPolicy
    OnTimeout <- TimeoutPolicy
    MaxWait = 2
    RetryAfter = {1}
    DependsOn <- NoDeps
    Clashes = {}
    Parallel = 2
    Concurrency <- TwoAtATime
    Budget <- FirstHasBudget
INVARIANTS
    RTypeOK
    ExitLeavesNothingHeld
    
