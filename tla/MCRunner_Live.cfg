SPECIFICATION RSpec
CONSTANTS
    d1 = d1
    d2 = d2
    h = h
    Nodes = {1}
    Agents = {d1, d2, h}
    Drivers = {d1, d2}
    Others <- Rivals
    NoOwner = NoOwner
    Contents = {c1}
    NoHash = NoHash
    Specs = {}
    AutoChecked = {1}
    ParentOf <- Flat
    ComputedTiers = {0}
    AutoAbove = 0
    MaxAttempts = 2
    MaxVersion = 1
    MaxExpiries = 1
    Route <- ToFirst
    OnLimit <- FallbackPolicy
    OnTimeout <- PauseInTheEnd
    MaxWait = 3
    RetryAfter = {1, 2}
    DependsOn <- NoDeps
    Clashes = {}
    Parallel = 2
    Concurrency <- TwoAtATime
    Budget <- NoBudget
PROPERTIES
    LedgerSpec
    RunEnds
