SPECIFICATION MSpec
CONSTANTS
    Nodes = {1, 2}
    Processes = {p}
    DependsOn <- SecondWaits
    Clash <- SecondClashes
    NoNode = NoNode
    MaxConflicts = 2
    MaxCrashes = 1
INVARIANTS
    MergedIsKept
    
PROPERTIES
    DependencyOrder
    MainOnlyGrows
    
