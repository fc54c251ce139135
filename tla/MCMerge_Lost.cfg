SPECIFICATION MSpec
CONSTANTS
    Nodes = {1, 2}
    Processes = {p, q}
    DependsOn <- NoDeps
    Clash <- SecondClashes
    NoNode = NoNode
    MaxConflicts = 0
    MaxCrashes = 0
PROPERTIES
    MergesStay
