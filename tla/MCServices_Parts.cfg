SPECIFICATION MCSpec
CONSTANTS
    Parts = {"spool", "replay", "notify", "turn", "drift", "closing", "sessions", "serve", "asks", "requests", "dashboard"}
    Lines = {1, 2, 3}
    Workloads <- MCWorkloads
    MaxItems = 1
    MaxDrainDeaths = 1
    Tasks = {1, 2}
    ProjectOf <- MCProjectOf
    Absent = Absent
    MaxEvents = 6
    MaxDamage = 1
    Flushers = {f, g}
    BatchLimit = 1
    MaxNews = 2
    MaxFlushDeaths = 1
    Nodes = {1}
    Components = {"C1"}
    Touches <- MCTouches
    NoNode = NoNode
    MaxAttempts = 2
    MaxStale = 1
    Authors = {1, 2}
    Contents = {1, 2}
    MaxHistory = 3
    MaxRewinds = 1
    Closers = {"a", "b"}
    Closes <- MCCloses
    NoRef = NoRef
    MaxDisturbed = 1
    AgentLines <- MCAgentLines
    MaxRedrains = 1
    MaxStops = 2
    Daemons = {1, 2}
    Inodes = {1, 2, 3}
    NoFile = NoFile
    Questions = {q, r}
    NoQuestion = NoQuestion
    MaxStatusMoves = 2
    Calls = {c, d, e}
    MaxWindows = 1
    MaxCallDeaths = 1
    Tabs = {1, 2}
    IdleTimeout = 1
    MaxTicks = 3
    MaxNonces = 2
    MaxRestarts = 1
INVARIANTS
    NothingLeftBehind
    ReplaysAreCounted
    ReplayIsLive
    ArchiveIsLive
    NoneSkipped
    StopIsLogged
    
    VerifiedIsAnchored
    
    
    ClosedIsToldOf
    StoppedIsReleased
    RunIsOneSession
    
    ToldIsRecorded
    RunsOnce
    IdledOutStaysOut
PROPERTIES
    LinesAreDrained
    AllPosted
    TurnEnds
CHECK_DEADLOCK FALSE
