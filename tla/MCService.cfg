CONSTANTS
    Svc = {"a", "b", "c"}
    HardDeps <- MCHardDeps
    SoftDeps <- MCSoftDeps
    HasSocket = {}
    AutoRestart = {"c"}
    MaxRequired = 4
    Proc = {}
    BgProc = {}
    Scripted = {}
    StopCommand = {}
    SmoothRecovery = {}
    MaxRestartCount = 1
    StartsOnConsole = {}
    RunsOnConsole = {}
    Env <- EnvReliable
SPECIFICATION Spec
INVARIANT TypeOK
INVARIANT RequiredByAccounting
INVARIANT ActiveServicesCount
INVARIANT DependencyOutlivesDependents
INVARIANT WaitingHasCause
PROPERTY QueuesDrain
