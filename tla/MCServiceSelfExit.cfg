CONSTANTS
    Svc = {"b", "c"}
    HardDeps <- MCHardDeps
    SoftDeps <- MCSoftDeps
    HasSocket = {}
    AutoRestart = {}
    MaxRequired = 4
    Proc = {"c"}
    BgProc = {}
    Scripted = {}
    StopCommand = {}
    SmoothRecovery = {}
    MaxRestartCount = 1
    StartsOnConsole = {}
    RunsOnConsole = {}
    Env <- EnvReliable
SPECIFICATION Spec
INVARIANT DependencyOutlivesDependents
