CONSTANTS
    Svc = {"c"}
    HardDeps <- MCHardDeps
    SoftDeps <- MCSoftDeps
    HasSocket = {}
    AutoRestart = {}
    MaxRequired = 4
    Proc = {"c"}
    BgProc = {}
    Scripted = {}
    StopCommand = {}
    SmoothRecovery = {"c"}
    MaxRestartCount = 1
    StartsOnConsole = {}
    RunsOnConsole = {}
    Env <- EnvRestart
SPECIFICATION Spec
INVARIANT PidClearedWhenStopped
