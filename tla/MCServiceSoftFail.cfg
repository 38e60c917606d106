CONSTANTS
    Svc = {"a", "b", "c"}
    HardDeps <- MCHardDeps
    SoftDeps <- MCSoftDeps
    HasSocket = {"c"}
    AutoRestart = {}
    MaxRequired = 4
    Proc = {}
    BgProc = {}
    Scripted = {}
    StopCommand = {}
    SmoothRecovery = {}
    MaxRestartCount = 1
    StartsOnConsole = {}
    RunsOnConsole = {}
    Env <- EnvSocketFail
SPECIFICATION Spec
INVARIANT RequiredByAccounting
