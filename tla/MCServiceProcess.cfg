\* c is an auto-restarting PROCESS record; d is an INTERNAL record that
\* starts and runs on the console.  Neither depends on the other.
CONSTANTS
    Svc = {"c", "d"}
    HardDeps <- MCHardDeps
    SoftDeps <- MCSoftDeps
    HasSocket = {}
    AutoRestart = {"c"}
    MaxRequired = 4
    Proc = {"c"}
    BgProc = {}
    Scripted = {}
    StopCommand = {}
    SmoothRecovery = {}
    MaxRestartCount = 1
    StartsOnConsole = {"d"}
    RunsOnConsole = {"d"}
    Env <- EnvRestart
SPECIFICATION Spec
INVARIANT TypeOK
INVARIANT RequiredByAccounting
INVARIANT ActiveServicesCount
INVARIANT PidClearedWhenStopped
INVARIANT StartedHasProcess
PROPERTY ConsoleFifo
