\* c is a BGPROCESS record with auto-restart and smooth recovery; its pid
\* file may be missing or name an exited child, and a daemon it names is
\* dinit's child.  A stop may arrive while the recovery launcher runs.
CONSTANTS
    Svc = {"c"}
    HardDeps <- MCHardDeps
    SoftDeps <- MCSoftDeps
    HasSocket = {}
    AutoRestart = {"c"}
    MaxRequired = 4
    Proc = {"c"}
    BgProc = {"c"}
    Scripted = {}
    StopCommand = {}
    SmoothRecovery = {"c"}
    MaxRestartCount = 1
    StartsOnConsole = {}
    RunsOnConsole = {}
    Env <- EnvBgTracked
SPECIFICATION Spec
INVARIANT PidClearedWhenStopped
CONSTRAINT ActiveLeakBound
