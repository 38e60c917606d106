\* c is a BGPROCESS record with auto-restart whose pid file may be
\* missing, name an exited child, a daemon that is dinit's child or one
\* that is not; d is a SCRIPTED record with a stop command.  Neither
\* depends on the other.
CONSTANTS
    Svc = {"c", "d"}
    HardDeps <- MCHardDeps
    SoftDeps <- MCSoftDeps
    HasSocket = {}
    AutoRestart = {"c"}
    MaxRequired = 4
    Proc = {"c", "d"}
    BgProc = {"c"}
    Scripted = {"d"}
    StopCommand = {"d"}
    SmoothRecovery = {}
    MaxRestartCount = 1
    StartsOnConsole = {}
    RunsOnConsole = {}
    Env <- EnvBgAny
SPECIFICATION Spec
INVARIANT StartedHasProcess
INVARIANT TransitionAwaitsEvent
CONSTRAINT ActiveLeakBound
