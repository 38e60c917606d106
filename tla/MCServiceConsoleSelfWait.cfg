\* c runs on the console (runs_on_console, hence starts_on_console too) and
\* b depends on it.  c can be handed the console while nobody wants it
\* started any more; started() then stops it, it waits in STOPPING for b,
\* and a start of c cancels that stop while c still owns the console.
CONSTANTS
    Svc = {"b", "c"}
    HardDeps <- MCHardDeps
    SoftDeps <- MCSoftDeps
    HasSocket = {}
    AutoRestart = {}
    MaxRequired = 4
    Proc = {}
    BgProc = {}
    Scripted = {}
    StopCommand = {}
    SmoothRecovery = {}
    MaxRestartCount = 1
    StartsOnConsole = {"c"}
    RunsOnConsole = {"c"}
    Env <- EnvReliable
SPECIFICATION Spec
INVARIANT NoSelfWait
