\* dinitctl wake, then dinitctl release, of a process record c.
CONSTANTS
    Svc = {"c"}
    Proc = {"c"}
    BgProc = {}
    Scripted = {}
    StopCommand = {}
    HasSocket = {}
    AutoRestart = {}
    SmoothRecovery = {}
    MaxRequired = 4
    MaxRestartCount = 1
    HardDeps <- MCHardDeps
    SoftDeps <- MCSoftDeps
    StartsOnConsole = {}
    RunsOnConsole = {}
    Env <- EnvReliable
    Names = {"c"}
    Commands = {"wake", "release"}
    Pins = {FALSE}
    MaxCrashes = 1
SPECIFICATION CtlSpec
PROPERTY ClientReturns
\* The hang is a state with no step: the engine is idle and dinitctl is
\* blocked reading the connection.
CHECK_DEADLOCK FALSE
