\* dinitctl against a process record c: start, stop, unpin and unload of c
\* and of an unknown name, with and without --no-wait, while c's process
\* may exit at any time.
CONSTANTS
    Svc = {"c"}
    Proc = {"c"}
    BgProc = {}
    Scripted = {}
    StopCommand = {}
    HasSocket = {}
    AutoRestart = {}
    SmoothRecovery = {}
    MaxRequired = 4
    MaxRestartCount = 1
    HardDeps <- MCHardDeps
    SoftDeps <- MCSoftDeps
    StartsOnConsole = {"c"}
    RunsOnConsole = {}
    Env <- EnvReliable
    Names = {"c", "x"}
    Commands = {"start", "stop", "unpin", "unload"}
    Pins = {FALSE}
    MaxCrashes = 1
SPECIFICATION CtlSpec
INVARIANT CtlTypeOK RepliesPaired
PROPERTY ClientReturns ConsoleServed ConsoleFifo
