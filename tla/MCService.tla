----------------------------- MODULE MCService -----------------------------
(* Model-checking instance of Service: three records a, b, c.             *)
(* a depends on b (hard), b depends on c (hard), a soft-depends on c.      *)
EXTENDS Service

MCHardDeps == [s \in Svc |-> CASE s = "a" -> <<"b">> [] s = "b" -> <<"c">> [] OTHER -> <<>>]
MCSoftDeps == [s \in Svc |-> IF s = "a" THEN <<"c">> ELSE <<>>]

\* Environment outcomes.  Reliable: every socket, fork and exec succeeds,
\* and restarts are never rate-limited.  The last three fields concern
\* BGPROCESS records only.
EnvReliable == [sock : {TRUE}, fork : {TRUE}, exec : {TRUE},
                window : {FALSE}, delay : {TRUE},
                reaped : {FALSE}, status : {TRUE}, pidfile : {"TRACKED"}]
\* Activation sockets may fail.
EnvSocketFail == [sock : BOOLEAN, fork : {TRUE}, exec : {TRUE},
                  window : {FALSE}, delay : {TRUE},
                  reaped : {FALSE}, status : {TRUE}, pidfile : {"TRACKED"}]
\* Launching works; restarts may come too fast or need the restart timer.
EnvRestart == [sock : {TRUE}, fork : {TRUE}, exec : {TRUE},
               window : BOOLEAN, delay : BOOLEAN,
               reaped : {FALSE}, status : {TRUE}, pidfile : {"TRACKED"}]
\* Execs may fail; restarts happen at once.
EnvExecFail == [sock : {TRUE}, fork : {TRUE}, exec : BOOLEAN,
                window : {FALSE}, delay : {TRUE},
                reaped : {FALSE}, status : {TRUE}, pidfile : {"TRACKED"}]
\* Forks may fail; restarts happen at once.
EnvForkFail == [sock : {TRUE}, fork : BOOLEAN, exec : {TRUE},
                window : {FALSE}, delay : {TRUE},
                reaped : {FALSE}, status : {TRUE}, pidfile : {"TRACKED"}]

\* A BGPROCESS daemon: the pid file may be missing or name an exited
\* child; a daemon it names is always dinit's child, and all_deps_stopped()
\* never finds it exited.  Restarts happen at once.
EnvBgTracked == [sock : {TRUE}, fork : {TRUE}, exec : {TRUE},
                 window : {FALSE}, delay : {TRUE},
                 reaped : {FALSE}, status : BOOLEAN,
                 pidfile : {"FAILED", "TERMINATED", "TRACKED"}]
\* Any pid file outcome, and a child may exit before all_deps_stopped()'s
\* waitpid().  Restarts happen at once; without smooth recovery the
\* status of a child found exited is never read.
EnvBgAny == [sock : {TRUE}, fork : {TRUE}, exec : {TRUE},
             window : {FALSE}, delay : {TRUE},
             reaped : BOOLEAN, status : {TRUE}, pidfile : PidResults]

\* A start that fails after the record was stopped leaks one count of
\* active_services (failed_to_start() calls no service_inactive()).  Runs
\* in which that failure is reachable stop exploring once the count is
\* past the number of records.
ActiveLeakBound == active_services <= Cardinality(Svc)

====
