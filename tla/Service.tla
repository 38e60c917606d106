------------------------------- MODULE Service -------------------------------
(***************************************************************************)
(* The service management engine of dinit (src/src/service.cc): service    *)
(* records with their lifecycle state machine, activation reference        *)
(* counts (require/release), hard and soft dependency edges, pinning, and  *)
(* the service set's propagation, start and stop queues.                   *)
(*                                                                         *)
(* Every method of service_record is a pure operator from an engine state  *)
(* `st` (a record with one field per variable) to the engine state after   *)
(* the call, so that a handler's nested calls compose exactly as the C++   *)
(* calls do.  An action reads the current state (Cur), applies the        *)
(* handler, and commits the result (Commit).                               *)
(*                                                                         *)
(* process_queues() is the loop that every handler runs before returning   *)
(* to the event loop.  Each iteration of that loop (one dequeued record)   *)
(* is one step here; external events (control commands) are enabled only  *)
(* when every queue is empty, so a handler together with its              *)
(* process_queues() is atomic with respect to every other event.           *)
(***************************************************************************)
EXTENDS Integers, Sequences, SequencesExt, FiniteSets, FiniteSetsExt

CONSTANTS
    Svc,          \* the loaded service records
    HardDeps,     \* HardDeps[s]: the ordered depends_on list of s
    SoftDeps,     \* SoftDeps[s]: the ordered soft_deps list of s (edge targets)
    HasSocket,    \* services configured with an activation socket
    AutoRestart,  \* services whose auto_restart setting is true
    MaxRequired,  \* bound on required_by, for the type invariant
    Proc,         \* records with a process (base_process_service): PROCESS,
                  \* BGPROCESS and SCRIPTED; the others are INTERNAL
    BgProc,       \* the BGPROCESS records of Proc (each with a pid_file)
    Scripted,     \* the SCRIPTED records of Proc
    StopCommand,  \* the SCRIPTED records with a stop_command
    SmoothRecovery, \* PROCESS records with smooth_recovery set
    MaxRestartCount, \* max_restart_interval_count (at least 1)
    StartsOnConsole, \* records with onstart_flags.starts_on_console
    RunsOnConsole,   \* records with onstart_flags.runs_on_console
    Env           \* the outcomes the environment may give one step: records
                  \* [sock, fork, exec, window, delay, reaped, status] of
                  \* BOOLEANs and pidfile, one of PidResults

STOPPED  == "STOPPED"
STARTING == "STARTING"
STARTED  == "STARTED"
STOPPING == "STOPPING"
States   == {STOPPED, STARTING, STARTED, STOPPING}
\* service_event
Events   == {"STARTED", "STOPPED", "FAILEDSTART", "STARTCANCELLED", "STOPCANCELLED"}

\* The soft dependency edges, as <<from, to>> pairs.
SoftEdges == UNION { { <<f, t>> : t \in Range(SoftDeps[f]) } : f \in Svc }

\* service_record::dependents: the records whose depends_on contains s.
DependentsOf == [s \in Svc |-> SetToSeq({ x \in Svc : s \in Range(HardDeps[x]) })]
Dependents(s) == DependentsOf[s]

\* service_record::soft_dpts: the soft edges that point at s.
SoftDptsOf == [s \in Svc |-> SetToSeq({ e \in SoftEdges : e[2] = s })]
SoftDpts(s) == SoftDptsOf[s]

\* Records of type PROCESS.
ProcessType == Proc \ (BgProc \cup Scripted)

\* What read_pid_file() finds: no readable pid file or no such process
\* ("FAILED"), a child already exited ("TERMINATED"), a live child it
\* watches ("TRACKED"), or a live process that is not its child
\* ("UNTRACKED").
PidResults == {"FAILED", "TERMINATED", "TRACKED", "UNTRACKED"}

\* services->get_auto_restart(): restarts are enabled (no shutdown yet).
RestartEnabled == TRUE

VARIABLES
    service_state, desired_state, required_by, start_explicit,
    waiting_for_deps, force_stop, restarting, pinned_started, pinned_stopped,
    prop_require, prop_release, prop_failure, prop_start, prop_stop,
    holding_acq, waiting_on,   \* per soft edge
    socket_open,               \* socket_fd != -1
    active_services,           \* service_set::active_services
    prop_queue, start_queue, stop_queue,
    \* base_process_service: child is "NONE" when pid = -1, "FORKED" before
    \* the child has exec'd, "EXECED" after; pipe is the exec-status pipe,
    \* "CLOSED" unless waiting_for_execstat, else "OPEN", "EOF" (exec
    \* succeeded) or "ERRNO" (exec failed) once the child has reached exec.
    \* A BGPROCESS record's pid may also name its daemon: "EXECED" when
    \* read_pid_file() watches it (tracking_child), "UNTRACKED" when the
    \* daemon is not dinit's child, "REAPED" after all_deps_stopped()'s
    \* waitpid() has collected it while pid still names it.
    child, pipe, exit_status, waiting_restart_timer, restart_count,
    \* bgproc_service::doing_recovery
    doing_recovery,
    \* service_listener registrations: listening[s] when a control
    \* connection holds a handle to s; to_client is that connection's
    \* outgoing packet stream (replies and SERVICEEVENT information packets).
    listening, to_client,
    \* service_set::console_queue, and who is handed the console: the
    \* records granted it by acquiredConsole() and not released since, and
    \* "LOG" while dinit's own log output owns it (the queue was empty).
    console_queue, console_holders

vars == <<service_state, desired_state, required_by, start_explicit,
          waiting_for_deps, force_stop, restarting, pinned_started,
          pinned_stopped, prop_require, prop_release, prop_failure,
          prop_start, prop_stop, holding_acq, waiting_on, socket_open,
          active_services, prop_queue, start_queue, stop_queue,
          child, pipe, exit_status, waiting_restart_timer, restart_count,
          doing_recovery, listening, to_client, console_queue, console_holders>>

Cur == [service_state |-> service_state, desired_state |-> desired_state,
        required_by |-> required_by, start_explicit |-> start_explicit,
        waiting_for_deps |-> waiting_for_deps, force_stop |-> force_stop,
        restarting |-> restarting, pinned_started |-> pinned_started,
        pinned_stopped |-> pinned_stopped, prop_require |-> prop_require,
        prop_release |-> prop_release, prop_failure |-> prop_failure,
        prop_start |-> prop_start, prop_stop |-> prop_stop,
        holding_acq |-> holding_acq, waiting_on |-> waiting_on,
        socket_open |-> socket_open, active_services |-> active_services,
        prop_queue |-> prop_queue, start_queue |-> start_queue,
        stop_queue |-> stop_queue, child |-> child, pipe |-> pipe,
        exit_status |-> exit_status,
        waiting_restart_timer |-> waiting_restart_timer,
        restart_count |-> restart_count, doing_recovery |-> doing_recovery,
        listening |-> listening, to_client |-> to_client,
        console_queue |-> console_queue, console_holders |-> console_holders]

Commit(st) ==
    /\ service_state' = st.service_state
    /\ desired_state' = st.desired_state
    /\ required_by' = st.required_by
    /\ start_explicit' = st.start_explicit
    /\ waiting_for_deps' = st.waiting_for_deps
    /\ force_stop' = st.force_stop
    /\ restarting' = st.restarting
    /\ pinned_started' = st.pinned_started
    /\ pinned_stopped' = st.pinned_stopped
    /\ prop_require' = st.prop_require
    /\ prop_release' = st.prop_release
    /\ prop_failure' = st.prop_failure
    /\ prop_start' = st.prop_start
    /\ prop_stop' = st.prop_stop
    /\ holding_acq' = st.holding_acq
    /\ waiting_on' = st.waiting_on
    /\ socket_open' = st.socket_open
    /\ active_services' = st.active_services
    /\ prop_queue' = st.prop_queue
    /\ start_queue' = st.start_queue
    /\ stop_queue' = st.stop_queue
    /\ child' = st.child
    /\ pipe' = st.pipe
    /\ exit_status' = st.exit_status
    /\ waiting_restart_timer' = st.waiting_restart_timer
    /\ restart_count' = st.restart_count
    /\ doing_recovery' = st.doing_recovery
    /\ listening' = st.listening
    /\ to_client' = st.to_client
    /\ console_queue' = st.console_queue
    /\ console_holders' = st.console_holders

-----------------------------------------------------------------------------
(* Queues of the service set: intrusive lists, so a record is appended    *)
(* only if it is not already queued.                                       *)

\* Mutant: append without the is_queued check.
EnqueueDup(q, s) == Append(q, s)

Enqueue(q, s) == IF s \in Range(q) THEN q ELSE Append(q, s)

AddToPropQueue(st, s)  == [st EXCEPT !.prop_queue = Enqueue(@, s)]
AddToStartQueue(st, s) == [st EXCEPT !.start_queue = Enqueue(@, s)]
AddToStopQueue(st, s)  == [st EXCEPT !.stop_queue = Enqueue(@, s)]

\* queue_for_console(): append_console_queue().
QueueForConsole(st, s) == [st EXCEPT !.console_queue = Enqueue(@, s)]

\* unqueue_console(): a waiter leaves the console queue.
UnqueueConsole(st, s) ==
    [st EXCEPT !.console_queue = SelectSeq(@, LAMBDA x : x # s)]

\* notifyListeners(event): the control connection listening on s queues a
\* SERVICEEVENT information packet.
Notify(st, s, event) ==
    IF st.listening[s]
    THEN [st EXCEPT !.to_client = Append(@, [kind |-> "EVENT", svc |-> s,
                                               val |-> event])]
    ELSE st

ServiceInactive(st) == [st EXCEPT !.active_services = @ - 1]
ServiceActive(st)   == [st EXCEPT !.active_services = @ + 1]

-----------------------------------------------------------------------------
(* service_record methods that do not recurse.                             *)

DoAutoRestart(s) == s \in AutoRestart /\ RestartEnabled

\* can_interrupt_start(): only a process waiting on its restart timer.
CanInterruptStart(st, s) == s \in Proc /\ st.waiting_restart_timer[s]

\* can_interrupt_stop(): the stop is still waiting for dependents.
CanInterruptStop(st, s) == st.waiting_for_deps[s] /\ ~st.force_stop[s]

\* interrupt_start(): a process stops its restart timer; every record then
\* leaves the console queue.
InterruptStart(st, s) ==
    UnqueueConsole(IF s \in Proc /\ st.waiting_restart_timer[s]
                   THEN [st EXCEPT !.waiting_restart_timer[s] = FALSE] ELSE st,
                   s)

Require(st, s) ==
    IF st.required_by[s] = 0
    THEN AddToPropQueue([st EXCEPT !.required_by[s] = 1,
                                   !.prop_require[s] = ~st.prop_release[s],
                                   !.prop_release[s] = FALSE], s)
    ELSE [st EXCEPT !.required_by[s] = @ + 1]

ForceStop(st, s) ==
    IF st.service_state[s] # STOPPED
    THEN AddToStopQueue([st EXCEPT !.force_stop[s] = TRUE], s)
    ELSE st

DependentStopped(st, s) ==
    IF st.service_state[s] = STOPPING /\ st.waiting_for_deps[s]
    THEN AddToStopQueue(st, s) ELSE st

DependencyStarted(st, s) ==
    IF st.service_state[s] = STARTING /\ st.waiting_for_deps[s]
    THEN AddToStartQueue(st, s) ELSE st

\* stopCheckDependents(): every dependent is stopped.
\* Mutant: the dependents' desired state is checked, not their state.
StopCheckDependentsDesired(st, s) ==
    \A d \in Range(Dependents(s)) : st.desired_state[d] = STOPPED

StopCheckDependents(st, s) ==
    \A d \in Range(Dependents(s)) : st.service_state[d] = STOPPED

\* stopDependents(): issue a stop to every dependent (forced if we are).
StopDependents(st, s) ==
    FoldLeft(LAMBDA acc, d :
                AddToPropQueue(
                    [(IF st.force_stop[s] THEN ForceStop(acc, d) ELSE acc)
                        EXCEPT !.prop_stop[d] = TRUE], d),
             st, Dependents(s))

\* startCheckDependencies(true): ask every unstarted dependency to start.
StartCheckDepsRequest(st, s) ==
    LET hard == FoldLeft(LAMBDA acc, d :
                    IF acc.service_state[d] # STARTED
                    THEN AddToPropQueue([acc EXCEPT !.prop_start[d] = TRUE], d)
                    ELSE acc,
                  st, HardDeps[s])
    IN  FoldLeft(LAMBDA acc, t :
            IF acc.service_state[t] # STARTED
            THEN AddToPropQueue([acc EXCEPT !.prop_start[t] = TRUE,
                                            !.waiting_on[<<s, t>>] = TRUE], t)
            ELSE [acc EXCEPT !.waiting_on[<<s, t>>] = FALSE],
          hard, SoftDeps[s])

\* The result of startCheckDependencies(true).
AllDepsAlreadyStarted(st, s) ==
    \A d \in Range(HardDeps[s]) \cup Range(SoftDeps[s]) :
        st.service_state[d] = STARTED

\* startCheckDependencies(false): the soft-edge loop, returning early at
\* the first edge still waited on.
RECURSIVE CheckSoftDeps(_, _, _)
CheckSoftDeps(st, s, i) ==
    IF i > Len(SoftDeps[s]) THEN [st |-> st, ok |-> TRUE]
    ELSE LET e == <<s, SoftDeps[s][i]>>
         IN  CASE ~st.waiting_on[e] -> CheckSoftDeps(st, s, i + 1)
               [] st.service_state[e[2]] # STARTING ->
                      CheckSoftDeps([st EXCEPT !.waiting_on[e] = FALSE], s, i + 1)
               [] OTHER -> [st |-> st, ok |-> FALSE]

StartCheckDependencies(st, s) ==
    IF \E d \in Range(HardDeps[s]) : st.service_state[d] # STARTED
    THEN [st |-> st, ok |-> FALSE]
    ELSE CheckSoftDeps(st, s, 1)

-----------------------------------------------------------------------------
(* release() and do_stop() call each other.                                *)

\* if (stopDependents()) services->addToStopQueue(this);
QueueIfStopped(st, s, allStopped) ==
    IF allStopped THEN AddToStopQueue(st, s) ELSE st

\* The rest of do_stop(), from the state test on, in the state st1.
DoStopThen(st1, s) ==
    LET \* Enter STOPPING and wait for the dependents to stop.
        Stopping(x) ==
            LET x1 == [x EXCEPT !.service_state[s] = STOPPING,
                                !.waiting_for_deps[s] = TRUE]
            IN  QueueIfStopped(StopDependents(x1, s), s, StopCheckDependents(x1, s))
    IN  CASE st1.service_state[s] = STARTED -> Stopping(st1)
          [] st1.service_state[s] = STARTING /\ ~CanInterruptStart(st1, s) ->
                 StopDependents(st1, s)
          [] st1.service_state[s] = STARTING ->
                 Stopping(InterruptStart(Notify(st1, s, "STARTCANCELLED"), s))
          [] OTHER -> st1

\* if (required_by == 0) return; after the explicit activation is released.
DoStopReleased(st1, s, dropped) ==
    IF dropped /\ st1.required_by[s] = 0 THEN st1 ELSE DoStopThen(st1, s)

RECURSIVE Release(_, _), DoStop(_, _)

Release(st, s) ==
    IF st.required_by[s] # 1
    THEN [st EXCEPT !.required_by[s] = @ - 1]
    ELSE LET st1 == AddToPropQueue([st EXCEPT
                        !.required_by[s] = 0,
                        !.desired_state[s] = STOPPED,
                        !.prop_release[s] = ~st.prop_require[s],
                        !.prop_require[s] = FALSE], s)
         IN  IF st1.service_state[s] = STOPPED
             THEN ServiceInactive(st1)
             ELSE DoStop(st1, s)

DoStop(st, s) ==
    LET dropExplicit == st.start_explicit[s] /\ ~DoAutoRestart(s)
    IN  IF st.pinned_started[s] THEN st
        ELSE DoStopReleased(IF dropExplicit
                            THEN Release([st EXCEPT !.start_explicit[s] = FALSE], s)
                            ELSE st, s, dropExplicit)

\* Mutant: holding_acq is not reset after the soft dependency is released.
ReleaseDependenciesKeepAcq(st, s) ==
    LET hard == FoldLeft(LAMBDA acc, d : Release(acc, d), st, HardDeps[s])
    IN  FoldLeft(LAMBDA acc, t :
            IF acc.holding_acq[<<s, t>>] THEN Release(acc, t) ELSE acc,
          hard, SoftDeps[s])

\* release_dependencies()
ReleaseDependencies(st, s) ==
    LET hard == FoldLeft(LAMBDA acc, d : Release(acc, d), st, HardDeps[s])
    IN  FoldLeft(LAMBDA acc, t :
            IF acc.holding_acq[<<s, t>>]
            THEN [Release(acc, t) EXCEPT !.holding_acq[<<s, t>>] = FALSE]
            ELSE acc,
          hard, SoftDeps[s])

-----------------------------------------------------------------------------
(* The rest of the lifecycle.                                              *)

\* Mutant: was_active looks only at the current state.
WasActiveStateOnly(st, s) == st.service_state[s] # STOPPED

\* was_active in start(): the record already counts as active.
WasActive(st, s) ==
    st.service_state[s] # STOPPED \/ st.desired_state[s] # STOPPED

\* The end of start(): the record goes STARTING, from the state st3.
StartTransition(st3, s) ==
    LET st4 == [st3 EXCEPT !.service_state[s] = STARTING,
                           !.waiting_for_deps[s] = TRUE]
    IN  IF AllDepsAlreadyStarted(st4, s)
        THEN AddToStartQueue(StartCheckDepsRequest(st4, s), s)
        ELSE StartCheckDepsRequest(st4, s)

\* start() once the explicit activation is taken, in the state st1.
StartActivated(st1, s) ==
    LET wasActive == WasActive(st1, s)
        st2 == [st1 EXCEPT !.desired_state[s] = STARTED]
    IN  CASE st1.desired_state[s] = STARTED /\ st1.service_state[s] # STOPPED -> st1
          [] st2.service_state[s] \in {STARTING, STARTED} -> st2
          [] st2.service_state[s] = STOPPING /\ ~CanInterruptStop(st2, s) -> st2
          [] st2.service_state[s] = STOPPING ->
                 StartTransition(Notify(st2, s, "STOPCANCELLED"), s)
          [] ~wasActive -> StartTransition(ServiceActive(st2), s)
          [] OTHER -> StartTransition(st2, s)

\* start(activate)
Start(st, s, activate) ==
    StartActivated(IF activate /\ ~st.start_explicit[s]
                   THEN [Require(st, s) EXCEPT !.start_explicit[s] = TRUE]
                   ELSE st, s)

\* Handing the console on (release_console() -> pull_console_queue() ->
\* acquiredConsole() -> allDepsStarted() -> started() -> release_console())
\* recurses through the lifecycle methods.
RECURSIVE ReleaseConsole(_, _, _), PullConsoleQueue(_, _),
          AcquiredConsole(_, _, _), AllDepsStarted(_, _, _, _),
          StartPsProcess(_, _, _), RestartPsProcess(_, _, _),
          DoRestart(_, _, _), FailedToStart(_, _, _, _), Started(_, _, _),
          LaunchChecked(_, _, _)

\* Mutant: the negation of runs_on_console is lost.
ReleaseStartConsoleRuns(st, s, ev) ==
    IF s \in StartsOnConsole /\ s \in RunsOnConsole
    THEN ReleaseConsole(st, s, ev) ELSE st

\* started(): a record that only starts on the console gives it back.
ReleaseStartConsole(st, s, ev) ==
    IF s \in StartsOnConsole /\ s \notin RunsOnConsole
    THEN ReleaseConsole(st, s, ev) ELSE st

\* The rest of started(), in the state st1 it has reached once the console
\* is given back, the state is STARTED and the listeners are told: stop
\* again if the record is no longer wanted, else wake the dependents.
\* Mutant: soft dependents are not told that the record has started.
StartedThenNoSoftNotify(st1, s) ==
    LET notifyHard == FoldLeft(LAMBDA acc, d : DependencyStarted(acc, d),
                               st1, Dependents(s))
    IN  IF st1.force_stop[s] \/ st1.desired_state[s] = STOPPED
        THEN DoStop(st1, s)
        ELSE notifyHard

\* Mutant: the desired-state test is inverted.
StartedThenInverted(st1, s) ==
    LET notifyHard == FoldLeft(LAMBDA acc, d : DependencyStarted(acc, d),
                               st1, Dependents(s))
    IN  IF st1.force_stop[s] \/ st1.desired_state[s] = STARTED
        THEN DoStop(st1, s)
        ELSE FoldLeft(LAMBDA acc, e : DependencyStarted(acc, e[1]),
                      notifyHard, SoftDpts(s))

StartedThen(st1, s) ==
    LET notifyHard == FoldLeft(LAMBDA acc, d : DependencyStarted(acc, d),
                               st1, Dependents(s))
    IN  IF st1.force_stop[s] \/ st1.desired_state[s] = STOPPED
        THEN DoStop(st1, s)
        ELSE FoldLeft(LAMBDA acc, e : DependencyStarted(acc, e[1]),
                      notifyHard, SoftDpts(s))

\* started()
Started(st, s, ev) ==
    StartedThen(Notify([ReleaseStartConsole(st, s, ev)
                           EXCEPT !.service_state[s] = STARTED], s, "STARTED"), s)

\* if (start_explicit) { start_explicit = false; release(); }
\* Mutant: the explicit activation is released but the flag stays set.
ReleaseExplicitKeepFlag(st, s) ==
    IF st.start_explicit[s] THEN Release(st, s) ELSE st

ReleaseExplicit(st, s) ==
    IF st.start_explicit[s]
    THEN Release([st EXCEPT !.start_explicit[s] = FALSE], s)
    ELSE st

\* failed_to_start(): a record that failed on its own (not because a
\* dependency failed) gives the console back.
ReleaseFailConsole(st, s, depfailed, ev) ==
    IF ~depfailed /\ s \in StartsOnConsole THEN ReleaseConsole(st, s, ev) ELSE st

\* failed_to_start(depfailed)
FailedToStart(st, s, depfailed, ev) ==
    LET st1 == [ReleaseFailConsole(st, s, depfailed, ev) EXCEPT
                    !.service_state[s] = STOPPED]
        st2 == Notify(ReleaseExplicit(st1, s), s, "FAILEDSTART")
        \* Cancel the start of dependents.
        st3 == FoldLeft(LAMBDA acc, d :
                    IF acc.service_state[d] = STARTING
                    THEN AddToPropQueue([acc EXCEPT !.prop_failure[d] = TRUE], d)
                    ELSE acc,
                  st2, Dependents(s))
    IN  \* Soft dependents need not wait for us any more.
        FoldLeft(LAMBDA acc, e :
            IF acc.waiting_on[e]
            THEN Release(DependencyStarted([acc EXCEPT !.holding_acq[e] = FALSE,
                                                      !.waiting_on[e] = FALSE],
                                           e[1]), s)
            ELSE acc,
          st3, SoftDpts(s))

\* will_restart in stopped()
WillRestart(st, s) == st.desired_state[s] = STARTED /\ RestartEnabled

\* force_stop = false, the first thing stopped() does.
ClearForceStop(st, s) == [st EXCEPT !.force_stop[s] = FALSE]

\* stopped(): a record that runs on the console gives it back, whether or
\* not it still owns it; one that only starts on it does not, though it
\* still owns it when its start was interrupted on the restart timer.
\* Mutant: stopped() tests starts_on_console without runs_on_console.
ReleaseRunConsoleStartsOnly(st, s, ev) ==
    IF s \in StartsOnConsole /\ s \notin RunsOnConsole
    THEN ReleaseConsole(st, s, ev) ELSE st

ReleaseRunConsole(st, s, ev) ==
    IF s \in RunsOnConsole THEN ReleaseConsole(st, s, ev) ELSE st

\* The rest of stopped(), once force_stop is cleared and the console given
\* back.
\* Its last stage, from `if (will_restart)` on, with st4 the state once
\* the record is STOPPED.
StoppedEnd(st4, s, willRestart) ==
    LET st5 == [st4 EXCEPT !.socket_open[s] = FALSE]
    IN  Notify(CASE willRestart -> Start([st4 EXCEPT !.restarting[s] = TRUE], s, FALSE)
                 [] st5.start_explicit[s] -> ReleaseExplicit(st5, s)
                 [] st5.required_by[s] = 0 -> ServiceInactive(st5)
                 [] OTHER -> st5,
               s, "STOPPED")

\* will_restart is decided, the dependencies are signalled and the record
\* is STOPPED, in the state st2 once the acquisitions are broken.
StoppedSignal(st2, s) ==
    StoppedEnd([FoldLeft(LAMBDA acc, d : DependentStopped(acc, d), st2, HardDeps[s])
                   EXCEPT !.service_state[s] = STOPPED],
               s, WillRestart(st2, s))

StoppedThen(st1, s) ==
    \* Break the acquisitions that soft dependents hold on us.
    StoppedSignal(FoldLeft(LAMBDA acc, e :
                      IF acc.holding_acq[e]
                      THEN Release([acc EXCEPT !.holding_acq[e] = FALSE], s)
                      ELSE acc,
                    st1, SoftDpts(s)), s)

\* stopped()
Stopped(st, s, ev) ==
    StoppedThen(ClearForceStop(ReleaseRunConsole(st, s, ev), s), s)

\* open_socket(): ev.sock is whether socket/bind/chown/chmod/listen succeed.
OpenSocketOk(st, s, ev) ==
    s \notin HasSocket \/ st.socket_open[s] \/ ev.sock

OpenSocket(st, s, ev) ==
    IF s \in HasSocket /\ ~st.socket_open[s] /\ ev.sock
    THEN [st EXCEPT !.socket_open[s] = TRUE] ELSE st

\* start_ps_process(cmd, on_console): ev.fork is whether the status pipe
\* and the fork succeed.  The parent records the pid and waits for the
\* exec status.
ForkProcess(st, s, ev) ==
    IF ev.fork
    THEN [st |-> [st EXCEPT !.child[s] = "FORKED", !.pipe[s] = "OPEN"],
          ok |-> TRUE]
    ELSE [st |-> st, ok |-> FALSE]

\* do_restart(): the restart timer expired, or no delay was needed.
DoRestart(st, s, ev) ==
    LET st1 == [st EXCEPT !.restarting[s] = FALSE,
                          !.waiting_restart_timer[s] = FALSE,
                          !.restart_count[s] = @ + 1]
        f == ForkProcess(st1, s, ev)
    IN  CASE f.ok -> f.st
          [] f.st.service_state[s] = STARTING -> FailedToStart(f.st, s, FALSE, ev)
          [] OTHER -> ForceStop([f.st EXCEPT !.desired_state[s] = STOPPED], s)

\* restart_ps_process(): ev.window is whether the last restart interval is
\* still running, ev.delay whether restart_delay has passed since the last
\* start.  Too many restarts in one interval refuse the restart.
\* Mutant: the restart limit is checked with > instead of >=.
RestartPsProcessOverLimit(st, s, ev) ==
    IF ev.window /\ st.restart_count[s] > MaxRestartCount
    THEN [st |-> st, ok |-> FALSE]
    ELSE LET st1 == IF ev.window THEN st ELSE [st EXCEPT !.restart_count[s] = 0]
         IN  [st |-> IF ev.delay
                     THEN DoRestart(st1, s, ev)
                     ELSE [st1 EXCEPT !.waiting_restart_timer[s] = TRUE],
              ok |-> TRUE]

RestartPsProcess(st, s, ev) ==
    IF ev.window /\ st.restart_count[s] >= MaxRestartCount
    THEN [st |-> st, ok |-> FALSE]
    ELSE LET st1 == IF ev.window THEN st ELSE [st EXCEPT !.restart_count[s] = 0]
         IN  [st |-> IF ev.delay
                     THEN DoRestart(st1, s, ev)
                     ELSE [st1 EXCEPT !.waiting_restart_timer[s] = TRUE],
              ok |-> TRUE]

\* start_ps_process(): a record without a process is started at once; a
\* process is restarted (rate-limited) or launched afresh.
StartPsProcess(st, s, ev) ==
    CASE s \notin Proc -> [st |-> Started(st, s, ev), ok |-> TRUE]
      [] st.restarting[s] -> RestartPsProcess(st, s, ev)
      [] OTHER -> ForkProcess([st EXCEPT !.restart_count[s] = 0], s, ev)

\* if (! start_ps_process()) failed_to_start();
LaunchChecked(sp, s, ev) ==
    IF sp.ok THEN sp.st ELSE FailedToStart(sp.st, s, FALSE, ev)

\* allDepsStarted(has_console).  A failure to open the activation socket
\* calls failed_to_start() and then still goes on to start_ps_process().
AllDepsStarted(st, s, ev, hasConsole) ==
    LET st1 == [st EXCEPT !.waiting_for_deps[s] = FALSE]
        st2 == IF OpenSocketOk(st1, s, ev)
               THEN OpenSocket(st1, s, ev)
               ELSE FailedToStart(st1, s, FALSE, ev)
    IN  CASE s \in StartsOnConsole /\ ~hasConsole ->
                 QueueForConsole([st EXCEPT !.waiting_for_deps[s] = TRUE], s)
          [] CanInterruptStart(st1, s) -> [st1 EXCEPT !.waiting_for_deps[s] = TRUE]
          [] OTHER -> LaunchChecked(StartPsProcess(st2, s, ev), s, ev)

\* release_console(): pull_console_queue() hands the console to the first
\* waiter, which runs acquiredConsole() at once; with no waiter the console
\* goes back to the log.
ReleaseConsole(st, s, ev) ==
    PullConsoleQueue([st EXCEPT !.console_holders = @ \ {s}], ev)

PullConsoleQueue(st, ev) ==
    IF st.console_queue = <<>>
    THEN [st EXCEPT !.console_holders = @ \cup {"LOG"}]
    ELSE LET h == Head(st.console_queue)
         IN  AcquiredConsole([st EXCEPT !.console_queue = Tail(@),
                                        !.console_holders = @ \cup {h}], h, ev)

\* Mutant: the record resumes its start without saying it has the console.
AcquiredConsoleNoFlag(st, s, ev) ==
    IF st.service_state[s] # STARTING THEN ReleaseConsole(st, s, ev)
    ELSE LET chk == StartCheckDependencies(st, s)
         IN  IF chk.ok THEN AllDepsStarted(chk.st, s, ev, FALSE)
             ELSE ReleaseConsole(chk.st, s, ev)

\* acquiredConsole()
AcquiredConsole(st, s, ev) ==
    IF st.service_state[s] # STARTING THEN ReleaseConsole(st, s, ev)
    ELSE LET chk == StartCheckDependencies(st, s)
         IN  IF chk.ok THEN AllDepsStarted(chk.st, s, ev, TRUE)
             ELSE ReleaseConsole(chk.st, s, ev)

\* all_deps_stopped(): a process that is still running is signalled and the
\* rest happens when it exits; otherwise the record has stopped.
\* Mutant: the record is marked stopped without waiting for its process.
AllDepsStoppedIgnorePid(st, s, ev) ==
    Stopped([st EXCEPT !.waiting_for_deps[s] = FALSE], s, ev)

\* The waitpid(pid, WNOHANG) of a BGPROCESS record in all_deps_stopped():
\* a daemon that is not dinit's child (ECHILD) or a child that has exited
\* (ev.reaped; it is collected here and its watcher never fires) lets the
\* record stop now.  pid keeps naming the process.
BgGone(st, s, ev) ==
    \/ st.child[s] \in {"UNTRACKED", "REAPED"}
    \/ st.child[s] = "EXECED" /\ ev.reaped

BgReap(st, s, ev) ==
    IF st.child[s] = "EXECED" /\ ev.reaped
    THEN [st EXCEPT !.child[s] = "REAPED"] ELSE st

\* Mutant: a BGPROCESS record always waits for the exit of its daemon.
BaseStopWaitNoWaitpid(st1, s, ev) ==
    IF s \notin Proc \/ st1.child[s] = "NONE"
    THEN [st |-> st1, wait |-> FALSE]
    ELSE [st |-> st1, wait |-> TRUE]

\* base_process_service::all_deps_stopped(): a process that is still
\* running is signalled and the rest happens when it exits (wait).
BaseStopWait(st1, s, ev) ==
    IF \/ s \notin Proc
       \/ st1.child[s] = "NONE"
       \/ s \in BgProc /\ BgGone(st1, s, ev)
    THEN [st |-> BgReap(st1, s, ev), wait |-> FALSE]
    ELSE [st |-> st1, wait |-> TRUE]

\* scripted_service::all_deps_stopped(): run the stop command if there is
\* one, and wait for it if it could be launched.
ScriptedStopWait(st1, s, ev) ==
    IF s \in StopCommand
    THEN LET f == ForkProcess(st1, s, ev) IN [st |-> f.st, wait |-> f.ok]
    ELSE [st |-> st1, wait |-> FALSE]

\* ... else stopped();
StoppedUnlessWaiting(r, s, ev) ==
    IF r.wait THEN r.st ELSE Stopped(r.st, s, ev)

\* all_deps_stopped()
AllDepsStopped(st, s, ev) ==
    LET st1 == [st EXCEPT !.waiting_for_deps[s] = FALSE]
    IN  StoppedUnlessWaiting(IF s \in Scripted THEN ScriptedStopWait(st1, s, ev)
                             ELSE BaseStopWait(st1, s, ev), s, ev)

\* emergency_stop()
EmergencyStop(st, s, ev) ==
    LET st1 == IF ~DoAutoRestart(s) /\ st.start_explicit[s]
               THEN Release([st EXCEPT !.start_explicit[s] = FALSE], s)
               ELSE st
    IN  Stopped(StopDependents(ForceStop(st1, s), s), s, ev)

\* if (! restart_ps_process()) { emergency_stop(); ... }
RecoverChecked(r, s, ev) ==
    IF r.ok THEN r.st ELSE EmergencyStop(r.st, s, ev)

\* The lifecycle call a handle_exit_status() ends in.  "started_begin" is
\* bgproc_service's started() followed by `goto begin`, "begin" the goto
\* alone, "none" a return that changes nothing more.
RECURSIVE ExitCall(_, _, _, _), BgBegin(_, _, _)

\* After started(): go back to `begin` or not.
StartedBegin(st1, s, ev, again) ==
    IF again THEN BgBegin(st1, s, ev) ELSE st1

ExitCall(st, s, ev, call) ==
    CASE call \in {"started", "started_begin"} ->
             StartedBegin(Started(st, s, ev), s, ev, call = "started_begin")
      [] call = "failed_to_start" -> FailedToStart(st, s, FALSE, ev)
      [] call = "stopped" -> Stopped(st, s, ev)
      [] call = "emergency_stop" -> EmergencyStop(st, s, ev)
      [] call = "restart" -> RecoverChecked(RestartPsProcess(st, s, ev), s, ev)
      [] call = "begin" -> BgBegin(st, s, ev)
      [] OTHER -> st

\* Smooth recovery applies to a STARTED record that is still wanted.
Recovering(st, s) ==
    s \in SmoothRecovery /\ st.service_state[s] = STARTED
                        /\ st.desired_state[s] = STARTED

\* process_service::handle_exit_status(), with the status saved in
\* exit_status (TRUE: exited with status 0).
ProcessExitCall(st, s) ==
    CASE st.service_state[s] = STARTING ->
             IF st.exit_status[s] THEN "started" ELSE "failed_to_start"
      [] st.service_state[s] = STOPPING -> "stopped"
      [] Recovering(st, s) -> "restart"
      [] OTHER -> "emergency_stop"

\* bgproc_service::read_pid_file(), whose outcome is ev.pidfile (pid is -1
\* when it is called: the launcher has exited).  A child found exited
\* leaves its status (ev.status) in exit_status; a tracked child is
\* watched from now on.
ReadPidFile(st, s, ev) ==
    CASE ev.pidfile = "TERMINATED" -> [st EXCEPT !.exit_status[s] = ev.status]
      [] ev.pidfile = "TRACKED"    -> [st EXCEPT !.child[s] = "EXECED"]
      [] ev.pidfile = "UNTRACKED"  -> [st EXCEPT !.child[s] = "UNTRACKED"]
      [] OTHER -> st

\* Mutant: a daemon found exited is marked started without going back
\* to `begin`.
BgCallNoBegin(st, s, ev) ==
    CASE st.service_state[s] = STARTING ->
             IF ~st.exit_status[s] \/ ev.pidfile = "FAILED"
             THEN "failed_to_start" ELSE "started"
      [] st.service_state[s] = STOPPING -> "stopped"
      [] Recovering(st, s) -> "restart"
      [] OTHER -> "emergency_stop"

\* bgproc_service::handle_exit_status() from `begin:` with doing_recovery
\* false: the call it makes, and the state it makes it in (the pid file
\* read after a clean exit in STARTING, doing_recovery set before a
\* smooth restart).  A second read of the pid file in one call sees the
\* same outcome.
BgCall(st, s, ev) ==
    CASE st.service_state[s] = STARTING ->
             CASE ~st.exit_status[s] \/ ev.pidfile = "FAILED" -> "failed_to_start"
               [] ev.pidfile = "TERMINATED" -> "started_begin"
               [] OTHER -> "started"
      [] st.service_state[s] = STOPPING -> "stopped"
      [] Recovering(st, s) -> "restart"
      [] OTHER -> "emergency_stop"

BgPrep(st, s, ev) ==
    CASE st.service_state[s] = STARTING /\ st.exit_status[s] -> ReadPidFile(st, s, ev)
      [] st.service_state[s] \in {STARTING, STOPPING} -> st
      [] Recovering(st, s) -> [st EXCEPT !.doing_recovery[s] = TRUE]
      [] OTHER -> st

BgBegin(st, s, ev) == ExitCall(BgPrep(st, s, ev), s, ev, BgCall(st, s, ev))

\* The doing_recovery branch (doing_recovery already cleared in st1): the
\* new launcher has exited.  A failure, or a pid file that cannot be
\* used, stops the record; an exited daemon goes back to `begin`.
BgRecoveryCall(st1, s, ev) ==
    CASE ~st1.exit_status[s] \/ ev.pidfile = "FAILED" -> "emergency_stop"
      [] ev.pidfile = "TERMINATED" -> "begin"
      [] OTHER -> "none"

\* bgproc_service::handle_exit_status(): the state and the call.
BgPlan(st, s, ev) ==
    IF st.doing_recovery[s]
    THEN LET st1 == [st EXCEPT !.doing_recovery[s] = FALSE]
         IN  [st |-> IF st1.exit_status[s] THEN ReadPidFile(st1, s, ev) ELSE st1,
              call |-> BgRecoveryCall(st1, s, ev)]
    ELSE [st |-> BgPrep(st, s, ev), call |-> BgCall(st, s, ev)]

\* scripted_service::handle_exit_status(): a stop command that failed is
\* taken as stopped all the same.
ScriptedExitCall(st, s) ==
    CASE st.service_state[s] = STOPPING -> "stopped"
      [] st.exit_status[s] -> "started"
      [] OTHER -> "failed_to_start"

\* handle_exit_status(), virtual in base_process_service.
ExitPlan(st, s, ev) ==
    CASE s \in BgProc -> BgPlan(st, s, ev)
      [] s \in Scripted -> [st |-> st, call |-> ScriptedExitCall(st, s)]
      [] OTHER -> [st |-> st, call |-> ProcessExitCall(st, s)]

HandleExitStatus(st, s, ev) ==
    LET plan == ExitPlan(st, s, ev) IN ExitCall(plan.st, s, ev, plan.call)

\* The five steps of do_propagation(), each consuming one sticky bit.
PropRequire(st, s) ==
    IF st.prop_require[s]
    THEN LET hard == FoldLeft(LAMBDA acc, d : Require(acc, d), st, HardDeps[s])
             soft == FoldLeft(LAMBDA acc, t :
                         [Require(acc, t) EXCEPT !.holding_acq[<<s, t>>] = TRUE],
                       hard, SoftDeps[s])
         IN  [soft EXCEPT !.prop_require[s] = FALSE]
    ELSE st

PropRelease(st, s) ==
    IF st.prop_release[s]
    THEN [ReleaseDependencies(st, s) EXCEPT !.prop_release[s] = FALSE]
    ELSE st

PropFailure(st, s, ev) ==
    IF st.prop_failure[s]
    THEN FailedToStart([st EXCEPT !.prop_failure[s] = FALSE], s, TRUE, ev)
    ELSE st

PropStart(st, s) ==
    IF st.prop_start[s]
    THEN Start([st EXCEPT !.prop_start[s] = FALSE], s, FALSE)
    ELSE st

PropStop(st, s) ==
    IF st.prop_stop[s]
    THEN DoStop([st EXCEPT !.prop_stop[s] = FALSE], s)
    ELSE st

\* do_propagation(): consume the sticky propagation bits in order.
DoPropagation(st, s, ev) ==
    PropStop(PropStart(PropFailure(PropRelease(PropRequire(st, s), s), s, ev), s), s)

\* execute_transition()
ExecuteTransition(st, s, ev) ==
    CASE st.service_state[s] = STARTING ->
             LET chk == StartCheckDependencies(st, s)
             IN  IF chk.ok THEN AllDepsStarted(chk.st, s, ev, FALSE) ELSE chk.st
      [] st.service_state[s] = STOPPING /\ StopCheckDependents(st, s) ->
             AllDepsStopped(st, s, ev)
      [] OTHER -> st

\* do_start(): only re-evaluates a record that is already STARTING.
DoStart(st, s, ev) ==
    IF st.pinned_stopped[s] \/ st.service_state[s] # STARTING THEN st
    ELSE LET chk == StartCheckDependencies(
                        [st EXCEPT !.waiting_for_deps[s] = TRUE], s)
         IN  IF chk.ok THEN AllDepsStarted(chk.st, s, ev, FALSE) ELSE chk.st

\* unpin()
Unpin(st, s, ev) ==
    LET st1 == IF st.pinned_started[s]
               THEN LET x == [st EXCEPT !.pinned_started[s] = FALSE]
                    IN  IF x.desired_state[s] = STOPPED THEN DoStop(x, s) ELSE x
               ELSE st
    IN  IF st1.pinned_stopped[s]
        THEN LET x == [st1 EXCEPT !.pinned_stopped[s] = FALSE]
             IN  IF x.desired_state[s] = STARTED THEN DoStart(x, s, ev) ELSE x
        ELSE st1

\* stop(bring_down)
Stop(st, s, bringDown) ==
    LET st1 == IF st.start_explicit[s]
               THEN Release([st EXCEPT !.start_explicit[s] = FALSE], s)
               ELSE st
    IN  IF bringDown THEN DoStop(st1, s) ELSE st1

-----------------------------------------------------------------------------
(* Actions.                                                                *)

Quiescent == prop_queue = <<>> /\ start_queue = <<>> /\ stop_queue = <<>>

\* One iteration of process_queues(): the propagation queue is drained
\* first, then the start queue, then the stop queue.
ProcessPropQueue ==
    /\ prop_queue # <<>>
    /\ \E ev \in Env :
          Commit(DoPropagation([Cur EXCEPT !.prop_queue = Tail(@)],
                               Head(prop_queue), ev))

ProcessStartQueue ==
    /\ prop_queue = <<>>
    /\ start_queue # <<>>
    /\ \E ev \in Env :
          Commit(ExecuteTransition([Cur EXCEPT !.start_queue = Tail(@)],
                                   Head(start_queue), ev))

ProcessStopQueue ==
    /\ prop_queue = <<>>
    /\ start_queue = <<>>
    /\ stop_queue # <<>>
    /\ \E ev \in Env :
          Commit(ExecuteTransition([Cur EXCEPT !.stop_queue = Tail(@)],
                                   Head(stop_queue), ev))

\* pin_start() / pin_stop(): a record is never pinned both ways.
PinStart(st, s) ==
    IF st.pinned_stopped[s] THEN st ELSE [st EXCEPT !.pinned_started[s] = TRUE]
PinStop(st, s) ==
    IF st.pinned_started[s] THEN st ELSE [st EXCEPT !.pinned_stopped[s] = TRUE]

\* Control requests, each serviced when the engine is quiescent.
StartService(s, pin) ==
    /\ Quiescent
    /\ Commit(Start(IF pin THEN PinStart(Cur, s) ELSE Cur, s, TRUE))

WakeService(s, pin) ==
    /\ Quiescent
    /\ Commit(Start(IF pin THEN PinStart(Cur, s) ELSE Cur, s, FALSE))

\* service_set::stopService() and the STOP request: stop(true).
StopService(s, pin) ==
    /\ Quiescent
    /\ Commit(Stop(IF pin THEN PinStop(Cur, s) ELSE Cur, s, TRUE))

ReleaseService(s, pin) ==
    /\ Quiescent
    /\ Commit(Stop(IF pin THEN PinStop(Cur, s) ELSE Cur, s, FALSE))

UnpinService(s) ==
    /\ Quiescent
    /\ \E ev \in Env : Commit(Unpin(Cur, s, ev))

\* exec_status_pipe_watcher::fd_event(): the exec status has arrived.  A
\* failed exec clears pid and fails a start or ends a stop command; a
\* successful exec makes only a PROCESS record STARTED.
ExecRead(st, s) ==
    [st EXCEPT !.pipe[s] = "CLOSED",
               !.child[s] = IF st.pipe[s] = "ERRNO" THEN "NONE" ELSE @]

ExecCall(st, s) ==
    CASE st.pipe[s] = "ERRNO" /\ st.service_state[s] = STARTING -> "failed_to_start"
      [] st.pipe[s] = "ERRNO" /\ st.service_state[s] = STOPPING -> "stopped"
      [] st.pipe[s] = "EOF" /\ s \in ProcessType
                           /\ st.service_state[s] = STARTING -> "started"
      [] OTHER -> "none"

\* Mutant: a child that exited before its exec status was read is not
\* handled.
ExecStatusNoReplay(st, s, ev) ==
    ExitCall(ExecRead(st, s), s, ev, ExecCall(st, s))

\* The child already exited before its exec status was read: replay its
\* exit status (only after a successful exec).
ReplayExit(st, s, ev, execOk) ==
    IF execOk /\ st.child[s] = "NONE" THEN HandleExitStatus(st, s, ev) ELSE st

ExecStatus(st, s, ev) ==
    ReplayExit(ExitCall(ExecRead(st, s), s, ev, ExecCall(st, s)),
               s, ev, st.pipe[s] = "EOF")

\* service_child_watcher::status_change(): handled only once the exec
\* status is known; until then the status is just saved.
ChildStatus(st, s, ev) ==
    IF st.pipe[s] # "CLOSED" THEN st ELSE HandleExitStatus(st, s, ev)

\* Events of the child processes and timers, each handled when the engine is
\* quiescent.  The child reaches exec(), or fails before it, writing errno
\* to the status pipe; neither is an engine step.
ChildExec(s) ==
    /\ Quiescent
    /\ child[s] = "FORKED"
    /\ \E ev \in Env :
          Commit([Cur EXCEPT !.child[s] = "EXECED",
                             !.pipe[s] = IF ev.exec THEN "EOF" ELSE "ERRNO"])

ExecStatusRead(s) ==
    /\ Quiescent
    /\ pipe[s] \in {"EOF", "ERRNO"}
    /\ \E ev \in Env : Commit(ExecStatus(Cur, s, ev))

\* The child exits (ok: with status 0).  After a failed exec the child
\* calls _exit(0).
ChildExit(s, ok) ==
    /\ Quiescent
    /\ child[s] = "EXECED"
    /\ pipe[s] = "ERRNO" => ok
    /\ \E ev \in Env :
          Commit(ChildStatus([Cur EXCEPT !.child[s] = "NONE",
                                         !.exit_status[s] = ok], s, ev))

\* The log gives the console up to the first waiter: the waiter is handed
\* the console and runs acquiredConsole().  The log's side is in log.cc,
\* which is not part of the engine's source, and the specification does
\* not describe it; this step is the least that lets a first waiter be
\* served (section 4.7 hands the console on only from an owner).
ConsoleLogRelease ==
    /\ Quiescent
    /\ "LOG" \in console_holders
    /\ console_queue # <<>>
    /\ \E ev \in Env :
          Commit(PullConsoleQueue([Cur EXCEPT !.console_holders = @ \ {"LOG"}], ev))

\* process_restart_timer::timer_expiry()
RestartTimerExpiry(s) ==
    /\ Quiescent
    /\ waiting_restart_timer[s]
    /\ \E ev \in Env : Commit(DoRestart(Cur, s, ev))

Init ==
    /\ service_state = [s \in Svc |-> STOPPED]
    /\ desired_state = [s \in Svc |-> STOPPED]
    /\ required_by = [s \in Svc |-> 0]
    /\ start_explicit = [s \in Svc |-> FALSE]
    /\ waiting_for_deps = [s \in Svc |-> FALSE]
    /\ force_stop = [s \in Svc |-> FALSE]
    /\ restarting = [s \in Svc |-> FALSE]
    /\ pinned_started = [s \in Svc |-> FALSE]
    /\ pinned_stopped = [s \in Svc |-> FALSE]
    /\ prop_require = [s \in Svc |-> FALSE]
    /\ prop_release = [s \in Svc |-> FALSE]
    /\ prop_failure = [s \in Svc |-> FALSE]
    /\ prop_start = [s \in Svc |-> FALSE]
    /\ prop_stop = [s \in Svc |-> FALSE]
    /\ holding_acq = [e \in SoftEdges |-> FALSE]
    /\ waiting_on = [e \in SoftEdges |-> FALSE]
    /\ socket_open = [s \in Svc |-> FALSE]
    /\ active_services = 0
    /\ prop_queue = <<>>
    /\ start_queue = <<>>
    /\ stop_queue = <<>>
    /\ child = [s \in Svc |-> "NONE"]
    /\ pipe = [s \in Svc |-> "CLOSED"]
    /\ exit_status = [s \in Svc |-> TRUE]
    /\ waiting_restart_timer = [s \in Svc |-> FALSE]
    /\ restart_count = [s \in Svc |-> 0]
    /\ doing_recovery = [s \in Svc |-> FALSE]
    /\ listening = [s \in Svc |-> FALSE]
    /\ to_client = <<>>
    /\ console_queue = <<>>
    /\ console_holders = {"LOG"}

\* One iteration of process_queues(), whichever queue it serves.
ProcessQueues == ProcessPropQueue \/ ProcessStartQueue \/ ProcessStopQueue

Next ==
    \/ ProcessQueues
    \/ \E s \in Svc, pin \in BOOLEAN :
          \/ StartService(s, pin)
          \/ WakeService(s, pin)
          \/ StopService(s, pin)
          \/ ReleaseService(s, pin)
    \/ \E s \in Svc : UnpinService(s)
    \/ ConsoleLogRelease
    \/ \E s \in Proc, ok \in BOOLEAN : ChildExit(s, ok)
    \/ \E s \in Proc : ChildExec(s) \/ ExecStatusRead(s) \/ RestartTimerExpiry(s)

\* process_queues() runs to completion before control returns to the event
\* loop: the queue steps are weakly fair.  Control requests are not.
\* This is WF_vars(ProcessQueues), with ENABLED <<ProcessQueues>>_vars
\* written as the state predicate it equals: some queue is non-empty.
\* The log hands the console to a waiter from its own watcher in the
\* event loop, which runs whenever the loop is idle: strongly fair, with
\* ENABLED written out (the step always pops the queue).
Fairness ==
    /\ <>[](~Quiescent) => []<><<ProcessQueues>>_vars
    /\ []<>(Quiescent /\ "LOG" \in console_holders /\ console_queue # <<>>)
          => []<><<ConsoleLogRelease>>_vars

Spec == Init /\ [][Next]_vars /\ Fairness

-----------------------------------------------------------------------------
(* Properties.                                                             *)

TypeOK ==
    /\ service_state \in [Svc -> States]
    /\ desired_state \in [Svc -> {STOPPED, STARTED}]
    /\ required_by \in [Svc -> -MaxRequired .. MaxRequired]
    /\ \A f \in {start_explicit, waiting_for_deps, force_stop, restarting,
                 pinned_started, pinned_stopped, prop_require, prop_release,
                 prop_failure, prop_start, prop_stop, socket_open} :
           f \in [Svc -> BOOLEAN]
    /\ holding_acq \in [SoftEdges -> BOOLEAN]
    /\ waiting_on \in [SoftEdges -> BOOLEAN]
    /\ active_services \in Int
    /\ \A q \in {prop_queue, start_queue, stop_queue} :
           q \in Seq(Svc) /\ Len(q) = Cardinality(Range(q))
    /\ child \in [Svc -> {"NONE", "FORKED", "EXECED", "UNTRACKED", "REAPED"}]
    /\ pipe \in [Svc -> {"CLOSED", "OPEN", "EOF", "ERRNO"}]
    /\ exit_status \in [Svc -> BOOLEAN]
    /\ waiting_restart_timer \in [Svc -> BOOLEAN]
    /\ restart_count \in [Svc -> 0 .. MaxRestartCount]
    /\ doing_recovery \in [Svc -> BOOLEAN]
    /\ listening \in [Svc -> BOOLEAN]
    /\ to_client \in Seq([kind : {"EVENT"}, svc : Svc, val : Events])
    /\ console_queue \in Seq(Svc)
    /\ Len(console_queue) = Cardinality(Range(console_queue))
    /\ console_holders \subseteq Svc \cup {"LOG"}

\* Activation accounting.  Once process_queues() has run, the activation
\* count of every record (require()/release(), service.cc) equals the
\* number of live activations of it: its own explicit activation, one for
\* every hard dependent that is itself required (do_propagation() and
\* release_dependencies()), and one for every soft edge holding an
\* acquisition on it (holding_acq, cleared in stopped() and
\* failed_to_start()).
ExplicitCount(s) == IF start_explicit[s] THEN 1 ELSE 0
HardHolders(s) == { x \in Svc : s \in Range(HardDeps[x]) /\ required_by[x] > 0 }
SoftHolders(s) == { e \in SoftEdges : e[2] = s /\ holding_acq[e] }

RequiredByAccounting ==
    Quiescent =>
        \A s \in Svc :
            required_by[s] = ExplicitCount(s) + Cardinality(HardHolders(s))
                                              + Cardinality(SoftHolders(s))

\* service_active()/service_inactive() (called from start(), release() and
\* stopped()) keep active_services equal to the number of records that are
\* not stopped or that are wanted started.
ActiveServicesCount ==
    Quiescent =>
        active_services =
            Cardinality({ s \in Svc : service_state[s] # STOPPED
                                       \/ desired_state[s] = STARTED })

\* A dependency never gets past its stop while a dependent is started:
\* do_stop() puts it in STOPPING waiting for its dependents
\* (stopDependents()), and all_deps_stopped() runs only when
\* stopCheckDependents() finds every dependent STOPPED.  Pinning a
\* dependent started makes the dependency wait, never stop under it.  The
\* exception is a dependency whose process died: emergency_stop() stops it
\* at once and force-stops the dependents (force_stop) after.
DependencyOutlivesDependents ==
    \A s \in Svc : service_state[s] = STARTED /\ ~force_stop[s] =>
        \A d \in Range(HardDeps[s]) :
            \/ service_state[d] \in {STARTED, STARTING}
            \/ service_state[d] = STOPPING /\ waiting_for_deps[d]

\* process_queues() terminates: every run of its loop (after a control
\* request or an event) ends with all three queues empty, although
\* started() may call do_stop() (force_stop, desired state STOPPED) and
\* stopped() may call start() again (restart).
QueuesDrain == ~Quiescent ~> Quiescent

\* What a record that waits for others (waiting_for_deps) is waiting for:
\* a STARTING one for a hard dependency that has not started, a soft
\* dependency it is waiting on that has not started, the console, or its
\* restart timer; a STOPPING one for a dependent that has not stopped.
WaitCause(s) ==
    IF service_state[s] = STARTING
    THEN \/ \E d \in Range(HardDeps[s]) : service_state[d] # STARTED
         \/ \E t \in Range(SoftDeps[s]) :
               waiting_on[<<s, t>>] /\ service_state[t] # STARTED
         \/ s \in Range(console_queue)
         \/ waiting_restart_timer[s]
    ELSE \E d \in Range(Dependents(s)) : service_state[d] # STOPPED

\* No lost wake-up (spec section 8, property 5, for STOPPING records too).
\* Once the queues are drained, a STARTING or STOPPING record that waits
\* for other records has something left to wait for.  Nothing polls a
\* waiting record: it moves again only when started() of a dependency
\* (dependencyStarted() of its hard and soft dependents), stopped() of a
\* dependent (dependentStopped()), the console or the timer queues it.
\* A notification that is missed, or sent before the state it announces,
\* leaves the record waiting for ever.
WaitingHasCause ==
    Quiescent =>
        \A s \in Svc :
            service_state[s] \in {STARTING, STOPPING} /\ waiting_for_deps[s]
                => WaitCause(s)

\* No wait cycle: once the queues are drained, no STARTING record waits on
\* a hard dependency that is STOPPING.  Such a dependency waits in
\* stopCheckDependents() for the dependent to stop, while the dependent
\* waits in startCheckDependencies() for it to start, and do_stop() of a
\* STARTING record that cannot be interrupted only calls stopDependents().
NoWaitCycle ==
    Quiescent =>
        ~\E s \in Svc, d \in Svc :
            /\ d \in Range(HardDeps[s])
            /\ service_state[s] = STARTING
            /\ service_state[d] = STOPPING

\* A stopped process record has no process (spec section 8, property 3):
\* stopped() is reached only after the child has exited (handle_exit_status)
\* or when there is none (all_deps_stopped(), a failed exec), and nothing
\* forks for a record that is not STARTING or STARTED.
PidClearedWhenStopped ==
    \A s \in Proc :
        Quiescent /\ service_state[s] = STOPPED => child[s] = "NONE"

\* A started PROCESS or BGPROCESS record is supervising something: its
\* child or daemon is alive, its exec status or exit is still to be
\* handled, or it waits on the restart timer (smooth recovery in
\* handle_exit_status(), do_restart()).  A SCRIPTED record has no process
\* once its start command has succeeded.
StartedHasProcess ==
    \A s \in Proc \ Scripted :
        Quiescent /\ service_state[s] = STARTED =>
            \/ child[s] # "NONE"
            \/ pipe[s] # "CLOSED"
            \/ waiting_restart_timer[s]

\* An event the engine will be told of for record s: the exec status of a
\* child, the exit of a watched child, or the restart timer.
EventPending(s) ==
    \/ child[s] \in {"FORKED", "EXECED"}
    \/ pipe[s] # "CLOSED"
    \/ waiting_restart_timer[s]

\* No record is left in a transition with nothing to finish it.  Once the
\* queues are drained, a STARTING or STOPPING record that no longer waits
\* for dependencies or dependents (waiting_for_deps, which also covers the
\* console queue) waits for an event of its own process: start_ps_process()
\* and all_deps_stopped() return without a state change only when a child
\* is running or the restart timer is armed, and handle_exit_status()
\* must leave the record in a state its next event resolves.
TransitionAwaitsEvent ==
    Quiescent =>
        \A s \in Svc :
            service_state[s] \in {STARTING, STOPPING} /\ ~waiting_for_deps[s]
                => EventPending(s)

\* A record waits for the console only while it does not own it
\* (spec section 4.3, step 1, and section 5, invariant 4).  allDepsStarted()
\* queues a starts_on_console record whenever it is called with has_console
\* false, and only acquiredConsole() passes true; release_console() runs in
\* started(), failed_to_start() and stopped() on flags, not on ownership.
\* An owner that queues for the console waits behind itself: the console
\* is handed on only by its owner, so nobody gets it again.
NoSelfWait == \A s \in Range(console_queue) : s \notin console_holders

\* A record queued for the console is handed it in the end: every owner
\* gives it back (started(), failed_to_start(), stopped(), or
\* acquiredConsole() when the record no longer wants it), each release
\* pulls the queue, and the log gives it up when a record waits.
ConsoleServed ==
    \A s \in Svc : s \in Range(console_queue) ~> s \notin Range(console_queue)

\* The console arbiter implements ConsoleLock: its owner is the holder of
\* the console (the log while no record has it), its waiters the console
\* queue.  "NOBODY" stands for a console nobody holds and "SHARED" for one
\* held by two at once (spec section 8, property 4): neither is an owner
\* ConsoleLock allows, so a step to either violates the refinement.
ConsoleOwner ==
    CASE console_holders = {} -> "NOBODY"
      [] Cardinality(console_holders) = 1 -> CHOOSE x \in console_holders : TRUE
      [] OTHER -> "SHARED"

Console == INSTANCE ConsoleLock
               WITH Clients <- Svc, Log <- "LOG",
                    owner <- ConsoleOwner, waiters <- console_queue

\* The console is a first-in first-out lock (spec section 4.7): only
\* queue_for_console() adds a waiter, and never its owner; unqueue_console()
\* removes one; release_console() hands it to the queue head, whose
\* acquiredConsole() keeps it or passes it on, and to the log when the queue
\* is empty.  Every step of the engine is a step of ConsoleLock.
ConsoleFifo == Console!Spec

=============================================================================
