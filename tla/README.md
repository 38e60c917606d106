# TLA+ models of the dinit service engine

This directory holds TLA+ models of the service management engine of dinit
(`src/src/service.cc`), INTERNAL and PROCESS records, and of the control
client `dinitctl` (`src/src/dinitctl.cc`) driving that engine over the
control socket, with the TLC configurations that check them.

## The system

dinit supervises a set of *service records*. Each record has a lifecycle state
(`service_state`: STOPPED, STARTING, STARTED, STOPPING) and a `desired_state`.
Records are linked by **hard** dependencies (`depends_on` / `dependents`) and
**soft** dependencies (edges with `waiting_on` and `holding_acq` flags). A
record stays wanted while `required_by` is positive. The count is the sum of:

- an explicit activation (`start_explicit`);
- each hard dependent that requires it;
- each soft edge that holds an acquisition on it.

The engine is single-threaded. A handler first changes one record:

- a control command (start, wake, stop, release, pin, unpin);
- a child exit;
- an exec-status pipe event;
- a timer.

The handler then calls `service_set::process_queues()`. That loop drains three
queues of records:

- the **propagation** queue, where `do_propagation()` acts on the sticky bits
  `prop_require`, `prop_release`, `prop_failure`, `prop_start` and `prop_stop`;
- the **start** queue, then the **stop** queue, where `execute_transition()`
  re-checks the record's dependencies or dependents.

Methods call each other recursively:

- `release()` ↔ `do_stop()`;
- `started()` → `do_stop()`;
- `stopped()` → `start()`;
- `failed_to_start()` → `release()`.

So one command can touch many records through several queue passes.

### Components and their state

| component | source | state | status |
|---|---|---|---|
| service record state machine (INTERNAL type) | service.cc | states, desired state, `required_by`, `start_explicit`, `waiting_for_deps`, `force_stop`, `restarting`, pins, the prop bits, soft-edge `waiting_on`/`holding_acq`, `socket_open` | modelled: `Service` |
| service set queues, `process_queues`, active count | service.cc (`service_active`, `service_inactive`, `stopService`), service.h (queues) | three queues, `active_services` | partly: the queue code is in service.h, so it is modelled from the specification |
| activation socket | service.cc `open_socket` | socket fd | partly: outcome only (success or failure) |
| process services (PROCESS, BGPROCESS, SCRIPTED) | service.cc | pid (`child`), `waiting_for_execstat` (`pipe`), `exit_status`, `doing_recovery`, `waiting_restart_timer`, `restart_interval_count` | modelled: `Service`; the pid file by the outcome of `read_pid_file()` |
| console arbiter | service.cc (`queue_for_console`, `release_console`, `acquiredConsole`, `unqueue_console`), service.h, log.cc (the log's side) | owner set `console_holders`, waiter queue `console_queue` | modelled: `Service` (engine side), `ConsoleLock` (what it promises); the log's hand-over is one action modelled from the specification |
| child setup `run_child_proc` | service.cc | none (forked child) | outcome only: exec succeeds, or errno is written to the pipe and the child exits 0 |
| dinitctl client | dinitctl.cc | connection, pending reply, awaited event | partly: `DinitCtl` (start, wake, stop, release, unpin, unload; not list or shutdown) |
| daemon control connection | control.cc (not under src/) | request buffer, reply owed, listeners | from spec §6, in `DinitCtl` |
| argument parsing, printing | dinitctl.cc | none | not modelled: formatting only |

### What makes the engine hard to get right

- **Reference counting across deferred propagation.** A `require()` and a
  `release()` of the same record can both be pending in the propagation queue.
  `prop_release = !prop_require` must cancel them exactly.
- **Orderings nobody writes tests for.** Pins, interrupted stops,
  auto-restart and wake (`start(false)`, which makes a record desired
  STARTED without requiring it) combine in long command sequences.
- **Partial failures.** A failed activation socket, or a failed start of a soft
  dependency, runs some of the cleanup and then still carries on.
- **Waits on each other.** A STOPPING record waits for its dependents to stop.
  A STARTING record waits for its dependencies to start. Whether the two can
  wait on each other depends on the early returns of `start()` and `do_stop()`.

## Modules

### `Service.tla`: the engine core (INTERNAL and process services)

**Modelling style.** Every `service_record` method is an operator from an
engine state `st` to a new one. `st` is a record with one field per
variable, and `Cur` builds it from the current state. A C++ call chain is a
nested application, so a handler's whole effect is one expression:

- a trailing `addToPropQueue` is part of the operator;
- the recursive `release`/`do_stop` pair is declared `RECURSIVE`;
- loops over `depends_on`, `dependents` and `soft_dpts` are `FoldLeft` folds
  over the ordered lists;
- the early-exit soft loop of `startCheckDependencies(false)` is the recursive
  `CheckSoftDeps`;
- handing the console on recurses through the lifecycle methods
  (`release_console()` → `pull_console_queue()` → `acquiredConsole()` →
  `allDepsStarted()` → `started()` or `failed_to_start()` →
  `release_console()`), so those operators form a second `RECURSIVE` group;
- where a method goes on after a call that changes much of the state (a
  release, a console hand-over), the rest of the method is its own operator
  applied to the state reached (`StartedThen`; `StoppedThen`,
  `StoppedSignal`, `StoppedEnd`; `StartActivated`, `StartTransition`;
  `DoStopReleased`, `DoStopThen`; `LaunchChecked`; `ReplayExit`; the five
  `Prop*` steps of `do_propagation()`).  The state is then one argument, not
  a `LET` name used several times.  This is the same expression, and it keeps
  TLC's coverage pass over the recursive group linear.

An action applies a handler to `Cur` and `Commit`s the result.

**Actions.**

- `ProcessPropQueue`, `ProcessStartQueue`, `ProcessStopQueue` are one
  iteration each of `process_queues()`. The propagation queue is drained
  first, then the start queue, then the stop queue. These actions model
  `do_propagation()` and `execute_transition()`.
- `StartService`, `WakeService`, `StopService`, `ReleaseService` model the
  START, WAKE, STOP and RELEASE commands: `start(true)`, `start(false)`,
  `stop(true)` and `stop(false)`. Each can first pin the record started or
  stopped (`pin_start`/`pin_stop`).
- `UnpinService` models `unpin()`.

A command is enabled only when every queue is empty (`Quiescent`). That is
the single-threaded event loop: a handler runs `process_queues()` to the end
before the next event is read. One step per dequeued record lets the
properties see the states in between, and the invariants that only hold
between events are guarded by `Quiescent`.

**Process services (records in `Proc`, type PROCESS).**

- `child` is the pid: NONE (-1), FORKED (forked, not yet exec'd) or EXECED.
  `pipe` is the exec-status pipe: CLOSED when `waiting_for_execstat` is
  false, OPEN, or holding EOF (exec succeeded) or an errno.
- `ForkProcess` is `start_ps_process(cmd, on_console)`. `StartPsProcess`
  launches afresh or, for a restart, goes through `RestartPsProcess`
  (`restart_ps_process()`), which refuses too many restarts in one interval
  or arms the restart timer; `DoRestart` is `do_restart()`.
- Events, each handled when the engine is quiescent: `ChildExec` (the child
  reaches `exec()` or writes errno), `ExecStatusRead` (`fd_event()` of the
  pipe watcher, which replays a saved exit status when the child already
  died), `ChildExit` (`status_change()`, which only saves the status while
  the pipe is open) and `RestartTimerExpiry`.
- `HandleExitStatus` is `process_service::handle_exit_status()`,
  `EmergencyStop` is `emergency_stop()`, and `AllDepsStopped` leaves a record
  with a live process STOPPING until it exits (the kill).
- `can_interrupt_start()` is `waiting_restart_timer` for a process (service.h)
  and FALSE for an INTERNAL record; `interrupt_start()` cancels the timer.

**The console (records in `StartsOnConsole`, `RunsOnConsole`).**

- `allDepsStarted(false)` of a `starts_on_console` record queues it for the
  console (`QueueForConsole`, `queue_for_console()`) and leaves it STARTING
  and waiting.
- `ReleaseConsole` is `release_console()`.  `PullConsoleQueue` hands the
  console to the head of the queue, and `AcquiredConsole`
  (`acquiredConsole()`) runs at once.  A waiter that is no longer STARTING,
  or whose dependencies are no longer started, gives the console straight
  back, so one release may hand it down the queue several places.
- The console is released where service.cc releases it: `started()` for a
  record that starts but does not run on it (`ReleaseStartConsole`),
  `failed_to_start()` unless a dependency failed (`ReleaseFailConsole`),
  and `stopped()` for a record that runs on it (`ReleaseRunConsole`).
  `interrupt_start()` takes a waiter out of the queue (`UnqueueConsole`).
  `do_stop()` calls it only when `can_interrupt_start()` holds, which spec
  §5 gives as "process variants waiting on the restart timer". A record in
  the console queue has not yet launched, so it waits on the timer only
  when a timer armed earlier survived a stop (finding 6). No pass run
  reaches that, so no run takes `UnqueueConsole` (the abstract `Leave`).
- `ConsoleLogRelease`: the log gives the console up when a record waits for
  it. The log's side is in log.cc, which is not under src/. The
  specification does not describe it either: §4.7 hands the console on
  only from an owner calling `release_console()`. Without some such step
  the first record to queue would never be served, so the model assumes
  the least that lets it be served: the log holds the console at start and
  pulls the queue when a record waits.

**Abstractions.**

- INTERNAL records have no process: `start_ps_process()` is `started()`.
- The console is a set `console_holders` rather than one owner, so that a
  second owner would show: `ConsoleOwner` maps two holders to `"SHARED"`,
  which is no owner `ConsoleLock` allows, so `ConsoleFifo` fails on it
  (spec §8 property 4: at most one owner). `"LOG"` stands for the log,
  which the model takes as the owner while no record holds the console.  `tcsetpgrp` and the terminal
  itself are left out: only who owns the console and who waits matter.
- The environment's answers are a record `ev` drawn from the constant `Env`:
  `sock` (the activation socket opens), `fork` (the pipe and fork succeed),
  `exec` (the exec succeeds), `window` (the restart interval is still
  running) and `delay` (the restart delay has passed since the last start).
  The time arithmetic of the rate limit is abstracted to the last two.
  For BGPROCESS records, `reaped` (the daemon has exited when
  `all_deps_stopped()` calls `waitpid()`), `status` (the exit status that
  `read_pid_file()` collects is 0) and `pidfile` (its outcome).
- `services->get_auto_restart()` is TRUE (`RestartEnabled`), because shutdown
  is not modelled.
- Logging is left out. Listener notification (`notifyListeners`) is the
  operator `Notify`: a SERVICEEVENT packet is appended to `to_client` when a
  control connection holds a handle to the record (`listening`). It is
  called where service.cc calls it: `stopped()`, `start()` (STOPCANCELLED),
  `started()`, `failed_to_start()` and `do_stop()` (STARTCANCELLED).

**BGPROCESS and SCRIPTED records.** `handle_exit_status()` differs per
record type, and so does `all_deps_stopped()`.

- `ExitPlan` picks the type's version. Each version computes the state it
  acts in and the one lifecycle call it ends in (`ProcessExitCall`,
  `BgPlan`, `ScriptedExitCall`), and `ExitCall` makes that call. bgproc's
  `goto begin` is the call `"begin"` (and `"started_begin"` after
  `started()`), so `ExitCall` and `BgBegin` are mutually recursive.
- `read_pid_file()` is `ReadPidFile`, over the outcome `ev.pidfile`: FAILED;
  TERMINATED (the named child has exited, its status `ev.status` is kept);
  TRACKED (a child of dinit, watched: `child` is EXECED); UNTRACKED (a
  daemon that is not dinit's child: `child` is UNTRACKED, and no exit will
  ever be reported for it).
- `doing_recovery` is set before a smooth restart and read when the
  launcher exits (`BgRecoveryCall`).
- `all_deps_stopped()` of a BGPROCESS record waits for the daemon only when
  `waitpid(pid, WNOHANG)` finds it running. An untracked daemon, or a child
  that has exited (`ev.reaped`), lets the record stop at once, with pid still
  set (`child` UNTRACKED or REAPED).
- A SCRIPTED record's stop command is launched like the start command
  (`ForkProcess`). The record waits for it if it could be launched, and
  any exit of it stops the record.
- The exec-status read calls `started()` only for PROCESS records
  (`ExecCall`); a BGPROCESS or SCRIPTED record starts when its launcher
  exits.

`ExitCall` and `ExitPlan` are written so that each of the heavy lifecycle
operators occurs once in the module. TLC's coverage report walks an
operator's body at every place it is used.

**Constants.**

- `Svc`: the records.
- `HardDeps`, `SoftDeps`: ordered dependency lists.
- `HasSocket`: records with an activation socket.
- `AutoRestart`: records with `auto_restart`.
- `MaxRequired`: the bound the type invariant puts on `required_by`.
- `Proc`: the process records (PROCESS, BGPROCESS, SCRIPTED); `BgProc`:
  the BGPROCESS ones, `Scripted`: the SCRIPTED ones, `StopCommand`: the
  SCRIPTED records with a stop command; `SmoothRecovery`: the records with
  smooth recovery.
- `MaxRestartCount`: `max_restart_interval_count`.
- `Env`: the environment outcomes a run allows (defined in `MCService.tla`).

`MCService.tla` fixes the graph: a depends on b, b depends on c (both hard),
and a soft-depends on c. This is the smallest graph with a chain of two hard
edges (stop and start cascades through an intermediate record) and a soft
edge that bypasses it (acquisition and failure of a soft dependency next to a
hard one).

### Properties

- `TypeOK`: the variables have their types. It also checks that no queue
  holds a record twice, because the queues are intrusive lists.
- `RequiredByAccounting`: at quiescence, `required_by[s]` equals the explicit
  activation, plus the hard dependents that require s, plus the soft edges
  holding an acquisition on s. This is spec §8 property 2, restated over
  *requiring* dependents (`required_by > 0`), because a STOPPING dependent
  still holds its dependencies until it releases them.
- `ActiveServicesCount`: at quiescence, `active_services` counts the records
  that are not STOPPED or are desired STARTED. The daemon decides when to exit
  from this count. Checked in the core and process runs. In the
  process run it covers crashes, restarts, the restart timer and the rate
  limit; the exec failures and refused restarts after a stop that leak a
  count (see "Further consequences") are outside its environment, and the
  bg run, which reaches that leak, does not check it.
- `DependencyOutlivesDependents`: while a record is STARTED, each hard
  dependency is STARTED or STARTING, or is STOPPING and still waiting for its
  dependents. It is never STOPPED, and never STOPPING past the wait.
- `WaitingHasCause`: at quiescence, a STARTING or STOPPING record that waits
  for other records (`waiting_for_deps`) still has something to wait for.
  For a STARTING record that is a hard dependency not yet STARTED, a soft
  dependency it waits on that is not STARTED, the console queue, or the
  restart timer. For a STOPPING record it is a dependent not yet STOPPED.
  This is spec §8 property 5, extended to stops. Nothing polls a waiting
  record: `dependencyStarted()` from `started()` and `dependentStopped()`
  from `stopped()` are what move it on. A notification that is lost (a
  `started()` that tells only its hard dependents, for instance) leaves a
  record waiting for ever.
- `NoWaitCycle`: at quiescence, no STARTING record has a STOPPING hard
  dependency. Nothing in the queues can move such a pair.
- `PidClearedWhenStopped`: at quiescence, a STOPPED process record has no
  process. It fails if a stop marks the record stopped before the process
  exits, or if a launch happens after the stop.
- `StartedHasProcess`: at quiescence, a STARTED PROCESS or BGPROCESS record
  has a process, an exec status still to read, or a restart timer armed. It
  fails if an exit or a failed relaunch is lost, or if a daemon found
  exited is marked started without the second pass through `begin:`.
- `TransitionAwaitsEvent`: at quiescence, every STARTING or STOPPING
  record that is not waiting for other records waits for something that
  will happen: a child or tracked daemon that will exit, an exec status to
  read, or the restart timer. It fails if `all_deps_stopped()` waits for
  an untracked daemon, or if an exit that came before the exec status is
  not replayed.
- `QueuesDrain` (liveness): `~Quiescent ~> Quiescent`. Every run of
  `process_queues()` ends, although `started()` may call `do_stop()` and
  `stopped()` may call `start()` again. A `started()` whose desired-state
  test was inverted makes a stop and restart of an INTERNAL record loop
  inside the queues, and this property catches it.

- `NoSelfWait`: no record waits in the console queue for the console it
  owns (spec §4.3 step 1, §5 invariant 4). Checked by the violation run
  `console_self_wait` (see Findings).
- `ConsoleServed` (liveness, checked in `DinitCtl`): every record that
  queues for the console eventually leaves the queue, whether it gets the
  console or its start is interrupted. This needs the log to hand the
  console over when a record waits (strong fairness on `ConsoleLogRelease`,
  an assumption about log.cc, see above). With one console record the
  property rests mostly on that assumption.
- `ConsoleFifo` (refinement, checked in the process and ctl runs): the engine's console
  implements `ConsoleLock` under the mapping `owner <- ConsoleOwner`,
  `waiters <- console_queue`.

### `ConsoleLock.tla`: what the console arbiter promises

`ConsoleLock` is the abstract console (spec §2 item 2, §4.7, §8 property 4).  It has
one owner (the log or a client) and a FIFO list of waiters, each at most
once and never the owner.

- `Wait(c)` appends a new waiter.
- `Leave(c)` removes a waiter that no longer wants the console. No run
  reaches it (see `UnqueueConsole` above).
- `HandOver(k)` gives the console to the k-th waiter.  The waiters before it
  had it in turn and gave it straight back, as `acquiredConsole()` does for
  a record that is no longer starting.
- `ToLog` returns it to the log, emptying the list the same way.

Nobody takes the console out of turn, and a waiter leaves only by `Leave` or
by being handed the console.  `Service` refines it: `ConsoleOwner` is the
one holder, and the queue is the waiter list.  A step that hands the console
down the queue and then further (a started record releasing at once) is one
`HandOver` or `ToLog`.  The checked refinement shows that the engine never
serves a waiter out of order, loses one, or lets one jump the queue.

### `DinitCtl.tla`: dinitctl over the control connection

`DinitCtl` extends `Service`. One dinitctl invocation runs at a time, and
each one opens a connection. The connection has two FIFOs:

- `to_daemon`, for the request packets dinitctl writes;
- `to_client` (a `Service` variable), for replies and SERVICEEVENT packets.

**Client (dinitctl.cc).** `cpc` is where the invocation is blocked: idle,
`load` (in `wait_for_reply()` after `issue_load_service()`), `cmd` (after
writing the command packet) or `wait` (in the event loop of
`start_stop_service()`).

- `Invoke` is `main()` choosing a command line from `Commands` × `Names`
  (with `--pin` from `Pins` and `--no-wait`) and writing LOAD, or FIND for
  unload (`LoadRequest`).
- `LoadReply` is `wait_for_reply()` + `check_load_reply()`. With a
  SERVICERECORD the command packet is written (`CmdOp`). Otherwise
  start/stop return 0 and unpin/unload return 1.
- `CommandResult` is the reply check. For start_stop: ALREADYSS gives 0,
  anything but ACK gives 1, `--no-wait` gives 0, and otherwise the client
  waits. For unpin/unload, `AckResult` decides.
- `WaitEvent` is the wait loop: the handle's completion event gives 0, its
  cancel event (or FAILEDSTART for a start) gives 1, other events are
  consumed, and a reply packet is a protocol error.
- `Exit` ends the process. The connection closes, which drops the
  listeners and the unread packets.

`SkipInfo` is `wait_for_reply()`, which discards information packets
(type ≥ 100) ahead of the reply. Its code is in a header that is not under
src/.

**Daemon (control.cc, from spec §6).**

- `DaemonRequest` reads one request when the engine is quiescent and no
  reply is owed. LOAD/FIND answer SERVICERECORD (and register the
  listener) or NOSERVICE at once. UNLOAD answers ACK if the record is
  STOPPED with no dependents, else NAK. START/WAKE/STOP/RELEASE (with
  pins) and UNPIN are applied to the engine, and the reply is owed
  (`reply_due`).
- `DaemonReply` writes the owed reply once `process_queues()` has returned:
  ALREADYSS if the record is now in the wanted state, else ACK. Events
  that the queue steps emitted were therefore written before it.

**Engine events.** `EngineEvent` is `Service`'s child and timer handlers,
allowed when no reply is owed (the control handler has not yet returned to
the event loop). An exit of a child that dinit did not signal (`Signalled`:
STOPPING past the dependents' wait, or a failed exec) is counted in
`crashes` and bounded by `MaxCrashes`.

The bg run has one BGPROCESS record c and one SCRIPTED record d, which do
not depend on each other. With a dependency between them the run
passed 1.2 million states without finishing. Its environment lets restarts happen
at once (`delay` TRUE), because the timer path is that of PROCESS records,
checked in the process run. c has no smooth recovery there: with it, the
run reaches finding 10. A BGPROCESS or SCRIPTED start that fails after a
stop reaches the active_services leak of a stopped launch (see "Further
consequences"). Every such failure adds one to `active_services`, so the
state space would be infinite. `ActiveLeakBound` (a state constraint in
`MCService.tla`) stops exploring at more active records than there are
records, which is past the first leak. `ActiveServicesCount` and
`PidClearedWhenStopped` are not checked there: the first fails by the
leak, and the second at once, because `all_deps_stopped()` stops a record
with an untracked or reaped daemon without clearing pid (service.cc:1189-1197).
Nothing reads that pid again before the next launch overwrites it.

**Fairness.**

- The client's steps and `DaemonReply` are weakly fair: each needs only the
  packet it reads.
- The queue steps are weakly fair, as in `Service`.
- `DaemonRequest` and the engine events (`ChildExec`, `ExecStatusRead`,
  `RestartTimerExpiry`, and a signalled `ChildExit`) are strongly fair.
  They run only between queue runs, and another event can keep undoing
  that. dinit's event loop polls every ready descriptor on each turn, so
  none is starved.
- An unsignalled exit is not fair: a running service may run for ever.

`ENABLED` of these actions is written out as the state predicate it equals
(the guard together with `Dispatchable`, i.e. the loop free). TLC's own
evaluation of `ENABLED` over the `Commit` chains is too slow.

**Properties.**

- `CtlTypeOK`: the types, including the packet kinds.
- `RepliesPaired`: while dinitctl is in `wait_for_reply()`, exactly one of
  these exists, and none otherwise:
  - its request;
  - the reply the daemon owes;
  - the unread reply.

  Breaking it takes the daemon, the engine's listener events and the
  client's skipping of information packets together.
- `ClientReturns` (liveness): `cpc # "idle" ~> cpc = "idle"`. Every
  invocation ends.
- `NotFoundFails` (action property): an invocation whose service does not
  exist ends with status 1.

`MCDinitCtl.tla` instantiates it with the graph of `MCService`.

## Runs

| run | cfg | expect | checks | shows |
|---|---|---|---|---|
| core | `MCService.cfg` | pass (about 282k states, about 40 s) | TypeOK, RequiredByAccounting, ActiveServicesCount, DependencyOutlivesDependents, WaitingHasCause, QueuesDrain | over every sequence of the five commands, with and without pins, on a, b and c (c auto-restarts), the counts and orderings hold, no waiting record is forgotten, and every queue run ends |
| socket_fail | `MCServiceSocketFail.cfg` | violation | ActiveServicesCount | finding 1 |
| soft_fail | `MCServiceSoftFail.cfg` | violation | RequiredByAccounting | finding 2 |
| wait_cycle | `MCServiceWaitCycle.cfg` | violation | NoWaitCycle | finding 3 |
| process | `MCServiceProcess.cfg` | pass (39,492 states, about 30 s) | TypeOK, RequiredByAccounting, ActiveServicesCount, PidClearedWhenStopped, StartedHasProcess, ConsoleFifo | one auto-restarting PROCESS record c under every order of commands, exec-status reads, child exits (before and after the status read) and timer expiries, with restarts rate-limited or delayed: launches, exits and restarts keep the pid, the pipe, the timer and the counts consistent. Beside c, an independent INTERNAL record d starts and runs on the console, and the console behaves as `ConsoleLock` |
| self_exit | `MCServiceSelfExit.cfg` | violation | DependencyOutlivesDependents | finding 4 |
| console_self_wait | `MCServiceConsoleSelfWait.cfg` | violation | NoSelfWait | finding 5 |
| smooth_timer | `MCServiceSmoothTimer.cfg` | violation | PidClearedWhenStopped | finding 6 |
| ctl | `MCDinitCtl.cfg` | pass (16,551 states, about 30 s) | CtlTypeOK, RepliesPaired, ClientReturns, ConsoleServed, ConsoleFifo | dinitctl start, stop, unpin and unload of process record c, which starts on the console, and of an unknown name x, with and without `--no-wait`, while c's process may crash once: replies stay paired, every invocation returns, c is always served the console, and the console behaves as `ConsoleLock` |
| ctl_release | `MCDinitCtlRelease.cfg` | violation | ClientReturns | finding 9 |
| bg | `MCServiceBg.cfg` | pass (215,264 states, about 85 s) | StartedHasProcess, TransitionAwaitsEvent | an auto-restarting BGPROCESS record c, under every pid-file outcome and with its daemon possibly gone when it is stopped, and a SCRIPTED record d with a stop command: started daemon records supervise something, and no starting or stopping record waits for an event that cannot come |
| bg_recovery | `MCServiceBgRecovery.cfg` | violation | PidClearedWhenStopped | finding 10 |

**Bounds.** No counter needs a cap in the guards. The state space is finite
for three reasons:
- `start_explicit` makes a repeated start or wake absorb into one explicit
  activation;
- each dependent requires a dependency at most once per `prop_require`;
- the flags and queues are sets of records.

So in the core run `required_by` is at most 1 (explicit) + 1 (hard
dependent) + 1 (soft edge) = 3. `MaxRequired = 4` is only the range that
`TypeOK` allows, and the type invariant would report a count that escaped it.
The two-record runs (b, c) are the smallest that show findings 1 and 3. The
soft-edge finding needs a, the from-side of the soft edge.

`restart_count` cannot pass `MaxRestartCount`: a restart inside the interval
is refused at the limit and one outside it resets the count first.
`MaxRestartCount = 1` is the smallest limit at which both a permitted and a
refused restart happen. The process pass run has a single record because
every two-record arrangement of a process and its dependency reaches
finding 4 or the start over a stopping dependency (or the
active_services leak below), and with those
reachable the counts drift without bound. Its environment lets restarts be
delayed (the timer) and rate-limited but lets every fork and exec succeed:
exec failures reach the leak, and smooth recovery reaches findings 6 and 7.

The dinitctl pass run has one process record c and an unknown name x, for
the same reason: with a dependent of c, a crash of c in its start window
leaves the dependent STARTING for ever (the early return of `do_stop()`, below), and
`start b` hangs. `MaxCrashes = 1` lets c's process die on its own once, at
any point: before or after its exec status is read, or while a dinitctl
waits on it. A second crash would only repeat those states with the
counter one higher. `Pins = {FALSE}`: pins change only the engine, which
the core run checks with pins. wake and release, in which the hang of
finding 9 is reachable, are left to their violation run.

The console is checked in two runs. In the process run an INTERNAL record
d, which depends on nothing, starts and runs on the console: it queues, is
handed the console by the log, keeps it while STARTED, and gives it back in
`stopped()`. c itself is not a console record there: a stop while a
restarting c waits for the console cannot interrupt the start, and a
refused restart then fails the stopped launch. That is the active_services
leak of a stopped launch that fails (see "Further consequences"), and the
counts then drift. In
the ctl run c starts on the console
(`StartsOnConsole = {"c"}`) and so queues for it, is handed it by the log,
and gives it back in `started()` or `failed_to_start()`. A stop cannot
take it out of the queue: c is not waiting on its restart timer there. The core run leaves the console out
(`StartsOnConsole = {}`): with it the run takes three times longer and no
longer checks the liveness in time. With one console record the queue
holds at most one waiter. So `ConsoleFifo` checks the hand-over, the return
to the log and that the console has one owner, but not a waiter leaving and not the order among several waiters
(`HandOver(k)` for k > 1). A second console record in the ctl run gives
that, but the run then takes close to five minutes.

**Fairness.** `Spec` assumes weak fairness of queue processing: if the queues
stay non-empty, a queue step happens. This is justified because
`process_queues()` runs in the handler that filled the queues. It is written
as `<>[](~Quiescent) => []<><<ProcessQueues>>_vars`, which has the same
meaning as `WF_vars(ProcessQueues)`, since the actions are enabled exactly
when a queue is non-empty. This form avoids TLC evaluating `ENABLED` of the
heavy queue actions. One caveat: a queue step that changed nothing would
count as stuttering. Commands get no fairness, because a user need not issue
any. `QueuesDrain` is checked in the core run. `DinitCtl` adds fairness of
its own (see its section), under which `ClientReturns` is checked.

`Spec` also assumes strong fairness of the log's hand-over
(`ConsoleLogRelease`): if a record waits for the console and the log holds
it at quiescence infinitely often, the log gives it up. The engine cannot
force this, and neither src/ nor the specification says what the log
does. It is the assumption stated under `ConsoleLogRelease` above, and
`ConsoleServed` is checked under it. The fairness is written
with the enabling condition spelled out, like the queue fairness.

## Findings

1. **A failed activation socket still starts the service**
   (service.cc:669-676).
   - In `allDepsStarted()`, `open_socket()` fails and `failed_to_start()`
     runs: the record goes STOPPED, its explicit activation is released, and
     `service_inactive()` is called.
   - There is no `return`, so `start_ps_process()` then marks it STARTED.
   - Result: a running record that nobody requires and that
     `active_services` does not count.
   - TLC trace: pin-start c (which has a socket) while the socket fails.
2. **A failed soft dependency releases an acquisition that was never taken**
   (service.cc:803-811).
   - `waiting_on` is set for every soft edge whose target is not started,
     including when the from-side was only woken and never acquired the target
     (`holding_acq` false).
   - `failed_to_start()` calls `release()` on every edge with `waiting_on`.
   - Result: `required_by` reaches -1, and a later `require()` no longer sees
     0 → 1, so it does not propagate.
3. **Stopping a dependency of a woken service never finishes**
   (service.cc:439 together with 1093-1099). TLC trace, in which no pins are
   involved:
   - wake b (b desired STARTED, `required_by` 0), then c starts and b starts;
   - stop c: c goes STOPPING and b is stopped;
   - b's `stopped()` restarts b, because b is desired STARTED;
   - b asks c to start, but `start()` on c returns at once, because c is
     desired STARTED and not STOPPED;
   - c waits for b to stop and b waits for c to start.

   Spec scenario E2 expects such a stop to finish with every record STOPPED.
4. **A process that exits on its own while its record waits for dependents
   is taken for the signalled exit** (service.cc:179-183).
   - c (a process) is stopped while b, pinned started, depends on it: c is
     STOPPING, waiting for b, and has not signalled its process.
   - The process exits: `handle_exit_status()` calls `stopped()`, on the
     assumption stated in its comment that dinit killed it.
   - Result: c is STOPPED under a STARTED b; later require/release pairs on c
     call `service_inactive()` for a record that was never reactivated.
5. **A record can wait in the console queue for the console it owns, and
   the console is then never handed on** (service.cc:509 with 766-770 and
   1093). Spec §4.3 step 1 and §5 invariant 4 say a record never waits for
   a console it holds. TLC trace (c starts and runs on the console, b
   depends on c; no process is involved):
   - start b: c is asked to start and queues for the console, which the
     log holds;
   - stop b: b and c become desired STOPPED but stay STARTING, because an
     INTERNAL record cannot interrupt its start;
   - the log hands the console to c: `acquiredConsole()` → `started()`,
     which calls `do_stop()` because c is desired STOPPED, and c waits in
     STOPPING for b;
   - wake c: the STOPPING c is cancelled back to STARTING and reaches
     `allDepsStarted(false)`, which calls `queue_for_console()` although c
     owns the console.

   c waits for itself: the owner never releases it, so nobody else gets the
   console.
6. **The smooth-recovery restart timer survives a stop**
   (service.cc:1329-1332, 1337-1345).
   - c's process dies while STARTED; `restart_ps_process()` arms the timer.
   - Stop c: c has no pid, so it is STOPPED at once. Only `interrupt_start()`
     cancels the timer, and it runs only for a STARTING record.
   - The timer fires: `do_restart()` forks a process for a STOPPED record.
7. **An exec failure during smooth recovery leaves the record STARTED with
   no process** (service.cc:350-365). `fd_event()` clears the pid and
   handles only STARTING and STOPPING. No run is kept for it: the runs'
   limit went to the BGPROCESS runs. `StartedHasProcess` fails on it in the
   process run's constants with `SmoothRecovery = {"c"}` and an environment
   in which exec may fail.
8. **dinitctl reports success for a service that does not exist**
   (dinitctl.cc:286-288). `start_stop_service()` returns 0 when
   `check_load_reply()` reports NOSERVICE, so `dinitctl start x` exits 0.
   Spec §6 says a failed start exits with 1, and `unpin_service()` and
   `unload_service()` do return 1 here. No run is kept for it either: the
   action property `NotFoundFails` (in `DinitCtl.tla`) fails on it under
   the ctl run's constants, after 39 states.
9. **dinitctl release of a woken service never returns**
   (dinitctl.cc:342-404 with service.cc:1069-1079).
   - c is woken: STARTED, desired STARTED, not `start_explicit`.
   - `dinitctl release c`: `stop(false)` changes nothing, and the daemon
     answers ACK because c is not STOPPED.
   - No event follows, so the wait loop blocks for ever.

   `wake` then `stop` of a record that is still STARTING hangs the same
   way: `stop()` leaves the woken record's desired state alone, and
   `do_stop()` returns.

10. **A stop during a BGPROCESS smooth recovery leaves a stopped record
    watching a daemon** (service.cc:215-242, 279).
    - c's daemon exits while STARTED; `handle_exit_status()` sets
      `doing_recovery` and relaunches.
    - The launcher exits before its exec status is read, so its exit is
      saved for later.
    - Stop c: pid is -1, so c is STOPPED at once. `stopped()` does not
      clear `doing_recovery`.
    - The exec status arrives: pid is -1, so the exit is replayed. The
      `doing_recovery` branch reads the pid file and watches the daemon it
      names, for a STOPPED record (spec §8 property 3: a stopped process
      record has pid -1). If the launcher had failed, the branch calls
      `emergency_stop()` on the STOPPED record and `stopped()` runs twice,
      which drives `active_services` below zero.

**Further consequences of the same causes.** TLC reached these while the
model was built. No run is kept for them, because they share the causes
above.

- **A process that cannot interrupt its launch starts over a stopping
  dependency** (service.cc:1093-1099 with 766-770).
  - b (a process, woken) has forked; c is stopped. `do_stop()` on b only
    stops b's dependents.
  - The exec succeeds; `started()` stops only for `force_stop` or desired
    STOPPED, so b is STARTED while c is STOPPING, and c waits for b for
    ever.
- **A stopped launch whose exec fails leaks an active service**
  (service.cc:781-793, the same early return of `do_stop()`). `release()` has
  already cleared `start_explicit`, so `failed_to_start()` calls neither
  `release()` nor `service_inactive()`. `active_services` stays 1 with
  everything stopped.
- **The same sequence hangs `dinitctl stop`.** The wait loop accepts only
  STOPPED or STOPCANCELLED (dinitctl.cc:373-376), but `failed_to_start()`
  notifies FAILEDSTART (service.cc:794).
- **A dependency that crashes in its start window hangs
  `dinitctl start b`.** The replayed exit force-stops b, which is STARTING
  and cannot be interrupted (service.cc:1093). b stays STARTING for ever.
- **A fork failure during smooth recovery** (service.cc:1288-1296) leaves
  the record STARTED with no process, like finding 7. `do_restart()` calls
  `forceStop()`, which only queues the record, and `execute_transition()`
  ignores a STARTED record.
- **A record that starts on the console keeps it through a stop on the
  restart timer** (service.cc:63-66 with 1243-1249). It owns the console
  while it waits for the timer. A stop calls `interrupt_start()`, which only
  unqueues a waiter, and `stopped()` releases only for `runs_on_console`.
  When the record is started again it queues behind itself, as in finding 5.
- **The double release of finding 1 gives the console two owners.** A
  record that starts on the console and whose socket fails releases it in
  `failed_to_start()` and again in `started()`. The first release hands it
  to a waiter or the log, and the second hands it to the next one while the
  first still owns it.

## Not yet modelled, and the plan

In the order they will be added:

1. **An abstract service specification** (`ServiceAbstract`): per record, a
   desired and an actual state with the dependency ordering. `Service` would
   be shown to refine it through `INSTANCE ... WITH`, mapping queue-internal
   states to the abstract state of the last quiescent point.
2. **dinitctl list and shutdown**, and shutdown in the engine:
   `auto_restart` turned off, and stop of all records.

The pid itself is not modelled, only what `read_pid_file()` finds. A pid
file without a number makes `atoi()` return 0, and `waitpid(0)` and
`kill(0, 0)` then act on dinit's whole process group (service.cc:715-720).
That needs process groups and pid reuse, which the model abstracts away.

The one-byte over-read of the unpin and unload requests (dinitctl.cc:494-498,
544-548) is out of reach. `DinitCtl` has packets as records, not bytes, and
what the daemon makes of the extra byte is decided in control.cc, which is
not under src/.
