------------------------------ MODULE DinitCtl ------------------------------
(***************************************************************************)
(* dinitctl (src/src/dinitctl.cc) driving the engine of Service over the   *)
(* daemon's control socket.  Invocations of dinitctl follow one another;    *)
(* each opens a connection, writes request packets (to_daemon) and reads    *)
(* the reply and information packets the daemon writes back (to_client).   *)
(*                                                                         *)
(* The daemon's side of the connection (control.cc) is not under src/: its *)
(* handlers are modelled from the wire vocabulary of spec section 6.  A    *)
(* request is read and applied when the engine is quiescent; the reply to  *)
(* a start or stop command is written after process_queues() returns, and  *)
(* ALREADYSS is chosen by the state the record is in then.  Events that    *)
(* the queue steps emit (Notify in Service) are therefore written before   *)
(* the reply.                                                               *)
(***************************************************************************)
EXTENDS Service

CONSTANTS
    Names,      \* the names dinitctl may be given: Svc and unknown names
    Commands,   \* the commands invoked, a subset of CtlCommands
    Pins,       \* the values --pin may take
    MaxCrashes  \* bound on the exits of running children nobody signalled

VARIABLES
    cpc,        \* "idle" (no dinitctl running), "load" (awaiting the load
                \* reply), "cmd" (awaiting the command reply), "wait"
                \* (awaiting the service event)
    ccmd, cname, cpin, cwait,  \* the command line of the invocation
    exit_code,  \* the exit status of the last invocation
    to_daemon,  \* request packets written by dinitctl, not yet read
    reply_due,  \* the request whose reply the daemon sends once
                \* process_queues() has returned, or NoReply
    crashes     \* exits of children that were not signalled, so far

ctlvars == <<cpc, ccmd, cname, cpin, cwait, exit_code, to_daemon, reply_due>>
allvars == <<vars, ctlvars, crashes>>

CtlCommands == {"start", "wake", "stop", "release", "unpin", "unload"}
StartStop == {"start", "wake", "stop", "release"}
NoReply == [op |-> "NONE", name |-> "NONE", pin |-> FALSE]

\* The request packet of each command (start_stop_service(): pcommand).
CmdOp == [start |-> "START", wake |-> "WAKE", stop |-> "STOP",
          release |-> "RELEASE", unpin |-> "UNPIN", unload |-> "UNLOAD"]

Packet(k, s, v) == [kind |-> k, svc |-> s, val |-> v]
IsInfo(p) == p.kind = "EVENT"

\* start_stop_service(): do_stop, and the events it waits for.
DoStopCmd(c) == c \in {"stop", "release"}
Wanted(c) == IF DoStopCmd(c) THEN STOPPED ELSE STARTED
\* Mutant: the wait loop looks for STARTED whatever the command.
CompletionStarted(c) == "STARTED"
Completion(c) == IF DoStopCmd(c) THEN "STOPPED" ELSE "STARTED"
Failure(c) == IF DoStopCmd(c) THEN {"STOPCANCELLED"}
              ELSE {"STARTCANCELLED", "FAILEDSTART"}

\* issue_load_service(): FIND for unload (find_only), LOAD otherwise.
LoadRequest(c, n) ==
    [op |-> IF c = "unload" THEN "FIND" ELSE "LOAD", name |-> n, pin |-> FALSE]

\* unpin_service() / unload_service(): the exit code for the command's reply.
AckResult(r) == IF r.kind = "ACK" THEN 0 ELSE 1

\* wait_for_reply(): information packets (type >= 100) ahead of the reply
\* are read and discarded.
\* Mutant: the first packet is taken as the reply, whatever its type.
SkipInfoNone(q) == q
RECURSIVE SkipInfo(_)
SkipInfo(q) == IF q # <<>> /\ IsInfo(Head(q)) THEN SkipInfo(Tail(q)) ELSE q

-----------------------------------------------------------------------------
(* The daemon's control connection (control.cc, from spec section 6).      *)

\* LOAD / FIND: a handle to the record (the connection listens to it from
\* then on), or NOSERVICE for a name no service has.
LoadService(st, n) ==
    IF n \in Svc
    THEN [st EXCEPT !.listening[n] = TRUE,
                    !.to_client = Append(@, Packet("SERVICERECORD", n,
                                                   st.service_state[n]))]
    ELSE [st EXCEPT !.to_client = Append(@, Packet("NOSERVICE", n, "NONE"))]

\* START / WAKE / STOP / RELEASE, with the pin flag, and UNPIN.
ApplyCommand(st, r, ev) ==
    LET s == r.name IN
    CASE r.op = "START"   -> Start(IF r.pin THEN PinStart(st, s) ELSE st, s, TRUE)
      [] r.op = "WAKE"    -> Start(IF r.pin THEN PinStart(st, s) ELSE st, s, FALSE)
      [] r.op = "STOP"    -> Stop(IF r.pin THEN PinStop(st, s) ELSE st, s, TRUE)
      [] r.op = "RELEASE" -> Stop(IF r.pin THEN PinStop(st, s) ELSE st, s, FALSE)
      [] r.op = "UNPIN"   -> Unpin(st, s, ev)

\* UNLOADSERVICE: ACK when the record is stopped and no record depends on
\* it.  Removing the record is not modelled: it is reloaded as it was.
Unloadable(st, s) ==
    st.service_state[s] = STOPPED /\ Dependents(s) = <<>> /\ SoftDpts(s) = <<>>

\* A start, stop or unpin command is answered after process_queues(); LOAD,
\* FIND and UNLOAD are answered at once.
\* Mutant: LOAD is also held back until after process_queues().
ReplyOwedLoad(r) == r.op \notin {"FIND", "UNLOAD"}
ReplyOwed(r) == r.op \notin {"LOAD", "FIND", "UNLOAD"}

DaemonRequest ==
    /\ Quiescent
    /\ reply_due = NoReply
    /\ to_daemon # <<>>
    /\ to_daemon' = Tail(to_daemon)
    /\ LET r == Head(to_daemon) IN
       /\ reply_due' = IF ReplyOwed(r) THEN r ELSE NoReply
       /\ CASE r.op \in {"LOAD", "FIND"} -> Commit(LoadService(Cur, r.name))
            [] r.op = "UNLOAD" ->
                 Commit([Cur EXCEPT !.to_client = Append(@, Packet(
                            IF Unloadable(Cur, r.name) THEN "ACK" ELSE "NAK",
                            r.name, "NONE"))])
            [] OTHER -> \E ev \in Env : Commit(ApplyCommand(Cur, r, ev))
    /\ UNCHANGED <<cpc, ccmd, cname, cpin, cwait, exit_code>>

\* The reply, once process_queues() has returned: ALREADYSS when the record
\* is in the state the command asks for, else ACK.
CommandReply(r) ==
    IF r.op # "UNPIN" /\ service_state[r.name] = Wanted(
                             CHOOSE c \in StartStop : CmdOp[c] = r.op)
    THEN "ALREADYSS" ELSE "ACK"

DaemonReply ==
    /\ Quiescent
    /\ reply_due # NoReply
    /\ Commit([Cur EXCEPT !.to_client = Append(@, Packet(
                     CommandReply(reply_due), reply_due.name, "NONE"))])
    /\ reply_due' = NoReply
    /\ UNCHANGED <<cpc, ccmd, cname, cpin, cwait, exit_code, to_daemon>>

-----------------------------------------------------------------------------
(* dinitctl.                                                               *)

\* The process exits with code c; closing the connection drops its handles
\* (the listeners) and whatever was not read.
Exit(c) ==
    /\ cpc' = "idle"
    /\ exit_code' = c
    /\ to_daemon' = <<>>
    /\ Commit([Cur EXCEPT !.listening = [s \in Svc |-> FALSE],
                          !.to_client = <<>>])
    /\ UNCHANGED <<ccmd, cname, cpin, cwait, reply_due>>

\* main(): a command line is parsed and the command's function called; each
\* begins with issue_load_service() (FIND for unload).  --pin and --no-wait
\* are read only by start_stop_service().
Invoke ==
    /\ cpc = "idle"
    /\ \E c \in Commands, n \in Names :
       \E p \in (IF c \in StartStop THEN Pins ELSE {FALSE}),
          w \in (IF c \in StartStop THEN BOOLEAN ELSE {TRUE}) :
          /\ cpc' = "load"
          /\ ccmd' = c /\ cname' = n /\ cpin' = p /\ cwait' = w
          /\ to_daemon' = <<LoadRequest(c, n)>>
    /\ UNCHANGED <<exit_code, reply_due>>
    /\ UNCHANGED vars

\* wait_for_reply() then check_load_reply(): with a SERVICERECORD the
\* command packet is written at once.  Otherwise start_stop_service()
\* returns 0, unpin_service() and unload_service() return 1.
LoadReply ==
    /\ cpc = "load"
    /\ SkipInfo(to_client) # <<>>
    /\ LET r == Head(SkipInfo(to_client)) IN
       IF r.kind = "SERVICERECORD"
       THEN /\ cpc' = "cmd"
            /\ to_daemon' = Append(to_daemon, [op |-> CmdOp[ccmd],
                                               name |-> cname, pin |-> cpin])
            /\ Commit([Cur EXCEPT !.to_client = Tail(SkipInfo(@))])
            /\ UNCHANGED <<ccmd, cname, cpin, cwait, exit_code, reply_due>>
       ELSE Exit(IF ccmd \in StartStop THEN 0 ELSE 1)

\* wait_for_reply() for the command's reply.  start_stop_service():
\* ALREADYSS is success, anything but ACK a protocol error, and with ACK it
\* returns at once under --no-wait and otherwise waits for the event.
\* unpin_service() and unload_service(): ACK is success, else failure.
CommandResult ==
    /\ cpc = "cmd"
    /\ SkipInfo(to_client) # <<>>
    /\ LET r == Head(SkipInfo(to_client)) IN
       IF ccmd \in StartStop
       THEN CASE r.kind = "ALREADYSS" -> Exit(0)
              [] r.kind # "ACK"       -> Exit(1)
              [] ~cwait               -> Exit(0)
              [] OTHER ->
                   /\ cpc' = "wait"
                   /\ Commit([Cur EXCEPT !.to_client = Tail(SkipInfo(@))])
                   /\ UNCHANGED <<ccmd, cname, cpin, cwait, exit_code,
                                  to_daemon, reply_due>>
       ELSE Exit(AckResult(r))

\* The wait loop of start_stop_service(): an event of the handle that
\* completes the command ends it with 0, one that cancels it (or a failed
\* start) with 1; other information packets are consumed; a reply packet
\* is a protocol error.
WaitEvent ==
    /\ cpc = "wait"
    /\ to_client # <<>>
    /\ LET p == Head(to_client) IN
       CASE ~IsInfo(p) -> Exit(1)
         [] p.svc = cname /\ p.val = Completion(ccmd) -> Exit(0)
         [] p.svc = cname /\ p.val \in Failure(ccmd) -> Exit(1)
         [] OTHER ->
              /\ Commit([Cur EXCEPT !.to_client = Tail(@)])
              /\ UNCHANGED ctlvars

-----------------------------------------------------------------------------

CtlInit ==
    /\ Init
    /\ cpc = "idle"
    /\ ccmd \in Commands /\ cname \in Names /\ cpin = FALSE /\ cwait = TRUE
    /\ exit_code = 0
    /\ to_daemon = <<>>
    /\ reply_due = NoReply
    /\ crashes = 0

\* The child's exit is expected: its record is STOPPING and no longer
\* waiting for dependents (all_deps_stopped() has signalled it), or its exec
\* failed and it calls _exit(0).
Signalled(s) ==
    \/ service_state[s] = STOPPING /\ ~waiting_for_deps[s]
    \/ pipe[s] = "ERRNO"

\* A child or timer event is dispatched by the event loop, which the control
\* handler does not return to before it has written its reply.  A child
\* that was not signalled may exit at any time, MaxCrashes times at most.
EngineEvent ==
    /\ reply_due = NoReply
    /\ \/ \E s \in Proc, ok \in BOOLEAN :
             /\ ChildExit(s, ok)
             /\ IF Signalled(s) THEN UNCHANGED crashes
                ELSE crashes < MaxCrashes /\ crashes' = crashes + 1
       \/ /\ \/ \E s \in Proc : ChildExec(s) \/ ExecStatusRead(s) \/ RestartTimerExpiry(s)
             \/ ConsoleLogRelease
          /\ UNCHANGED crashes
    /\ UNCHANGED ctlvars

CtlNext ==
    \/ /\ \/ ProcessQueues /\ UNCHANGED ctlvars
          \/ DaemonRequest
          \/ DaemonReply
          \/ Invoke
          \/ LoadReply
          \/ CommandResult
          \/ WaitEvent
       /\ UNCHANGED crashes
    \/ EngineEvent

\* Fairness.  dinitctl's steps need nothing but the packets they read, and
\* the daemon writes a reply owed as soon as process_queues() has returned:
\* these are weakly fair.  process_queues() runs to completion, so its
\* steps are weakly fair too.  The handlers the event loop dispatches (a
\* control request, a child's exec or exit, the exec-status pipe, the
\* restart timer) run only when the queues are empty, which another event
\* can keep undoing; the loop polls every ready descriptor on each turn, so
\* each of them is strongly fair, and so is the log handing the console to
\* a waiting record.  A child's exit is fair only when it is
\* expected (Signalled): a running service may run for ever.
\*
\* For the engine's steps ENABLED is written as the state predicate it
\* equals (the step's guard, with the event loop free): each of them
\* changes a variable its guard reads (a queue, to_daemon, child, pipe,
\* restart_count), so none stutters.
Dispatchable == Quiescent /\ reply_due = NoReply

CtlFairness ==
    /\ <>[](~Quiescent) => []<><<ProcessQueues /\ UNCHANGED <<ctlvars, crashes>>>>_allvars
    /\ []<>(Dispatchable /\ to_daemon # <<>>) => []<><<DaemonRequest /\ UNCHANGED crashes>>_allvars
    /\ WF_allvars(DaemonReply /\ UNCHANGED crashes)
    /\ WF_allvars(LoadReply /\ UNCHANGED crashes)
    /\ WF_allvars(CommandResult /\ UNCHANGED crashes)
    /\ WF_allvars(WaitEvent /\ UNCHANGED crashes)
    /\ \A s \in Proc :
          /\ []<>(Dispatchable /\ child[s] = "FORKED")
                => []<><<ChildExec(s) /\ UNCHANGED <<ctlvars, crashes>>>>_allvars
          /\ []<>(Dispatchable /\ pipe[s] \in {"EOF", "ERRNO"})
                => []<><<ExecStatusRead(s) /\ UNCHANGED <<ctlvars, crashes>>>>_allvars
          /\ []<>(Dispatchable /\ waiting_restart_timer[s])
                => []<><<RestartTimerExpiry(s) /\ UNCHANGED <<ctlvars, crashes>>>>_allvars
          /\ []<>(Dispatchable /\ child[s] = "EXECED" /\ Signalled(s))
                => []<><<\E ok \in BOOLEAN : ChildExit(s, ok)
                         /\ UNCHANGED <<ctlvars, crashes>>>>_allvars
    /\ []<>(Dispatchable /\ "LOG" \in console_holders /\ console_queue # <<>>)
          => []<><<ConsoleLogRelease /\ UNCHANGED <<ctlvars, crashes>>>>_allvars

CtlSpec == CtlInit /\ [][CtlNext]_allvars /\ CtlFairness

-----------------------------------------------------------------------------
(* Properties.                                                             *)

CtlTypeOK ==
    /\ cpc \in {"idle", "load", "cmd", "wait"}
    /\ ccmd \in Commands /\ cname \in Names /\ cpin \in BOOLEAN
    /\ cwait \in BOOLEAN
    /\ exit_code \in {0, 1}
    /\ crashes \in 0 .. MaxCrashes
    /\ to_daemon \in Seq([op : {"LOAD", "FIND"} \cup {CmdOp[c] : c \in CtlCommands},
                          name : Names, pin : BOOLEAN])
    /\ reply_due \in {NoReply} \cup [op : {"START", "WAKE", "STOP", "RELEASE",
                                          "UNPIN"},
                                     name : Svc, pin : BOOLEAN]
    /\ to_client \in Seq([kind : {"EVENT", "SERVICERECORD", "NOSERVICE", "ACK",
                                  "NAK", "ALREADYSS"},
                          svc : Names, val : Events \cup States \cup {"NONE"}])

\* Requests and replies stay paired on the connection: while dinitctl is in
\* wait_for_reply() (load or command phase) exactly one of its request, the
\* reply the daemon owes and the unread reply exists, and none otherwise.
\* dinitctl writes a request only after reading the previous reply, the
\* daemon answers each request once, and wait_for_reply() skips only
\* information packets.
Replies == {i \in 1 .. Len(to_client) : ~IsInfo(to_client[i])}
Outstanding ==
    Len(to_daemon) + Cardinality(Replies) + (IF reply_due # NoReply THEN 1 ELSE 0)

RepliesPaired == Outstanding = IF cpc \in {"load", "cmd"} THEN 1 ELSE 0

\* Every dinitctl invocation ends: the reply to each request it writes
\* arrives, and when it waits for a service (start_stop_service() without
\* --no-wait) the event that completes or cancels its command is written
\* after the ACK it reads, so the wait loop does not read until the
\* connection closes.
ClientReturns == cpc # "idle" ~> cpc = "idle"

\* A dinitctl command whose service cannot be found fails: spec section 6
\* gives exit code 1 to any failed start or stop.  start_stop_service()
\* returns 0 when check_load_reply() reports NOSERVICE.
NotFoundFails ==
    [][cpc # "idle" /\ cpc' = "idle" /\ cname \notin Svc => exit_code' = 1]_allvars

====
