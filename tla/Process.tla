------------------------------- MODULE Process -------------------------------
(***************************************************************************)
(* The per-worker Process supervisor of src/process.rs: an actor that owns *)
(* one forked worker, reads its framed messages, runs the startup, stop,   *)
(* heartbeat and kill timers, and signals the worker's pid.                *)
(*                                                                         *)
(* Each element of Actors is one incarnation: one Process::start call,     *)
(* i.e. one fork and (if the fork succeeds) one supervisor task.  The      *)
(* operating system's pid table is modelled so that a pid freed by the     *)
(* reaper can be handed to a later fork, of ours or of a foreign program.  *)
(* The worker, the service that sends commands, the reaper and the passage *)
(* of time are the environment of this module; System.tla replaces them   *)
(* by the Service and CommandCenter models.                                *)
(***************************************************************************)
EXTENDS Naturals, Sequences, FiniteSets, Functions

CONSTANTS
    Actors,     \* incarnation ids: one per Process::start call
    Pids,       \* the pids the operating system can hand out
    MaxMsgs     \* bound on the frames one worker writes to its pipe

ASSUME MaxMsgs \in Nat /\ Actors # {} /\ Pids # {}

\* Owner of a pid that is not one of our workers, and of a free pid.
Free == "free"
Foreign == "foreign"
NoPid == "nopid"

\* ProcessState (process.rs 52-58); "unborn" and "gone" are not code states:
\* they stand for "Process::start not yet called" and "fork failed".
States == {"Starting", "Running", "Stopping", "Failed"}

\* WorkerMessage as decoded from a frame; "malformed" is a frame whose JSON
\* payload does not parse, which the decoder turns into an io::Error.
WorkerMsgs == {"forked", "loaded", "hb", "reload", "restart", "cfgerror",
               "malformed"}

\* WorkerCommand values the supervisor writes to the worker's pipe.
WorkerCmds == {"prepare", "start", "pause", "resume", "stop", "hb"}

\* The futures added to the actor context: ProcessMessage timer variants.
Timers == {"StartupTimeout", "StopTimeout", "Heartbeat", "Kill"}

\* Upward messages to the owning FeService.
Loaded == [ev |-> "ProcessLoaded"]
Failed(err) == [ev |-> "ProcessFailed", err |-> err]
Forwarded(m) == [ev |-> "ProcessMessage", msg |-> m]

VARIABLES
    task,     \* supervisor task: "unborn", "live", "dead" or "gone"
    pstate,   \* Process.state
    pid,      \* Process.pid
    timers,   \* pending timer futures of the actor context
    hbStale,  \* TRUE when now - Process.hb > Process.timeout
    pipe,     \* frames written by the worker and not yet handled
    nmsg,     \* number of frames the worker has written
    cmds,     \* WorkerCommands written to the worker
    up,       \* messages sent to the service, per incarnation
    wstate,   \* the worker OS process: "none", "alive", "zombie", "reaped"
    osPid,    \* pid table: the incarnation, Foreign or Free owning each pid
    stray     \* incarnations that signalled a pid their worker did not hold

procVars == <<task, pstate, pid, timers, hbStale, pipe, nmsg, cmds, up>>
osVars == <<wstate, osPid, stray>>
vars == <<procVars, osVars>>

-----------------------------------------------------------------------------
(* Helpers                                                                 *)

Live(a) == task[a] = "live"

\* nix::sys::signal::kill(self.pid, sig) for every sig in sigs, sent in one
\* handler.  A SIGKILL ends whichever worker currently holds the pid; the
\* signal is stray when that pid is no longer held by this incarnation.
SendSignals(a, sigs) ==
    LET p   == pid[a]
        tgt == osPid[p]
    IN  /\ stray' = IF tgt = a THEN stray ELSE stray \cup {a}
        /\ wstate' = IF /\ "SIGKILL" \in sigs
                        /\ tgt \in Actors
                        /\ wstate[tgt] = "alive"
                     THEN [wstate EXCEPT ![tgt] = "zombie"]
                     ELSE wstate
        /\ UNCHANGED osPid

\* Mutant: a teardown without the Drop SIGKILL (no last-resort kill).
TeardownWithoutDrop(a, sigs) ==
    /\ task' = [task EXCEPT ![a] = "dead"]
    /\ timers' = [timers EXCEPT ![a] = {}]
    /\ SendSignals(a, sigs)

\* ctx.stop() / ctx.terminate(): the task ends, its futures are dropped and
\* Drop for Process sends the last-resort SIGKILL (process.rs 230-234).
\* `sigs` are the signals the handler itself sent before stopping.
Teardown(a, sigs) ==
    /\ task' = [task EXCEPT ![a] = "dead"]
    /\ timers' = [timers EXCEPT ![a] = {}]
    /\ SendSignals(a, sigs \cup {"SIGKILL"})

PopPipe(a) == pipe' = [pipe EXCEPT ![a] = Tail(@)]

Report(a, e) == up' = [up EXCEPT ![a] = Append(@, e)]

Send(a, c) == cmds' = [cmds EXCEPT ![a] = @ \cup {c}]

Arm(a, t) == timers' = [timers EXCEPT ![a] = @ \cup {t}]

\* ProcessError::from (process.rs 91-100): the reserved exit codes.
ProcessErrorOf(code) ==
    CASE code = 98  -> "StartupTimeout"
      [] code = 99  -> "InitFailed"
      [] code = 100 -> "BootFailed"
      [] OTHER      -> "ExitCode"

-----------------------------------------------------------------------------
(* Process::start, Process::fork, Process::create_pipes (124-214)          *)

\* Both pipes are created, fork succeeds on a free pid, the parent keeps its
\* ends and the framed actor starts in Starting with hb = now and the
\* StartupTimeout future armed.
Start(a) ==
    /\ task[a] = "unborn"
    /\ \E p \in Pids :
        /\ osPid[p] = Free
        /\ osPid' = [osPid EXCEPT ![p] = a]
        /\ pid' = [pid EXCEPT ![a] = p]
    /\ task' = [task EXCEPT ![a] = "live"]
    /\ pstate' = [pstate EXCEPT ![a] = "Starting"]
    /\ timers' = [timers EXCEPT ![a] = {"StartupTimeout"}]
    /\ hbStale' = [hbStale EXCEPT ![a] = FALSE]
    /\ wstate' = [wstate EXCEPT ![a] = "alive"]
    /\ UNCHANGED <<pipe, nmsg, cmds, up, stray>>

\* pipe() or fork() fails: ProcessFailed(idx, -1, FailedToStart) goes up and
\* no actor is created.
StartFailed(a) ==
    /\ task[a] = "unborn"
    /\ task' = [task EXCEPT ![a] = "gone"]
    /\ Report(a, Failed("FailedToStart"))
    /\ UNCHANGED <<pstate, pid, timers, hbStale, pipe, nmsg, cmds, osVars>>

-----------------------------------------------------------------------------
(* Handler<ProcessMessage>::handle, ProcessMessage::Message (254-308)      *)

Recv(a, m) == /\ Live(a) /\ pipe[a] # <<>> /\ Head(pipe[a]) = m /\ PopPipe(a)

RecvForked(a) ==
    /\ Recv(a, "forked")
    /\ Send(a, "prepare")
    /\ UNCHANGED <<task, pstate, pid, timers, hbStale, nmsg, up, osVars>>

\* Mutant: `loaded` handled without matching on the state.
RecvLoadedNoStateCheck(a) ==
    /\ Recv(a, "loaded")
    /\ Report(a, Loaded)
    /\ pstate' = [pstate EXCEPT ![a] = "Running"]
    /\ hbStale' = [hbStale EXCEPT ![a] = FALSE]
    /\ Arm(a, "Heartbeat")
    /\ UNCHANGED <<task, pid, nmsg, cmds, osVars>>

\* In Starting: report ProcessLoaded, enter Running, reset hb and start the
\* heartbeat timer; in any other state the message is only logged.
RecvLoaded(a) ==
    /\ Recv(a, "loaded")
    /\ \/ /\ pstate[a] = "Starting"
          /\ Report(a, Loaded)
          /\ pstate' = [pstate EXCEPT ![a] = "Running"]
          /\ hbStale' = [hbStale EXCEPT ![a] = FALSE]
          /\ Arm(a, "Heartbeat")
       \/ /\ pstate[a] # "Starting"
          /\ UNCHANGED <<pstate, hbStale, timers, up>>
    /\ UNCHANGED <<task, pid, nmsg, cmds, osVars>>

RecvHb(a) ==
    /\ Recv(a, "hb")
    /\ hbStale' = [hbStale EXCEPT ![a] = FALSE]
    /\ UNCHANGED <<task, pstate, pid, timers, nmsg, cmds, up, osVars>>

\* `reload` and `restart` requests are forwarded as service::ProcessMessage.
RecvRequest(a) ==
    /\ \E m \in {"reload", "restart"} : Recv(a, m) /\ Report(a, Forwarded(m))
    /\ UNCHANGED <<task, pstate, pid, timers, hbStale, nmsg, cmds, osVars>>

\* Mutant: cfgerror handled by the request arm, forwarded as a ProcessMessage.
RecvCfgErrorForwarded(a) ==
    /\ Recv(a, "cfgerror")
    /\ Report(a, Forwarded("cfgerror"))
    /\ UNCHANGED <<task, pstate, pid, timers, hbStale, nmsg, cmds, osVars>>

\* cfgerror is reported as ProcessFailed(ConfigError); the state is kept.
RecvCfgError(a) ==
    /\ Recv(a, "cfgerror")
    /\ Report(a, Failed("ConfigError"))
    /\ UNCHANGED <<task, pstate, pid, timers, hbStale, nmsg, cmds, osVars>>

\* A frame that does not decode: Handler::error calls kill(ctx, false)
\* (process.rs 250-252, 216-227): SIGKILL and terminate.
RecvMalformed(a) ==
    /\ Recv(a, "malformed")
    /\ Teardown(a, {"SIGKILL"})
    /\ UNCHANGED <<pstate, pid, hbStale, nmsg, cmds, up>>

\* Mutant: finished() sends SIGKILL but does not terminate the context.
PipeClosedNoTerminate(a) ==
    /\ Live(a)
    /\ pipe[a] = <<>>
    /\ wstate[a] \in {"zombie", "reaped"}
    /\ SendSignals(a, {"SIGKILL"})
    /\ UNCHANGED <<task, timers, pstate, pid, hbStale, pipe, nmsg, cmds, up>>

\* The worker's write end is closed and every frame has been read:
\* StreamHandler::finished calls kill(ctx, false) (process.rs 238-241).
PipeClosed(a) ==
    /\ Live(a)
    /\ pipe[a] = <<>>
    /\ wstate[a] \in {"zombie", "reaped"}
    /\ Teardown(a, {"SIGKILL"})
    /\ UNCHANGED <<pstate, pid, hbStale, pipe, nmsg, cmds, up>>

-----------------------------------------------------------------------------
(* Handler<ProcessMessage>::handle, the timer variants (309-367)           *)

Due(a, t) == Live(a) /\ t \in timers[a]

\* Mutant: the Kill future re-checks the state like the other timers and
\* only kills a worker that is not Running.
KillNotWhenRunning(a) ==
    /\ Due(a, "Kill")
    /\ \/ /\ pstate[a] # "Running"
          /\ Teardown(a, {"SIGKILL"})
       \/ /\ pstate[a] = "Running"
          /\ timers' = [timers EXCEPT ![a] = @ \ {"Kill"}]
          /\ UNCHANGED <<task, osVars>>
    /\ UNCHANGED <<pstate, pid, hbStale, pipe, nmsg, cmds, up>>

\* Mutant: the StartupTimeout handler does not re-check the state.
StartupTimeoutNoStateCheck(a) ==
    /\ Due(a, "StartupTimeout")
    /\ Report(a, Failed("StartupTimeout"))
    /\ pstate' = [pstate EXCEPT ![a] = "Failed"]
    /\ Teardown(a, {"SIGKILL"})
    /\ UNCHANGED <<pid, hbStale, pipe, nmsg, cmds>>

\* A pending timer is never cancelled: the handler re-checks the state.
StartupTimeoutFires(a) ==
    /\ Due(a, "StartupTimeout")
    /\ \/ /\ pstate[a] = "Starting"
          /\ Report(a, Failed("StartupTimeout"))
          /\ pstate' = [pstate EXCEPT ![a] = "Failed"]
          /\ Teardown(a, {"SIGKILL"})
       \/ /\ pstate[a] # "Starting"
          /\ timers' = [timers EXCEPT ![a] = @ \ {"StartupTimeout"}]
          /\ UNCHANGED <<task, pstate, up, osVars>>
    /\ UNCHANGED <<pid, hbStale, pipe, nmsg, cmds>>

StopTimeoutFires(a) ==
    /\ Due(a, "StopTimeout")
    /\ \/ /\ pstate[a] = "Stopping"
          /\ Report(a, Failed("StopTimeout"))
          /\ pstate' = [pstate EXCEPT ![a] = "Failed"]
          /\ Teardown(a, {"SIGKILL"})
       \/ /\ pstate[a] # "Stopping"
          /\ timers' = [timers EXCEPT ![a] = @ \ {"StopTimeout"}]
          /\ UNCHANGED <<task, pstate, up, osVars>>
    /\ UNCHANGED <<pid, hbStale, pipe, nmsg, cmds>>

\* Mutant: a fresh heartbeat sends `hb` but does not re-arm the timer.
HeartbeatNoRearm(a) ==
    /\ Due(a, "Heartbeat")
    /\ timers' = [timers EXCEPT ![a] = @ \ {"Heartbeat"}]
    /\ \/ /\ pstate[a] = "Running" /\ hbStale[a]
          /\ Report(a, Failed("Heartbeat"))
          /\ UNCHANGED cmds
       \/ /\ pstate[a] = "Running" /\ ~hbStale[a]
          /\ Send(a, "hb")
          /\ UNCHANGED up
       \/ /\ pstate[a] # "Running"
          /\ UNCHANGED <<cmds, up>>
    /\ UNCHANGED <<task, pstate, pid, hbStale, pipe, nmsg, osVars>>

\* In Running: a stale hb is reported as ProcessFailed(Heartbeat) and the
\* timer is not re-armed; a fresh one sends `hb` and re-arms the timer.
HeartbeatFires(a) ==
    /\ Due(a, "Heartbeat")
    /\ \/ /\ pstate[a] = "Running" /\ hbStale[a]
          /\ Report(a, Failed("Heartbeat"))
          /\ timers' = [timers EXCEPT ![a] = @ \ {"Heartbeat"}]
          /\ UNCHANGED cmds
       \/ /\ pstate[a] = "Running" /\ ~hbStale[a]
          /\ Send(a, "hb")
          /\ UNCHANGED <<timers, up>>
       \/ /\ pstate[a] # "Running"
          /\ timers' = [timers EXCEPT ![a] = @ \ {"Heartbeat"}]
          /\ UNCHANGED <<cmds, up>>
    /\ UNCHANGED <<task, pstate, pid, hbStale, pipe, nmsg, osVars>>

KillFires(a) ==
    /\ Due(a, "Kill")
    /\ Teardown(a, {"SIGKILL"})
    /\ UNCHANGED <<pstate, pid, hbStale, pipe, nmsg, cmds, up>>

-----------------------------------------------------------------------------
(* Commands from the service (process.rs 373-501)                          *)

StartProcess(a) ==
    /\ Live(a) /\ Send(a, "start")
    /\ UNCHANGED <<task, pstate, pid, timers, hbStale, pipe, nmsg, up, osVars>>

PauseProcess(a) ==
    /\ Live(a) /\ Send(a, "pause")
    /\ UNCHANGED <<task, pstate, pid, timers, hbStale, pipe, nmsg, up, osVars>>

ResumeProcess(a) ==
    /\ Live(a) /\ Send(a, "resume")
    /\ UNCHANGED <<task, pstate, pid, timers, hbStale, pipe, nmsg, up, osVars>>

SendCommand(a, c) ==
    /\ Live(a) /\ Send(a, c)
    /\ UNCHANGED <<task, pstate, pid, timers, hbStale, pipe, nmsg, up, osVars>>

\* Mutant: StopProcess in Running never arms the StopTimeout future.
StopProcessNoTimeout(a) ==
    /\ Live(a)
    /\ \/ /\ pstate[a] = "Running"
          /\ Send(a, "stop")
          /\ pstate' = [pstate EXCEPT ![a] = "Stopping"]
          /\ SendSignals(a, {"SIGTERM"})
          /\ UNCHANGED <<task, timers>>
       \/ /\ pstate[a] # "Running"
          /\ Teardown(a, {"SIGQUIT"})
          /\ UNCHANGED <<pstate, cmds>>
    /\ UNCHANGED <<pid, hbStale, pipe, nmsg, up>>

\* Running: write `stop`, enter Stopping, arm StopTimeout and SIGTERM the
\* worker; if the timeout cannot be created, SIGQUIT and terminate.  In any
\* other state: SIGQUIT and terminate.
StopProcess(a) ==
    /\ Live(a)
    /\ \/ /\ pstate[a] = "Running"
          /\ Send(a, "stop")
          /\ pstate' = [pstate EXCEPT ![a] = "Stopping"]
          /\ \/ /\ Arm(a, "StopTimeout")
                /\ SendSignals(a, {"SIGTERM"})
                /\ UNCHANGED task
             \/ Teardown(a, {"SIGQUIT"})
       \/ /\ pstate[a] # "Running"
          /\ Teardown(a, {"SIGQUIT"})
          /\ UNCHANGED <<pstate, cmds>>
    /\ UNCHANGED <<pid, hbStale, pipe, nmsg, up>>

\* QuitProcess(true): SIGQUIT and a Kill future one second later;
\* QuitProcess(false): kill(ctx, false), another SIGKILL, terminate.
QuitProcess(a, graceful) ==
    /\ Live(a)
    /\ \/ /\ graceful
          /\ SendSignals(a, {"SIGQUIT"})
          /\ Arm(a, "Kill")
          /\ UNCHANGED task
       \/ /\ ~graceful
          /\ Teardown(a, {"SIGKILL"})
    /\ UNCHANGED <<pstate, pid, hbStale, pipe, nmsg, cmds, up>>

-----------------------------------------------------------------------------
(* Environment: the worker, the reaper, foreign programs and time          *)

\* The worker writes one frame (exec_worker and the application, not in src).
WorkerWrite(a) ==
    /\ wstate[a] = "alive" /\ nmsg[a] < MaxMsgs
    /\ \E m \in WorkerMsgs : pipe' = [pipe EXCEPT ![a] = Append(@, m)]
    /\ nmsg' = [nmsg EXCEPT ![a] = @ + 1]
    /\ UNCHANGED <<task, pstate, pid, timers, hbStale, cmds, up, osVars>>

\* The worker exits by itself (crash, exit code, or honouring a request).
WorkerExit(a) ==
    /\ wstate[a] = "alive"
    /\ wstate' = [wstate EXCEPT ![a] = "zombie"]
    /\ UNCHANGED <<procVars, osPid, stray>>

\* waitpid in the command center collects the zombie and frees its pid.
Reap(a) ==
    /\ wstate[a] = "zombie"
    /\ wstate' = [wstate EXCEPT ![a] = "reaped"]
    /\ osPid' = [osPid EXCEPT ![pid[a]] = Free]
    /\ UNCHANGED <<procVars, stray>>

\* Some other program forks and receives a free pid, and exits again.
ForeignFork(p) ==
    /\ osPid[p] = Free
    /\ osPid' = [osPid EXCEPT ![p] = Foreign]
    /\ UNCHANGED <<procVars, wstate, stray>>

ForeignExit(p) ==
    /\ osPid[p] = Foreign
    /\ osPid' = [osPid EXCEPT ![p] = Free]
    /\ UNCHANGED <<procVars, wstate, stray>>

\* More than Process.timeout passes without an `hb` frame.  Process.hb is
\* read only in Running (the Heartbeat handler), and the only way into
\* Running, `loaded`, sets it to now: a lapse is taken only there.
HeartbeatLapse(a) ==
    /\ Live(a) /\ pstate[a] = "Running" /\ ~hbStale[a]
    /\ hbStale' = [hbStale EXCEPT ![a] = TRUE]
    /\ UNCHANGED <<task, pstate, pid, timers, pipe, nmsg, cmds, up, osVars>>

-----------------------------------------------------------------------------
(* Specification                                                           *)

Init ==
    /\ task = [a \in Actors |-> "unborn"]
    /\ pstate = [a \in Actors |-> "Starting"]
    /\ pid = [a \in Actors |-> NoPid]
    /\ timers = [a \in Actors |-> {}]
    /\ hbStale = [a \in Actors |-> FALSE]
    /\ pipe = [a \in Actors |-> <<>>]
    /\ nmsg = [a \in Actors |-> 0]
    /\ cmds = [a \in Actors |-> {}]
    /\ up = [a \in Actors |-> <<>>]
    /\ wstate = [a \in Actors |-> "none"]
    /\ osPid = [p \in Pids |-> Free]
    /\ stray = {}

\* The steps the supervisor task itself takes on the event loop.
Supervise(a) ==
    \/ RecvForked(a) \/ RecvLoaded(a) \/ RecvHb(a) \/ RecvRequest(a)
    \/ RecvCfgError(a) \/ RecvMalformed(a) \/ PipeClosed(a)
    \/ StartupTimeoutFires(a) \/ StopTimeoutFires(a)
    \/ HeartbeatFires(a) \/ KillFires(a)

\* Calls the service makes on the supervisor.
Command(a) ==
    \/ Start(a) \/ StartFailed(a)
    \/ StartProcess(a) \/ PauseProcess(a) \/ ResumeProcess(a)
    \/ \E c \in WorkerCmds : SendCommand(a, c)
    \/ StopProcess(a)
    \/ \E g \in BOOLEAN : QuitProcess(a, g)

Environment ==
    \/ \E a \in Actors : WorkerWrite(a) \/ WorkerExit(a) \/ Reap(a)
                         \/ HeartbeatLapse(a)
    \/ \E p \in Pids : ForeignFork(p) \/ ForeignExit(p)

Next ==
    \/ \E a \in Actors : Supervise(a) \/ Command(a)
    \/ Environment

\* The event loop eventually polls every ready frame and every expired timer
\* of a live task: weak fairness on each of the task's own steps.
Fairness ==
    \A a \in Actors :
        /\ WF_vars(RecvForked(a)) /\ WF_vars(RecvLoaded(a))
        /\ WF_vars(RecvHb(a)) /\ WF_vars(RecvRequest(a))
        /\ WF_vars(RecvCfgError(a)) /\ WF_vars(RecvMalformed(a))
        /\ WF_vars(PipeClosed(a))
        /\ WF_vars(StartupTimeoutFires(a)) /\ WF_vars(StopTimeoutFires(a))
        /\ WF_vars(HeartbeatFires(a)) /\ WF_vars(KillFires(a))

Spec == Init /\ [][Next]_vars
FairSpec == Spec /\ Fairness

-----------------------------------------------------------------------------
(* Properties                                                              *)

TypeOK ==
    /\ task \in [Actors -> {"unborn", "live", "dead", "gone"}]
    /\ pstate \in [Actors -> States]
    /\ pid \in [Actors -> Pids \cup {NoPid}]
    /\ timers \in [Actors -> SUBSET Timers]
    /\ hbStale \in [Actors -> BOOLEAN]
    /\ pipe \in [Actors -> Seq(WorkerMsgs)]
    /\ nmsg \in [Actors -> 0..MaxMsgs]
    /\ cmds \in [Actors -> SUBSET WorkerCmds]
    /\ \A a \in Actors : Range(up[a]) \subseteq
           {Loaded} \cup {Forwarded(m) : m \in {"reload", "restart"}}
           \cup {Failed(e) : e \in {"FailedToStart", "StartupTimeout",
                                   "StopTimeout", "Heartbeat", "ConfigError"}}
    /\ wstate \in [Actors -> {"none", "alive", "zombie", "reaped"}]
    /\ osPid \in [Pids -> Actors \cup {Free, Foreign}]
    /\ stray \subseteq Actors

\* Drop for Process is load-bearing: once a supervisor task has ended, by
\* any path (timeouts, stop, quit, decode error, pipe EOF), its worker is
\* no longer running.  No worker is ever orphaned.
NoOrphanWorker ==
    \A a \in Actors : task[a] = "dead" => wstate[a] # "alive"

\* Timers are never cancelled, so the StartupTimeout armed at fork fires
\* even after `loaded`: a worker reported loaded is never also reported as
\* having timed out in startup, and StopTimeout is only ever reported for a
\* worker that had been reported loaded (Stopping is entered from Running).
StaleTimersIgnored ==
    \A a \in Actors :
        /\ ~(Loaded \in Range(up[a]) /\ Failed("StartupTimeout") \in Range(up[a]))
        /\ Failed("StopTimeout") \in Range(up[a]) => Loaded \in Range(up[a])

\* Spec 4.2, Heartbeat: a Running worker that stops sending `hb` is
\* reported as ProcessFailed(Heartbeat), unless it sends `hb` again or its
\* supervisor leaves Running or ends first.  Detection rests on the timer
\* chain: every fresh heartbeat must re-arm the Heartbeat timer.
HeartbeatLossReported ==
    \A a \in Actors :
        Live(a) /\ pstate[a] = "Running" /\ hbStale[a] ~>
            \/ Failed("Heartbeat") \in Range(up[a])
            \/ ~Live(a) \/ pstate[a] # "Running" \/ ~hbStale[a]

\* Spec 3 invariants: a supervisor leaves Starting within startup_timeout
\* and Stopping within shutdown_timeout, whatever the worker does.
TransientStatesEnd ==
    \A a \in Actors :
        /\ Live(a) /\ pstate[a] = "Starting" ~> ~Live(a) \/ pstate[a] # "Starting"
        /\ Live(a) /\ pstate[a] = "Stopping" ~> ~Live(a)

\* A supervisor whose worker has exited always ends its task: the pipe EOF
\* reaches StreamHandler::finished once the buffered frames are handled.
NoLingeringSupervisor ==
    \A a \in Actors : wstate[a] \in {"zombie", "reaped"} ~> ~Live(a)

\* QuitProcess(true) leaves the state as it is, so during the one-second
\* grace the supervisor keeps handling frames and timers: a `loaded` may
\* move it to Running and arm the heartbeat.  Whatever happens meanwhile,
\* a supervisor that was asked to quit ends its task.
QuitEnds ==
    \A a \in Actors : Live(a) /\ "Kill" \in timers[a] ~> ~Live(a)

\* The abstract lifecycle of WorkerLifecycle.tla seen through the
\* supervisor's state: a live task is in the phase of its ProcessState, a
\* task that ended (or whose fork failed) has ended.
PhaseOf == [Starting |-> "starting", Running |-> "running",
            Stopping |-> "stopping", Failed |-> "ended"]
LifecyclePhase ==
    [a \in Actors |-> CASE task[a] = "unborn" -> "unborn"
                        [] task[a] = "live"   -> PhaseOf[pstate[a]]
                        [] OTHER              -> "ended"]

Lifecycle == INSTANCE WorkerLifecycle WITH phase <- LifecyclePhase, up <- up

\* The supervisor implements the lifecycle it promises the service: every
\* report it sends, in every interleaving of frames, stale timers, commands
\* and worker exits, is one the abstract phase allows, and its state only
\* moves along the abstract lifecycle.
ImplementsLifecycle == Lifecycle!Spec

\* The spec (3, "Ownership") has every supervisor signal only the pid it
\* owns.  A signal is stray when its pid was reaped and possibly reused.
NoStraySignal == stray = {}

\* Spec 8, invariant 1: for each incarnation ProcessLoaded and ProcessFailed
\* are never both reported.
NeverLoadedAndFailed ==
    \A a \in Actors :
        ~(Loaded \in Range(up[a]) /\ \E i \in DOMAIN up[a] : up[a][i].ev = "ProcessFailed")

=============================================================================
