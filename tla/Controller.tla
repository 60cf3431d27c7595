----------------------------- MODULE Controller -----------------------------
(***************************************************************************)
(* The whole controller of one service: the CommandCenter of cmd.rs        *)
(* driving the real service slot of System.tla.  The center's signals and *)
(* stop() callers become commands; Stop and Quit call FeService::stop     *)
(* with graceful true and false, and wait on its completion; SIGHUP calls *)
(* reload(true); SIGCHLD runs the reaper, which calls FeService::exited.  *)
(* SIGCHLD is raised by the kernel whenever a worker of the slot ends,    *)
(* whoever ended it: the worker itself, its supervisor's SIGKILL, or a    *)
(* quit that kills it outright.                                            *)
(*                                                                         *)
(* Each component is taken by INSTANCE with its variables shared: System  *)
(* for the service, its supervisors and the reaper; CommandCenter for the *)
(* center's exit, stop() and signal delivery, with the abstract service   *)
(* status replaced by the slot's.                                          *)
(*                                                                         *)
(* Once call() has returned Ready the command loop is over: nothing reaps *)
(* or dispatches any more, and the model stops there (main, which decides *)
(* what happens next, is not in this repository's src/).                  *)
(***************************************************************************)
EXTENDS Naturals, Sequences, FiniteSets

CONSTANTS
    Pids, Others, MaxMsgs, Inc, MaxCalls, Ops,   \* as in System.tla
    Waiters,    \* callers of CommandCenter::stop
    Signals,    \* the signals other than SIGCHLD that may be delivered
    Writes      \* the frames the worker may write

VARIABLES
    task, pstate, pid, timers, hbStale, pipe, nmsg, cmds, up,
    wstate, osPid, stray, sstate, cur, mbox, startRes, reloadRes, calls,
    ccState, cont, inbox, pending, waiter, stopSent, ended

S == INSTANCE System

\* The one configured service.
Svc == "svc"

C == INSTANCE CommandCenter WITH
    Services <- {Svc}, Children <- S!Incs,
    svc <- [n \in {Svc} |-> sstate], child <- wstate

ASSUME Signals \subseteq C!UnixSignals \ {"SIGCHLD"} /\ Writes \subseteq S!P!WorkerMsgs

sysVars == <<task, pstate, pid, timers, hbStale, pipe, nmsg, cmds, up,
             wstate, osPid, stray, sstate, cur, mbox, startRes, reloadRes, calls>>
centerVars == <<ccState, cont, inbox, pending, waiter, stopSent, ended>>
allVars == <<sysVars, centerVars>>

\* A worker of the slot ends in this step: the kernel raises SIGCHLD,
\* coalesced with one already pending, on top of the signals `sigs` left.
Exited == \E a \in S!Incs : wstate[a] = "alive" /\ wstate'[a] = "zombie"
Chld(sigs) == pending' = IF Exited THEN sigs \cup {"SIGCHLD"} ELSE sigs

-----------------------------------------------------------------------------
\* CommandCenterCommands::start: FeService::start forks the slot, then the
\* center is Running.
Start ==
    /\ ccState = "Starting" /\ ccState' = "Running"
    /\ S!StartSlot /\ UNCHANGED calls
    /\ UNCHANGED <<cont, inbox, pending, waiter, stopSent, ended>>

\* FeService::stop(graceful, Reason::Exit) on a service that is not
\* Stopped: Ok.  A service already Stopping is joined without a step.
ServiceStop(graceful) ==
    \/ S!StopSlot(graceful) /\ UNCHANGED calls
    \/ sstate = "Stopping" /\ UNCHANGED sysVars

\* CommandCenterCommands::stop: the first Stop or Quit enters Stopping and
\* stops the service; an accepted stop spawns the continuation on its
\* completion, a refused one (already Stopped) leaves nothing to wait for
\* and the center exits at once.  Later Stops and Quits do nothing.
GlobalStop(graceful) ==
    \/ /\ ccState # "Stopping" /\ ccState' = "Stopping"
       /\ sstate # "Stopped"
       /\ ServiceStop(graceful)
       /\ cont' = [cont EXCEPT ![Svc] = "waiting"]
       /\ UNCHANGED <<waiter, stopSent>>
    \/ /\ ccState # "Stopping" /\ ccState' = "Stopping"
       /\ sstate = "Stopped"
       /\ C!Exit(TRUE)
       /\ UNCHANGED <<sysVars, cont>>
    \/ /\ ccState = "Stopping"
       /\ UNCHANGED <<ccState, cont, waiter, stopSent, sysVars>>

\* reload_all: only in Running, reload(true); its error (the service is
\* not Running, or has no live worker to replace) is ignored.
ReloadAll ==
    IF ccState = "Running" /\ ENABLED S!ReloadSlot(TRUE)
    THEN S!ReloadSlot(TRUE) /\ UNCHANGED calls
    ELSE UNCHANGED sysVars

\* The ReapWorkers arm: waitpid finds no child when none has ended.
ReapWorkers ==
    IF \E a \in S!Incs : wstate[a] = "zombie" THEN S!Reap ELSE UNCHANGED sysVars

\* CommandCenterCommands::call for one command.
Dispatch(cmd) ==
    CASE cmd = "Stop" -> GlobalStop(TRUE)
      [] cmd = "Quit" -> GlobalStop(FALSE)
      [] cmd = "Reload" -> ReloadAll /\ UNCHANGED <<ccState, cont, waiter, stopSent>>
      [] cmd = "ReapWorkers" -> ReapWorkers /\ UNCHANGED <<ccState, cont, waiter, stopSent>>

\* The command stream yields the next Stop of a stop() caller ...
HandleInbox ==
    /\ ~ended /\ ccState # "Starting" /\ inbox # <<>>
    /\ inbox' = Tail(inbox)
    /\ Dispatch(Head(inbox))
    /\ Chld(pending)
    /\ UNCHANGED ended

\* ... or the command of a delivered signal.
HandleSignal(sig) ==
    /\ ~ended /\ ccState # "Starting" /\ sig \in pending
    /\ Dispatch(C!SignalCommand[sig])
    /\ Chld(pending \ {sig})
    /\ UNCHANGED <<inbox, ended>>

\* The continuation spawned on the service's stop completion runs once the
\* service is Stopped; the only service being stopped, it exits with true.
StopContinuation ==
    /\ ~ended
    /\ cont[Svc] = "waiting" /\ sstate = "Stopped"
    /\ cont' = [cont EXCEPT ![Svc] = "done"]
    /\ C!Exit(TRUE)
    /\ UNCHANGED <<sysVars, ccState, inbox, pending, ended>>

\* A signal stream fails: exit(false), and call() returns Ready.
StreamError == UNCHANGED sysVars /\ C!StreamError

-----------------------------------------------------------------------------
(* The control socket, the service's own steps and the environment         *)

\* start_service, stop_service, reload_service, pause_service and
\* resume_service: NotReady unless the center is Running.
Console ==
    /\ ~ended /\ ccState = "Running"
    /\ \/ S!StartService
       \/ \E g \in BOOLEAN : S!Stop(g) \/ S!Reload(g)
       \/ S!PauseResume
    /\ Chld(pending)
    /\ UNCHANGED <<ccState, cont, inbox, waiter, stopSent, ended>>

Supervise(a) ==
    /\ ~ended
    /\ S!P!Supervise(a) /\ UNCHANGED <<sstate, cur, startRes, reloadRes, calls>> /\ S!Post
    /\ Chld(pending)
    /\ UNCHANGED <<ccState, cont, inbox, waiter, stopSent, ended>>

HandleReport ==
    /\ ~ended /\ S!HandleReport
    /\ UNCHANGED centerVars

Environment ==
    /\ ~ended
    /\ \/ /\ S!Environment /\ Chld(pending) /\ UNCHANGED <<inbox, waiter>>
          /\ \A a \in S!Incs : \A i \in DOMAIN pipe'[a] : pipe'[a][i] \in Writes
       \/ \E w \in Waiters : UNCHANGED sysVars /\ C!StopRequest(w)
       \/ \E sig \in Signals : UNCHANGED sysVars /\ C!SignalArrives(sig)
    /\ UNCHANGED <<ccState, cont, stopSent, ended>>

Terminated == ended /\ UNCHANGED allVars

Init ==
    /\ S!Init
    /\ ccState = "Starting"
    /\ cont = [n \in {Svc} |-> "none"]
    /\ inbox = <<>>
    /\ pending = {}
    /\ waiter = [w \in Waiters |-> "idle"]
    /\ stopSent = <<>>
    /\ ended = FALSE

Next ==
    \/ Start \/ HandleInbox \/ \E sig \in pending : HandleSignal(sig)
    \/ StopContinuation \/ StreamError
    \/ Console \/ \E a \in S!Incs : Supervise(a)
    \/ HandleReport \/ Environment \/ Terminated

\* The event loop polls the command channel, every signal stream, every
\* spawned continuation, every supervisor's pipe and timers, and the
\* service's mailbox.  The console, the worker and signal senders are not
\* fair.
Fairness ==
    /\ WF_allVars(Start) /\ WF_allVars(HandleInbox)
    /\ \A sig \in Signals \cup {"SIGCHLD"} : WF_allVars(HandleSignal(sig))
    /\ WF_allVars(StopContinuation)
    /\ \A a \in S!Incs : WF_allVars(Supervise(a))
    /\ WF_allVars(HandleReport)

Spec == Init /\ [][Next]_allVars
FairSpec == Spec /\ Fairness

-----------------------------------------------------------------------------
\* A Stop or Quit, from a signal or a stop() caller, ends with the terminal
\* notifier fired: the service's stop reaches its worker through the
\* supervisor, the worker's exit raises SIGCHLD, the reaper completes the
\* stop, and the continuation exits; whatever the console did before.
ShutdownCompletes == ccState = "Stopping" ~> stopSent # <<>>

\* A reload started by reload_service or SIGHUP resolves while the command
\* loop runs, also when a Stop or Quit abandons it.
ReloadResolves ==
    reloadRes \in {"halting", "forked"} ~> reloadRes \in {"Success", "Failed"} \/ ended

\* Spec 8, invariant 2: after stop() resolves, waitpid(-1, WNOHANG) finds
\* no children.  Once the terminal notifier reports a clean shutdown, and
\* the stop() callers are answered, no worker of the service is left
\* running or unreaped, whatever the console did to the service before.
CleanExitReapsAll ==
    stopSent = <<TRUE>> => \A a \in S!Incs : wstate[a] \in {"none", "reaped"}
=============================================================================
