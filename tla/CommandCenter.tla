---------------------------- MODULE CommandCenter ----------------------------
(***************************************************************************)
(* The CommandCenter of src/cmd.rs: the root controller that turns signals *)
(* and stop() calls into commands, handles them one at a time on the event *)
(* loop, reaps exited workers, and coordinates the global shutdown that    *)
(* resolves the stop waiters and the terminal notifier.                    *)
(*                                                                         *)
(* FeService (service.rs, not in this repository's src/) is modelled from  *)
(* the spec at the level the center observes it: its status, whether its  *)
(* stop() is accepted, and when its stop completion resolves.  Workers are *)
(* only pids that exit; System.tla composes the full service and process  *)
(* models.                                                                 *)
(***************************************************************************)
EXTENDS Naturals, Sequences, FiniteSets

CONSTANTS
    Services,   \* configured service names
    Waiters,    \* callers of CommandCenter::stop (control socket, main)
    Children    \* worker pids that can exit and be reaped

\* State (cmd.rs 34-39) and the FeService status values the center sees.
CCStates == {"Starting", "Running", "Stopping"}
SvcStates == {"Starting", "Running", "Reloading", "Stopping", "Stopped", "Failed"}

\* Command (cmd.rs 41-47) as produced by CommandCenter::stop and by the
\* signal streams of init_signals (cmd.rs 250-307).
SignalCommand == [SIGHUP |-> "Reload", SIGTERM |-> "Stop", SIGINT |-> "Quit",
                  SIGQUIT |-> "Quit", SIGCHLD |-> "ReapWorkers"]
UnixSignals == DOMAIN SignalCommand

VARIABLES
    ccState,    \* CommandCenter.state
    svc,        \* status of each FeService
    cont,       \* the continuation spawned on each service's stop completion
    inbox,      \* the unbounded command channel fed by stop()
    pending,    \* signals delivered and not yet turned into a command
    waiter,     \* each stop() caller: "idle", "waiting", "resolved"
    stopSent,   \* values sent on the terminal notifier (Some iff <<>>)
    ended,      \* call() returned Ready: the command loop is over
    child       \* each worker pid: "alive", "zombie", "reaped"

vars == <<ccState, svc, cont, inbox, pending, waiter, stopSent, ended, child>>

-----------------------------------------------------------------------------
\* Mutant: exit sends on the terminal notifier without taking it.
ExitWithoutTake(success) ==
    /\ waiter' = [w \in Waiters |-> IF waiter[w] = "waiting" THEN "resolved"
                                                         ELSE waiter[w]]
    /\ stopSent' = Append(stopSent, success)

(* CommandCenter::exit (cmd.rs 77-85): every waiter is popped and sent     *)
(* true; the terminal notifier is taken and sent `success` once.           *)
Exit(success) ==
    /\ waiter' = [w \in Waiters |-> IF waiter[w] = "waiting" THEN "resolved"
                                                         ELSE waiter[w]]
    /\ stopSent' = IF stopSent = <<>> THEN <<success>> ELSE stopSent

AllStopped(s) == \A n \in Services : s[n] = "Stopped"

\* CommandCenterCommands::start (cmd.rs 350-361): services are created from
\* the configuration and started, then the center is Running.
Start ==
    /\ ccState = "Starting"
    /\ ccState' = "Running"
    /\ svc' = [n \in Services |-> "Starting"]
    /\ UNCHANGED <<cont, inbox, pending, waiter, stopSent, ended, child>>

\* CommandCenter::stop (cmd.rs 87-92): register a waiter, enqueue Stop.
StopRequest(w) ==
    /\ waiter[w] = "idle"
    /\ waiter' = [waiter EXCEPT ![w] = "waiting"]
    /\ inbox' = Append(inbox, "Stop")
    /\ UNCHANGED <<ccState, svc, cont, pending, stopSent, ended, child>>

\* FeService::stop as the spec describes it (4.3): accepted (Ok) unless the
\* service is already Stopped, from Starting and Failed as well; an
\* accepted stop enters Stopping and resolves when every slot is terminal.
StopAccepted(n) == svc[n] # "Stopped"

\* Mutant: without the `if !waiting { exit(true) }` fallback.
GlobalStopNoFallback ==
    IF ccState # "Stopping"
    THEN LET accepted == {n \in Services : StopAccepted(n)} IN
         /\ ccState' = "Stopping"
         /\ svc' = [n \in Services |-> IF n \in accepted THEN "Stopping"
                                                         ELSE svc[n]]
         /\ cont' = [n \in Services |-> IF n \in accepted THEN "waiting"
                                                          ELSE cont[n]]
         /\ UNCHANGED <<waiter, stopSent>>
    ELSE UNCHANGED <<ccState, svc, cont, waiter, stopSent>>

\* CommandCenterCommands::stop (cmd.rs 309-340).  `graceful` only changes
\* how the services stop their workers, which the center does not observe.
GlobalStop ==
    IF ccState # "Stopping"
    THEN LET accepted == {n \in Services : StopAccepted(n)} IN
         /\ ccState' = "Stopping"
         /\ svc' = [n \in Services |-> IF n \in accepted THEN "Stopping"
                                                         ELSE svc[n]]
         /\ cont' = [n \in Services |-> IF n \in accepted THEN "waiting"
                                                          ELSE cont[n]]
         /\ IF accepted = {} THEN Exit(TRUE)
                             ELSE UNCHANGED <<waiter, stopSent>>
    ELSE UNCHANGED <<ccState, svc, cont, waiter, stopSent>>

\* CommandCenter::reload_all (cmd.rs 233-243): only in Running, every
\* service is asked for a graceful reload.
ReloadAll ==
    /\ IF ccState = "Running"
       THEN svc' = [n \in Services |-> IF svc[n] \in {"Running", "Reloading"}
                                       THEN "Reloading" ELSE svc[n]]
       ELSE UNCHANGED svc
    /\ UNCHANGED <<ccState, cont, waiter, stopSent>>

\* Mutant: the loop breaks after the first reaped child (no `continue`).
ReapOneWorker ==
    /\ \/ \E p \in Children :
             /\ child[p] = "zombie"
             /\ child' = [child EXCEPT ![p] = "reaped"]
       \/ /\ \A p \in Children : child[p] # "zombie"
          /\ UNCHANGED child
    /\ UNCHANGED <<ccState, svc, cont, waiter, stopSent>>

\* The ReapWorkers arm (cmd.rs 382-407): waitpid(-1, WNOHANG) in a loop
\* collects every zombie and reports each to every service.
ReapWorkers ==
    /\ child' = [p \in Children |-> IF child[p] = "zombie" THEN "reaped"
                                                           ELSE child[p]]
    /\ UNCHANGED <<ccState, svc, cont, waiter, stopSent>>

\* CommandCenterCommands::call (cmd.rs 369-415) for one command.
Call(cmd) ==
    CASE cmd = "Stop"        -> GlobalStop /\ UNCHANGED child
      [] cmd = "Quit"        -> GlobalStop /\ UNCHANGED child
      [] cmd = "Reload"      -> ReloadAll /\ UNCHANGED child
      [] cmd = "ReapWorkers" -> ReapWorkers

\* The command stream yields the next Stop from the channel...
HandleInbox ==
    /\ ~ended /\ ccState # "Starting" /\ inbox # <<>>
    /\ inbox' = Tail(inbox)
    /\ Call(Head(inbox))
    /\ UNCHANGED <<pending, ended>>

\* ... or the command of a delivered signal.
HandleSignal(sig) ==
    /\ ~ended /\ ccState # "Starting" /\ sig \in pending
    /\ pending' = pending \ {sig}
    /\ Call(SignalCommand[sig])
    /\ UNCHANGED <<inbox, ended>>

\* A signal stream fails: call gets Err, exits with false and returns Ready.
StreamError ==
    /\ ~ended /\ ccState # "Starting"
    /\ Exit(FALSE)
    /\ ended' = TRUE
    /\ UNCHANGED <<ccState, svc, cont, inbox, pending, child>>

\* Mutant: the continuation exits without checking the other services.
StopContinuationNoCheck(n) ==
    /\ cont[n] = "ready"
    /\ cont' = [cont EXCEPT ![n] = "done"]
    /\ Exit(TRUE)
    /\ UNCHANGED <<ccState, svc, inbox, pending, ended, child>>

\* The continuation attached to a service's stop completion (cmd.rs
\* 320-331): when it runs, exit(true) if every service is stopped.
StopContinuation(n) ==
    /\ cont[n] = "ready"
    /\ cont' = [cont EXCEPT ![n] = "done"]
    /\ IF AllStopped(svc) THEN Exit(TRUE) ELSE UNCHANGED <<waiter, stopSent>>
    /\ UNCHANGED <<ccState, svc, inbox, pending, ended, child>>

-----------------------------------------------------------------------------
(* Control-socket operations (cmd.rs 94-230): gated on Running; outside it *)
(* they return NotReady and change nothing.  status, worker pids, pause   *)
(* and resume do not change what the center observes of a service.        *)

\* Mutant: start_service without the `match self.state` gate.
StartServiceUngated(n) ==
    /\ svc' = [svc EXCEPT ![n] = IF @ \in {"Stopped", "Failed"} THEN "Starting" ELSE @]
    /\ UNCHANGED <<ccState, cont, inbox, pending, waiter, stopSent, ended, child>>

\* start_service: FeService::start_service forks the workers of a Stopped
\* or Failed service and is idempotent otherwise (spec 4.3).
StartService(n) ==
    /\ ccState = "Running"
    /\ svc' = [svc EXCEPT ![n] = IF @ \in {"Stopped", "Failed"} THEN "Starting" ELSE @]
    /\ UNCHANGED <<ccState, cont, inbox, pending, waiter, stopSent, ended, child>>

\* stop_service: Err(ServiceStopped) when already Stopped; the completion
\* goes to the caller, not to a continuation of the center.
StopService(n) ==
    /\ ccState = "Running"
    /\ StopAccepted(n)
    /\ svc' = [svc EXCEPT ![n] = "Stopping"]
    /\ UNCHANGED <<ccState, cont, inbox, pending, waiter, stopSent, ended, child>>

ReloadService(n) ==
    /\ ccState = "Running"
    /\ svc[n] \in {"Running", "Reloading"}
    /\ svc' = [svc EXCEPT ![n] = "Reloading"]
    /\ UNCHANGED <<ccState, cont, inbox, pending, waiter, stopSent, ended, child>>

-----------------------------------------------------------------------------
(* Environment: signals, workers exiting, services finishing their work    *)

SignalArrives(sig) ==
    /\ sig \notin pending
    /\ pending' = pending \cup {sig}
    /\ UNCHANGED <<ccState, svc, cont, inbox, waiter, stopSent, ended, child>>

\* A worker exits; the kernel raises SIGCHLD (coalesced with a pending one).
ChildExit(p) ==
    /\ child[p] = "alive"
    /\ child' = [child EXCEPT ![p] = "zombie"]
    /\ pending' = pending \cup {"SIGCHLD"}
    /\ UNCHANGED <<ccState, svc, cont, inbox, waiter, stopSent, ended>>

\* A stopping service has seen all its workers end: its stop completion
\* resolves, which readies the center's continuation, if one was spawned.
ServiceStopped(n) ==
    /\ svc[n] = "Stopping"
    /\ svc' = [svc EXCEPT ![n] = "Stopped"]
    /\ cont' = [cont EXCEPT ![n] = IF @ = "waiting" THEN "ready" ELSE @]
    /\ UNCHANGED <<ccState, inbox, pending, waiter, stopSent, ended, child>>

\* Every slot of a starting service reaches Running.
ServiceLoaded(n) ==
    /\ svc[n] = "Starting"
    /\ svc' = [svc EXCEPT ![n] = "Running"]
    /\ UNCHANGED <<ccState, cont, inbox, pending, waiter, stopSent, ended, child>>

\* A slot fails permanently (cfgerror, reserved exit code): the service is
\* Failed rather than restarting in a loop (spec 4.3, scenario 5).
ServiceFailed(n) ==
    /\ svc[n] \in {"Starting", "Running", "Reloading"}
    /\ svc' = [svc EXCEPT ![n] = "Failed"]
    /\ UNCHANGED <<ccState, cont, inbox, pending, waiter, stopSent, ended, child>>

ServiceReloaded(n) ==
    /\ svc[n] = "Reloading"
    /\ svc' = [svc EXCEPT ![n] = "Running"]
    /\ UNCHANGED <<ccState, cont, inbox, pending, waiter, stopSent, ended, child>>

\* call() returned Ready: the command loop is over and so is the center.
Terminated == ended /\ UNCHANGED vars

-----------------------------------------------------------------------------
Init ==
    /\ ccState = "Starting"
    /\ svc = [n \in Services |-> "Stopped"]
    /\ cont = [n \in Services |-> "none"]
    /\ inbox = <<>>
    /\ pending = {}
    /\ waiter = [w \in Waiters |-> "idle"]
    /\ stopSent = <<>>
    /\ ended = FALSE
    /\ child = [p \in Children |-> "alive"]

Center ==
    \/ Start \/ HandleInbox \/ \E sig \in pending : HandleSignal(sig)
    \/ StreamError \/ \E n \in Services : StopContinuation(n)
    \/ Terminated

Clients ==
    \/ \E w \in Waiters : StopRequest(w)
    \/ \E n \in Services : StartService(n) \/ StopService(n) \/ ReloadService(n)

Environment ==
    \/ \E sig \in UnixSignals \ {"SIGCHLD"} : SignalArrives(sig)
    \/ \E p \in Children : ChildExit(p)
    \/ \E n \in Services : ServiceStopped(n) \/ ServiceReloaded(n)
                            \/ ServiceLoaded(n) \/ ServiceFailed(n)

Next == Center \/ Clients \/ Environment

\* The event loop polls the command channel, every signal stream and every
\* spawned continuation; a stopping service eventually finishes, because
\* each of its supervisors leaves Stopping (Process.tla, TransientStatesEnd).
Fairness ==
    /\ WF_vars(Start) /\ WF_vars(HandleInbox)
    /\ \A sig \in UnixSignals : WF_vars(HandleSignal(sig))
    /\ \A n \in Services : WF_vars(StopContinuation(n)) /\ WF_vars(ServiceStopped(n))

Spec == Init /\ [][Next]_vars
FairSpec == Spec /\ Fairness

-----------------------------------------------------------------------------
TypeOK ==
    /\ ccState \in CCStates
    /\ svc \in [Services -> SvcStates]
    /\ cont \in [Services -> {"none", "waiting", "ready", "done"}]
    /\ inbox \in Seq({"Stop"})
    /\ pending \subseteq UnixSignals
    /\ waiter \in [Waiters -> {"idle", "waiting", "resolved"}]
    /\ stopSent \in Seq(BOOLEAN) /\ Len(stopSent) <= 1
    /\ ended \in BOOLEAN
    /\ child \in [Children -> {"alive", "zombie", "reaped"}]

\* The terminal notifier reports a clean shutdown only once every service
\* has stopped, whatever order the services' stop completions resolve and
\* their continuations run in, and whatever the console did before.
CleanExitOnlyWhenDrained ==
    stopSent = <<TRUE>> => AllStopped(svc)

\* Once a Stop or Quit has been handled, the terminal notifier fires.
ShutdownCompletes == ccState = "Stopping" ~> stopSent # <<>>

\* The shutdown contract of Shutdown.tla seen through the center's state:
\* draining is the Stopping state, a service counts as stopped when its
\* status is Stopped, and the notifier and waiters are the center's own.
Contract == INSTANCE Shutdown WITH
    phase   <- IF ccState = "Stopping" THEN "draining" ELSE "up",
    stopped <- [n \in Services |-> svc[n] = "Stopped"],
    result  <- stopSent,
    waiter  <- waiter

\* The center implements its shutdown contract: whatever the order of
\* signals, stop() calls, console operations, service completions and the
\* continuations spawned on them, no service is started once draining has
\* begun, the notifier fires once and reports success only when drained,
\* and stop() callers are answered only with or after the notifier.
ImplementsShutdown == Contract!Spec

\* Every exited worker is reaped while the command loop runs, even when
\* several exits are coalesced into one SIGCHLD.
EveryExitReaped ==
    \A p \in Children : child[p] = "zombie" ~> child[p] = "reaped" \/ ended

\* Spec 4.4: stop() returns a notifier that resolves when the center is
\* fully drained; every caller of stop() is answered while the command
\* loop runs, including a caller that arrives after the center drained.
EveryStopAnswered ==
    \A w \in Waiters : waiter[w] = "waiting" ~> waiter[w] = "resolved" \/ ended
=============================================================================
