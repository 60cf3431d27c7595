------------------------------- MODULE System -------------------------------
(***************************************************************************)
(* One service slot over its successive incarnations: the Process          *)
(* supervisors of Process.tla, the FeService slot manager that starts,     *)
(* restarts and stops them, and the CommandCenter's SIGCHLD reaper that    *)
(* turns a worker's exit into FeService::exited.                           *)
(*                                                                         *)
(* FeService (service.rs) is not in this repository's src/: its slot logic *)
(* is taken from the spec (4.3): a slot is restarted at once when the     *)
(* reaper reports its worker's exit and the service is not stopping        *)
(* (spec 9: no backoff); stop() sends StopProcess to the live slot and     *)
(* resolves once the slot's worker is reaped.  The reaper loop of cmd.rs   *)
(* runs FeService::exited inside each waitpid iteration, so the restart's *)
(* fork happens in the same event-loop turn as the reap.                  *)
(***************************************************************************)
EXTENDS Naturals, Sequences, FiniteSets

CONSTANTS
    Pids,       \* the pids the operating system can hand out
    Others,     \* the pids other programs may take
    MaxMsgs,    \* frames one worker writes
    Inc,        \* the slot's incarnations in fork order: first fork, restarts
    MaxCalls,   \* bound on the console's calls to the service
    Ops         \* the calls the console makes: start, stop, reload, pause

ASSUME /\ MaxCalls \in Nat /\ Others \subseteq Pids
       /\ Ops \subseteq {"start", "stop", "reload", "pause"}
       /\ Len(Inc) > 0 /\ \A i, j \in 1..Len(Inc) : i # j => Inc[i] # Inc[j]

MaxInc == Len(Inc)
Incs == {Inc[i] : i \in 1..MaxInc}

VARIABLES
    task, pstate, pid, timers, hbStale, pipe, nmsg, cmds, up,
    wstate, osPid, stray,
    sstate,     \* FeService state (spec 2): Starting ... Failed
    cur,        \* index in Inc of the slot's incarnation, 0 before any fork
    mbox,       \* FeService's mailbox: reports sent by Process, not yet handled
    startRes,   \* the start_service completion: none, pending, Success, Failed
    reloadRes,  \* the reload completion: none, Success, Failed, or pending as
                \* "halting" (the old worker) or "forked" (its replacement)
    calls       \* console calls made so far

P == INSTANCE Process WITH Actors <- Incs

\* The slot's current incarnation, as a set: empty before the first fork.
Current == {Inc[i] : i \in {cur} \ {0}}

procVars == <<task, pstate, pid, timers, hbStale, pipe, nmsg, cmds, up>>
svcVars == <<sstate, cur, startRes, reloadRes, calls>>
vars == <<procVars, wstate, osPid, stray, svcVars, mbox>>

-----------------------------------------------------------------------------
(* The reports of process.rs travel by self.addr.send to FeService's       *)
(* mailbox.  A report carries (idx, pid) and the event; `from` is a ghost *)
(* field naming the incarnation that sent it, which FeService cannot see. *)

Changed == {a \in Incs : up'[a] # up[a]}

\* The reports the step sends: at most one incarnation reports per step.
NewReports ==
    IF Changed = {} THEN <<>>
    ELSE LET a == CHOOSE x \in Changed : TRUE
             k == Len(up[a])
         IN  [i \in 1..(Len(up'[a]) - k) |->
                [from |-> a, pid |-> pid'[a], ev |-> up'[a][k + i]]]

Post == mbox' = mbox \o NewReports

\* A call of the console (start_service, stop_service, reload_service,
\* pause_service or resume_service), counted against MaxCalls.
Call(op) == op \in Ops /\ calls < MaxCalls /\ calls' = calls + 1

\* Incarnation c has sent ProcessLoaded.
HasLoaded(c) == \E i \in DOMAIN up[c] : up[c][i] = P!Loaded

-----------------------------------------------------------------------------
(* FeService slot management (spec 4.3)                                    *)

\* Process::start for incarnation n after the pid table `table` and with
\* worker states `ws`: fork onto a free pid, or fail and report
\* FailedToStart with pid -1.
Fork(n, table, ws) ==
    \/ \E p \in Pids :
        /\ table[p] = P!Free
        /\ osPid' = [table EXCEPT ![p] = n]
        /\ pid' = [pid EXCEPT ![n] = p]
        /\ task' = [task EXCEPT ![n] = "live"]
        /\ pstate' = [pstate EXCEPT ![n] = "Starting"]
        /\ timers' = [timers EXCEPT ![n] = {"StartupTimeout"}]
        /\ hbStale' = [hbStale EXCEPT ![n] = FALSE]
        /\ wstate' = [ws EXCEPT ![n] = "alive"]
        /\ UNCHANGED up
    \/ /\ osPid' = table /\ wstate' = ws
       /\ task' = [task EXCEPT ![n] = "gone"]
       /\ up' = [up EXCEPT ![n] = Append(@, P!Failed("FailedToStart"))]
       /\ UNCHANGED <<pid, pstate, timers, hbStale>>

\* The next incarnation of the slot is forked.
ForkNext(table, ws) ==
    /\ cur < MaxInc /\ cur' = cur + 1
    /\ \E n \in Incs : n = Inc[cur + 1] /\ Fork(n, table, ws)

\* start_service: idempotent when Running or Starting (no step); from
\* Stopped or Failed, fork every slot and enter Starting.
StartSlot ==
    /\ sstate \in {"Stopped", "Failed"}
    /\ ForkNext(osPid, wstate)
    /\ sstate' = "Starting" /\ startRes' = "pending"
    /\ UNCHANGED <<pipe, nmsg, cmds, stray, reloadRes>>
    /\ Post

StartService == StartSlot /\ Call("start")

\* The ReapWorkers arm of CommandCenterCommands::call: waitpid(WNOHANG)
\* collects every zombie of ours and frees its pid; for each, every
\* service's exited(pid, err) runs.  The exited pid is the slot's when it
\* is the current worker's (a zombie still holds its pid, so matching by
\* pid and by incarnation agree here).  The service restarts the slot at
\* once unless it is stopping or failed, and finishes its stop when it is
\* stopping.  While reloading, the halted worker's exit forks its
\* replacement, and the replacement's exit fails the reload.
Reap ==
    LET Z      == {a \in Incs : wstate[a] = "zombie"}
        table  == [p \in Pids |-> IF osPid[p] \in Z THEN P!Free ELSE osPid[p]]
        reaped == [a \in Incs |-> IF a \in Z THEN "reaped" ELSE wstate[a]]
        mine   == Current \cap Z # {}
        again  == /\ mine /\ cur < MaxInc
                  /\ sstate \in {"Starting", "Running", "Reloading"}
        \* the reload's replacement exited before it loaded
        lost   == mine /\ sstate = "Reloading" /\ reloadRes = "forked"
    IN  /\ Z # {}
        /\ IF again
           THEN ForkNext(table, reaped)
           ELSE /\ osPid' = table /\ wstate' = reaped
                /\ UNCHANGED <<cur, task, pstate, pid, timers, hbStale, up>>
        /\ sstate' = CASE mine /\ sstate = "Stopping" -> "Stopped"
                        [] lost -> "Running"
                        [] OTHER -> sstate
        /\ reloadRes' = CASE lost -> "Failed"
                           [] mine /\ sstate = "Reloading" -> "forked"
                           [] OTHER -> reloadRes
        /\ UNCHANGED <<pipe, nmsg, cmds, stray, startRes, calls>>
        /\ Post

\* FeService::stop and reload halt a worker per `graceful`: StopProcess,
\* or the hard kill QuitProcess(false).
HaltWorker(a, graceful) ==
    IF graceful THEN P!StopProcess(a) ELSE P!QuitProcess(a, FALSE)

\* No worker of the slot is left to exit: never forked, fork failed, or
\* reaped with no restart (the incarnation bound, or a failed service).
SlotEmpty == \A a \in Current : wstate[a] \in {"none", "reaped"}

\* Mutant: the service enters Stopping without halting the live worker.
StopSlotWithoutHalt(graceful) ==
    /\ sstate \in {"Starting", "Running", "Reloading", "Failed"}
    /\ \/ \E a \in Current :
          /\ P!Live(a) /\ ~SlotEmpty
          /\ sstate' = "Stopping"
          /\ UNCHANGED <<procVars, wstate, osPid, stray>>
       \/ \E a \in Current :
          /\ ~P!Live(a) /\ wstate[a] \in {"alive", "zombie"}
          /\ sstate' = "Stopping"
          /\ UNCHANGED <<procVars, wstate, osPid, stray>>
       \/ /\ SlotEmpty
          /\ sstate' = "Stopped"
          /\ UNCHANGED <<procVars, wstate, osPid, stray>>
    /\ reloadRes' = IF sstate = "Reloading" THEN "Failed" ELSE reloadRes
    /\ UNCHANGED <<cur, startRes>>
    /\ Post

\* Mutant: a stop during Reloading leaves the reload completion pending.
StopSlotKeepsReload(graceful) ==
    /\ sstate \in {"Starting", "Running", "Reloading", "Failed"}
    /\ \/ \E a \in Current :
          /\ P!Live(a) /\ ~SlotEmpty
          /\ HaltWorker(a, graceful)
          /\ sstate' = "Stopping"
       \/ \E a \in Current :
          /\ ~P!Live(a) /\ wstate[a] \in {"alive", "zombie"}
          /\ sstate' = "Stopping"
          /\ UNCHANGED <<procVars, wstate, osPid, stray>>
       \/ /\ SlotEmpty
          /\ sstate' = "Stopped"
          /\ UNCHANGED <<procVars, wstate, osPid, stray>>
    /\ UNCHANGED <<cur, startRes, reloadRes>>
    /\ Post

\* stop(graceful): enter Stopping and halt the live slot; the stop resolves
\* when the reaper reports the slot's worker, at once when no worker is
\* left.  A reload in progress is abandoned and resolves Failed.
StopSlot(graceful) ==
    /\ sstate \in {"Starting", "Running", "Reloading", "Failed"}
    /\ \/ \E a \in Current :
          /\ P!Live(a) /\ ~SlotEmpty
          /\ HaltWorker(a, graceful)
          /\ sstate' = "Stopping"
       \/ \E a \in Current :
          /\ ~P!Live(a) /\ wstate[a] \in {"alive", "zombie"}
          /\ sstate' = "Stopping"
          /\ UNCHANGED <<procVars, wstate, osPid, stray>>
       \/ /\ SlotEmpty
          /\ sstate' = "Stopped"
          /\ UNCHANGED <<procVars, wstate, osPid, stray>>
    /\ reloadRes' = IF sstate = "Reloading" THEN "Failed" ELSE reloadRes
    /\ UNCHANGED <<cur, startRes>>
    /\ Post

Stop(graceful) == StopSlot(graceful) /\ Call("stop")

\* reload(graceful): rolling replacement.  The slot's worker is halted; the
\* fresh fork happens when the reaper reports its exit (Reap).
ReloadSlot(graceful) ==
    /\ sstate = "Running" /\ cur < MaxInc
    /\ \E a \in Current : P!Live(a) /\ ~SlotEmpty /\ HaltWorker(a, graceful)
    /\ sstate' = "Reloading" /\ reloadRes' = "halting"
    /\ UNCHANGED <<cur, startRes>>
    /\ Post

Reload(graceful) == ReloadSlot(graceful) /\ Call("reload")

\* pause() and resume(): PauseProcess / ResumeProcess to the live slot.
PauseResume ==
    /\ \E a \in Current :
        /\ P!Live(a)
        /\ P!PauseProcess(a) \/ P!ResumeProcess(a)
    /\ Call("pause")
    /\ UNCHANGED <<sstate, cur, startRes, reloadRes, mbox>>

\* Slot failures after which the slot is not restarted: a cfgerror (spec
\* 4.3), and a failed fork, whose slot has no worker whose exit could
\* trigger a restart.
Permanent == {P!Failed("ConfigError"), P!Failed("FailedToStart")}

\* The slot a report is for, as FeService can tell it: the slot whose
\* recorded pid is the report's pid.
Matches(m) == \E c \in Current : pid[c] = m.pid

\* FeService handles the report at the head of its mailbox.  ProcessLoaded
\* completes a start, or a reload once the replacement is forked; a
\* permanent failure fails the service and its pending start or reload;
\* any other failure of the replacement resolves the reload Failed.  The worker's reload and restart
\* requests are consumed without effect (spec 9 leaves them open).
HandleReport ==
    /\ mbox # <<>>
    /\ LET m      == Head(mbox)
           loaded == Matches(m) /\ m.ev = P!Loaded
           fatal  == Matches(m) /\ m.ev \in Permanent
           failed == Matches(m) /\ m.ev.ev = "ProcessFailed"
           fresh  == sstate = "Reloading" /\ reloadRes = "forked"
       IN  /\ sstate' =
                CASE loaded /\ (sstate = "Starting" \/ fresh) -> "Running"
                  [] fatal /\ sstate \in {"Starting", "Running", "Reloading"}
                        -> "Failed"
                  [] failed /\ fresh -> "Running"
                  [] OTHER -> sstate
           /\ startRes' =
                IF sstate = "Starting" /\ (loaded \/ fatal)
                THEN IF loaded THEN "Success" ELSE "Failed"
                ELSE startRes
           /\ reloadRes' =
                IF sstate = "Reloading" /\ (fatal \/ (fresh /\ (loaded \/ failed)))
                THEN IF loaded THEN "Success" ELSE "Failed"
                ELSE reloadRes
    /\ mbox' = Tail(mbox)
    /\ UNCHANGED <<procVars, wstate, osPid, stray, cur, calls>>

-----------------------------------------------------------------------------
(* The supervisors and their environment, as in Process.tla                *)

Supervisors ==
    /\ \E a \in Incs : P!Supervise(a)
    /\ UNCHANGED svcVars
    /\ Post

Environment ==
    /\ \/ \E a \in Incs : P!WorkerWrite(a) \/ P!WorkerExit(a) \/ P!HeartbeatLapse(a)
       \/ \E p \in Others : P!ForeignFork(p) \/ P!ForeignExit(p)
    /\ UNCHANGED <<svcVars, mbox>>

\* The console has made its last call, or the service is stopped with its
\* incarnations used up, and every report is handled.
Done ==
    /\ \/ calls = MaxCalls
       \/ sstate = "Stopped" /\ cur = MaxInc
    /\ mbox = <<>>
    /\ UNCHANGED vars

Init ==
    /\ P!Init
    /\ sstate = "Stopped"
    /\ cur = 0
    /\ mbox = <<>>
    /\ startRes = "none"
    /\ reloadRes = "none"
    /\ calls = 0

Next ==
    \/ StartService \/ Reap \/ HandleReport \/ PauseResume
    \/ \E g \in BOOLEAN : Stop(g) \/ Reload(g)
    \/ Supervisors \/ Environment \/ Done

Spec == Init /\ [][Next]_vars

-----------------------------------------------------------------------------
\* Spec 4.3: start_service resolves Success only when the slot reached
\* Running: the slot's current incarnation has reported ProcessLoaded.
StartSuccessMeansLoaded ==
    [][startRes # "Success" /\ startRes' = "Success" =>
          \A c \in Current : HasLoaded(c)]_vars

\* Spec 3, ownership: each supervisor is the sole writer of SIGKILL for its
\* own pid.  A worker is only ever ended by its own exit or by its own
\* supervisor, never by the supervisor of another incarnation.
OwnKillOnly ==
    [][\A b \in Incs :
        wstate[b] = "alive" /\ wstate'[b] = "zombie" =>
            \A a \in Incs \ {b} : task'[a] = task[a]]_vars
=============================================================================
