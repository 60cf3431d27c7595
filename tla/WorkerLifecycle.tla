--------------------------- MODULE WorkerLifecycle ---------------------------
(***************************************************************************)
(* What one Process supervisor promises its service (spec 4.2), stated    *)
(* without timers, pipes or pids: each incarnation moves through           *)
(* unborn -> starting -> running -> stopping -> ended, and the events it   *)
(* reports upward are tied to the phase it reports them from.              *)
(*                                                                         *)
(*   - ProcessLoaded once, when leaving starting for running;              *)
(*   - StartupTimeout only from starting, StopTimeout only from stopping,  *)
(*     each ending the incarnation;                                       *)
(*   - Heartbeat only while running, without leaving running;             *)
(*   - ConfigError and the forwarded reload/restart requests while alive;  *)
(*   - nothing at all once the incarnation has ended.                     *)
(*                                                                         *)
(* Process.tla implements this module under the mapping in that module.    *)
(***************************************************************************)
EXTENDS Sequences

CONSTANT Actors

VARIABLES phase, up

Phases == {"unborn", "starting", "running", "stopping", "ended"}
Alive == {"starting", "running", "stopping"}

Loaded == [ev |-> "ProcessLoaded"]
Failed(err) == [ev |-> "ProcessFailed", err |-> err]
Forwarded(m) == [ev |-> "ProcessMessage", msg |-> m]

Move(a, from, to) == phase[a] = from /\ phase' = [phase EXCEPT ![a] = to]
Emit(a, e) == up' = [up EXCEPT ![a] = Append(@, e)]

Spawn(a) == Move(a, "unborn", "starting") /\ UNCHANGED up

SpawnFailed(a) == Move(a, "unborn", "ended") /\ Emit(a, Failed("FailedToStart"))

Load(a) == Move(a, "starting", "running") /\ Emit(a, Loaded)

TimeOut(a) ==
    \/ Move(a, "starting", "ended") /\ Emit(a, Failed("StartupTimeout"))
    \/ Move(a, "stopping", "ended") /\ Emit(a, Failed("StopTimeout"))

BeginStop(a) == Move(a, "running", "stopping") /\ UNCHANGED up

\* Reports that leave the phase as it is.
Notice(a) ==
    /\ phase[a] \in Alive
    /\ \/ Emit(a, Failed("ConfigError"))
       \/ \E m \in {"reload", "restart"} : Emit(a, Forwarded(m))
       \/ phase[a] = "running" /\ Emit(a, Failed("Heartbeat"))
    /\ UNCHANGED phase

\* The incarnation ends silently: killed, quit, or its pipe closed.
End(a) ==
    /\ phase[a] \in Alive
    /\ phase' = [phase EXCEPT ![a] = "ended"]
    /\ UNCHANGED up

Init ==
    /\ phase = [a \in Actors |-> "unborn"]
    /\ up = [a \in Actors |-> <<>>]

Next ==
    \E a \in Actors :
        \/ Spawn(a) \/ SpawnFailed(a) \/ Load(a) \/ TimeOut(a)
        \/ BeginStop(a) \/ Notice(a) \/ End(a)

Spec == Init /\ [][Next]_<<phase, up>>
=============================================================================
