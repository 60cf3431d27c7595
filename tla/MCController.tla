---------------------------- MODULE MCController ----------------------------
(* Instantiates Controller for TLC: one pid for the slot's two            *)
(* incarnations, with no other program competing for it, and one stop()   *)
(* caller whose Stop starts the shutdown.                                  *)
EXTENDS Controller, TLC

CONSTANTS p1, i1, i2, w1

MCPids == {p1}
MCNoPid == {}
MCInc == <<i1, i2>>
MCWaiters == {w1}

\* The shutdown run: the stop() caller's Stop is the shutdown, a console
\* reload_service can be in flight when it arrives, and the worker loads.
\* Delivered signals (each a fresh Stop, Quit or Reload at any time) are
\* left to the abstract CommandCenter runs.
MCNoSignal == {}
MCReloadOp == {"reload"}
MCLoads == {"loaded"}

\* The orphan run: the worker may also report a configuration error, and
\* the console may start the failed service again.
MCStartOp == {"start"}
MCLoadsOrFails == {"loaded", "cfgerror"}

\* The state as the shutdown run tells it apart.  `up` (each supervisor's
\* log of reports), `cmds` (the commands sent to the worker, which acts
\* regardless of them), `stray` and each report's `from` are histories and
\* ghosts no action reads: a step posts only the reports it appends to
\* `up`, and no property of the run mentions them, so states that differ
\* only in them have the same futures.
MCView == <<task, pstate, pid, timers, hbStale, pipe, nmsg,
            wstate, osPid, sstate, cur, startRes, reloadRes, calls,
            [i \in DOMAIN mbox |-> [pid |-> mbox[i].pid, ev |-> mbox[i].ev]],
            centerVars>>
=============================================================================
