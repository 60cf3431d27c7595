# TLA+ models of fectl

These modules model the two source files of fectl, `src/src/process.rs` and
`src/src/cmd.rs`:

- `process.rs` holds the per-worker supervisor actor `Process` and its pipe
  codec `TransportCodec`.
- `cmd.rs` holds the `CommandCenter`, which owns the services, turns Unix
  signals into commands, reaps children and runs the global shutdown.

`service.rs`, the worker side (`exec_worker`, `PipeFile`, the message
types), the config, the CLI and the control socket are not in `src/`. Where
the models need them, they come from `spec.md` or are left to an unconstrained
environment.

## The system and how its parts interact

```
 signals / stop() / console ──► CommandCenter ──► FeService (per service) ──► Process (per worker)
                                    │  waitpid(WNOHANG) ◄── SIGCHLD              │ framed pipe
                                    └──── exited(pid, err) ──► FeService          ▼
                                                                               worker process
```

- **Process** is an actix actor and one incarnation of one worker.
  `Process::start` forks the worker and opens a pipe pair. If the fork fails,
  it reports `ProcessFailed(pid -1)` and returns no actor. Otherwise it starts
  a framed actor in state `Starting` with a StartupTimeout timer.
  - Frames from the worker (`forked`, `loaded`, `hb`, `reload`, `restart`,
    `cfgerror`) are handled one at a time.
  - A `loaded` frame in `Starting` moves it to `Running` and arms the 2-second
    Heartbeat timer.
  - The service sends commands: `StartProcess`, `PauseProcess`,
    `ResumeProcess`, `SendCommand`, `StopProcess` and `QuitProcess`.
  - Timers are never cancelled. StartupTimeout, StopTimeout and Heartbeat
    check the state when they fire. Kill does not.
  - The actor ends on pipe EOF, a decode error, a timeout, a kill, or a stop
    or quit. Its `Drop` sends SIGKILL to its pid.
- **TransportCodec** frames each message with a big-endian u16 length.
  `decode` is called again and again on a buffer that grows with each read of
  any size.
- **CommandCenter** runs on a single-threaded event loop that polls two
  sources. One is an unbounded channel, fed by `stop()`. The other is five
  signal streams: SIGHUP→Reload, SIGTERM→Stop, SIGINT/SIGQUIT→Quit and
  SIGCHLD→ReapWorkers. A signal stream coalesces repeated signals.
  - Global stop moves to `Stopping` and asks every service to stop. For each
    accepted stop it spawns a continuation. When that service finishes, the
    continuation checks that every service `is_stopped()`, and if so calls
    `exit(true)`.
  - `exit` answers every queued `stop()` waiter and sends the terminal
    notifier. `stop.take()` makes sure the notifier is sent only once.
  - ReapWorkers loops `waitpid(WNOHANG)` until no child is left and reports
    each exit to every service.
  - The console operations (`start_service`, `stop_service`,
    `reload_service`) take effect only in `Running`.

## Modules

| Module | Models | State | Actions |
|---|---|---|---|
| `Process.tla` | `process.rs` `Process`, its handlers and `Drop`, with the OS pid table and the reaper | `task` (actor alive), `pstate`, `pid`, `timers` (armed, not yet fired futures), `hbStale`, `pipe` (frames from the worker), `nmsg`, `cmds` (frames to the worker), `up` (reports to the service), `wstate` (the worker process), `osPid` (pid → Free, Foreign or incarnation), `stray` (ghost: signals to pids not held) | `Start`, `StartFailed`, one action per worker frame (`RecvForked` … `RecvCfgError`), `RecvMalformed`, `PipeClosed`, one per timer (`StartupTimeoutFires`, `StopTimeoutFires`, `HeartbeatFires`, `KillFires`), one per command handler, and the environment: `WorkerWrite`, `WorkerExit`, `Reap` (waitpid in cmd.rs), `ForeignFork`, `ForeignExit`, `HeartbeatLapse` |
| `MCProcess.tla` | constants for TLC: one actor, two pids, symmetry over pids | | |
| `Codec.tla` | `TransportCodec::encode` and `::decode`, and the framed reader | `sent`, `wire` (bytes in the pipe), `buf` (the reader's BytesMut), `got` | `Write` (encode a payload), `Deliver(k)` (a read of k bytes), `DecodeFrame` |
| `FrameChannel.tla` | abstract: the framed pipe as a reliable FIFO of messages (spec 3, 5), as `Process` models `pipe` | `sent`, `got` | `Send(m)`, `Receive` (weakly fair) |
| `CommandCenter.tla` | `cmd.rs` `CommandCenter` and `CommandCenterCommands` | `ccState`, `svc` (status of each service as the center sees it), `cont` (spawned stop continuations), `inbox` (the mpsc channel), `pending` (signals waiting in their streams, a set because they coalesce), `waiter` (per `stop()` caller: idle, waiting, resolved), `stopSent` (values sent on the terminal notifier), `ended` (the command loop returned), `child` (per child: running, zombie, reaped) | `Start`, `HandleInbox`, `HandleSignal(sig)`, `StreamError`, `StopContinuation(s)`, the console operations, `StopRequest(w)` (`stop()`), and the environment: `SignalArrives`, `ChildExit`, `ServiceStopped`, `ServiceReloaded` |
| `MCCommandCenter.tla` | constants for TLC: two services, two waiters, two children | | |
| `WorkerLifecycle.tla` | abstract: what one supervisor promises its service (spec 4.2) | `phase` (unborn, starting, running, stopping, ended), `up` | `Spawn`, `SpawnFailed`, `Load`, `TimeOut`, `BeginStop`, `Notice` (reports that keep the phase), `End` |
| `Shutdown.tla` | abstract: the center's shutdown contract (spec 4.4, 8.4) | `phase` (up, draining), `stopped`, `result` (the notifier), `waiter` | `Run(S)`, `Halt(n)`, `Request(w)`, `Begin`, `Finish(ok)`, `AnswerLate` |
| `System.tla` | one service slot over its incarnations: `Process` (as `P == INSTANCE Process`), FeService from spec 4.3, and the reaper loop of `cmd.rs` that calls `exited` | Process's variables; `sstate` (the service: Starting, Running, Reloading, Stopping, Stopped, Failed); `cur` (the slot's current incarnation); `mbox` (FeService's mailbox of reports, each with the pid it carries and a ghost naming its sender); `startRes` and `reloadRes` (the completions); `calls` (console calls made) | `StartSlot`, `StopSlot(graceful)`, `ReloadSlot(graceful)` (FeService's operations) and the console's calls of them `StartService`, `Stop(graceful)`, `Reload(graceful)`, `PauseResume`, `HandleReport` (one report from the mailbox, matched to the slot by pid), `Reap` (the waitpid loop; a restart or a reload's replacement is forked by `Fork` in the same turn), the supervisors' steps, and the environment of `Process` |
| `MCSystem.tla` | constants for TLC: two incarnations; two pids, both open to foreign programs | | |
| `Controller.tla` | the whole controller of one service: `CommandCenter` (as `C == INSTANCE CommandCenter`, its abstract service status replaced by the slot's) driving the slot of `System` (as `S == INSTANCE System`) | System's variables and the center's `ccState`, `cont`, `inbox`, `pending`, `waiter`, `stopSent`, `ended` | `Start` (the center's start runs `FeService::start`), `HandleInbox`, `HandleSignal(sig)` through `Dispatch`: `GlobalStop(graceful)` calls `ServiceStop` (the slot's `StopSlot`), `ReloadAll` calls `ReloadSlot(TRUE)`, `ReapWorkers` is System's `Reap`; `StopContinuation`, `StreamError`, `Console` (the gated console calls), `Supervise(a)`, `HandleReport`, `Environment`; every step in which a worker of the slot ends raises SIGCHLD (`Chld`) |
| `MCController.tla` | constants for TLC: one pid, two incarnations, one `stop()` caller | | |

How code maps onto the model:

- Each handler is one atomic action. An actix handler runs to completion on
  one thread, and so does a futures continuation.
- `ctx.stop()` and `ctx.terminate()` end the actor in the same step, with the
  SIGKILL from `Drop` (`Teardown`). The framed context stops polling as soon
  as the handler returns.
- Time is abstracted away. A timer future may fire at any point once it is
  armed. "The heartbeat is older than `timeout`" is the flag `hbStale`, which
  the environment sets and an `hb` frame clears.
- Payload text is abstracted to a message kind. In `Codec`, a byte is a digit
  in base `2^BitsPerByte`, so the u16 limit is reachable with small payloads.
- Refinement: `Process` defines `Lifecycle == INSTANCE WorkerLifecycle WITH
  phase <- LifecyclePhase, up <- up`, where a live task is in the phase of its
  `ProcessState` and an ended or never-forked task has ended;
  `CommandCenter` defines `Contract == INSTANCE Shutdown WITH ...`, mapping
  `Stopping` to draining and a service to stopped when its status is
  `Stopped`. `Codec` defines `Channel == INSTANCE FrameChannel WITH Msgs <-
  Payloads`. Each abstract `Spec` is checked as a PROPERTY. `Controller` does
  not check the `Shutdown` contract again: with one service its clean exit is
  the continuation's own guard, and the console races it checks are
  `CommandCenter`'s. `Shutdown`'s `Begin` lets services that have nothing
  left to wait for stop in the same step, because `FeService::stop` on a slot
  with no worker resolves at once, inside the center's stop.
- Composition: `Controller` shares its variables with one instance of
  `System` and one of `CommandCenter`, as the components of a composed
  specification do. The center's actions call the slot's operations
  (`StopSlot`, `ReloadSlot`, `Reap`) directly, because `cmd.rs` calls
  `FeService` synchronously. The supervisors' reports still reach the
  service through its mailbox. SIGCHLD is not an action of its own: the
  kernel raises it in the step in which a worker becomes a zombie, whichever
  actor ended the worker.
- `service.rs` is not in `src/`. In `CommandCenter`, what the center sees of a
  service comes from the spec and is marked `spec_modelled` in
  `PROJECT.json`: whether a stop is accepted (`StopAccepted`), completion of
  stop and reload, and `is_stopped`. In `Process`, the service is an
  environment that sends any command at any time.

## Runs

| Run | Config | Expect | What it shows |
|---|---|---|---|
| process_safety | `MCProcess.cfg` | pass | `ImplementsLifecycle`: every report and state change is one the abstract lifecycle allows. `NoOrphanWorker`: whenever the supervisor task has ended, its worker is no longer running. `StaleTimersIgnored`: a StartupTimeout is never reported for a loaded worker, and a StopTimeout only for a stopping one. All of these hold against any worker behaviour, any command order, reaping and pid reuse. |
| process_liveness | `MCProcessLive.cfg` | pass | `TransientStatesEnd`: Starting and Stopping always end. `NoLingeringSupervisor`: once the worker is dead, the supervisor task ends. `QuitEnds`: after `QuitProcess(true)` the task ends, even when the worker loads during the grace second and the supervisor enters Running (process.rs 491). `HeartbeatLossReported`: a Running worker that stops sending `hb` is reported as `ProcessFailed(Heartbeat)`, unless it recovers or its supervisor leaves Running first; this needs every fresh heartbeat to re-arm the timer (process.rs 341-361). |
| process_stray_signal | `MCProcess_NoStraySignal.cfg` | violation | `NoStraySignal` fails. The worker exits, SIGCHLD is reaped first, and then `finished()` and `Drop` SIGKILL a pid the supervisor no longer owns. |
| process_loaded_and_failed | `MCProcess_NeverLoadedAndFailed.cfg` | violation | Spec §8's "never both loaded and failed" fails after `loaded` → `StopProcess` → StopTimeout. |
| system_cross_kill | `MCSystem_OwnKillOnly.cfg` | violation | `OwnKillOnly` fails. The worker exits, the reaper frees its pid, FeService restarts the slot and the fork gets the same pid. The old supervisor then handles its pipe EOF and SIGKILLs the new worker. |
| system_stale_report | `MCSystem_StartSuccess.cfg` | violation | `StartSuccessMeansLoaded` fails. The first worker's ProcessLoaded is still in FeService's mailbox when the worker exits and the reaper restarts the slot on the same pid. FeService takes the report for the new worker and resolves the start as Success while that worker is still Starting. |
| codec_roundtrip | `MCCodec.cfg` | pass | `FramesRecovered`: under any read chunking, the decoded frames are a prefix of the sent ones and become equal, with an empty buffer, once everything is delivered. This includes frames at the u16 limit. `ImplementsChannel`: under a fair reader, the codec implements `FrameChannel`, a reliable FIFO of whole messages, including its liveness: every frame written is eventually decoded. This is the pipe `Process` assumes. |
| center_shutdown | `MCCommandCenter.cfg` | pass | `CleanExitOnlyWhenDrained`: `exit(true)` happens only when every service is stopped. `ShutdownCompletes`: Stopping leads to the notifier being sent. `ImplementsShutdown`: the center refines `Shutdown.tla`, so no service is started once draining begins, the notifier fires once, and waiters are answered only with or after it. `EveryExitReaped`: every zombie is reaped despite coalesced SIGCHLDs. `TypeOK` includes "the notifier is sent at most once". |
| controller_shutdown | `MCController.cfg` | pass | With the center driving the real slot: `ShutdownCompletes`: a Stop from a `stop()` caller ends with the terminal notifier fired. The path runs through the supervisor's stop, the StopTimeout kill of a worker that ignores it, the SIGCHLD its exit raises, the reaper, the stop completion and the continuation. `ReloadResolves`: a console reload resolves, Success or Failed. It does when the replacement dies before loading, and when the Stop abandons it. |
| controller_clean_exit | `MCController_CleanExit.cfg` | violation | Spec §8 invariant 2, `CleanExitReapsAll`, fails. The worker sends `cfgerror`, and the service enters Failed while the supervisor leaves the worker running. The console's `start_service` then moves the slot to a new incarnation; with one pid, its fork fails. A Stop finds the slot empty, the service stops at once, and the continuation calls `exit(true)` while the first worker still runs. With a second pid the fork succeeds, and the slot has two workers at once. |
| center_late_stop | `MCCommandCenter_EveryStopAnswered.cfg` | violation | `EveryStopAnswered` fails. A `stop()` made after the center drained is never answered. |

Every property of the passing runs has a mutant in `PROJECT.json`: a
plausible bug in the mapped code that TLC must then catch. The findings behind
the violation runs are recorded in `PROJECT.json` under `findings`.

### Bounds

- **Process**: one incarnation, with two pids so that reuse by a foreign
  program or a reaped slot can happen.
  - `MaxMsgs = 2` worker frames are enough for `forked` followed by `loaded`,
    or for `loaded` followed by an `hb` or a request.
  - The liveness run uses one pid and one frame, because the fairness search
    is much larger. Every exit path (EOF, decode error, each timer, stop and
    quit) stays reachable there.
- **Codec**: three frames of up to three one-bit bytes. With 1-bit bytes, the
  "u16" is 2 bits, so a payload of length 3 is at the limit. `FairSpec`
  makes the pipe's delivery and the reader's decode weakly fair: the OS
  delivers written bytes, and the framed reader decodes again after each
  frame. The writer is not fair.
- **System**: two incarnations of one slot, so the slot is restarted or
  reloaded once. There is one frame per worker.
  - `MaxCalls` bounds the console's calls. `Ops` says which calls it makes.
  - Two pids, so a restart may or may not reuse the freed pid; foreign
    programs may take either pid.
  - The violation runs have three calls. They need a restart before the
    report is handled, or a kill across incarnations.
  - A heartbeat lapse is taken only in Running. `Process.hb` is read only
    there, and entering Running resets it.
- **Controller**: one pid and no foreign programs, two incarnations, one
  frame per worker and one `stop()` caller.
  - The shutdown run lets the console make one `reload_service` call, and
    the worker write only `loaded`. So the Stop can meet a service that is
    Starting, Running or Reloading, with the old or the replacement worker.
  - Signals other than SIGCHLD are left out of this run. Each one can arrive
    at any time and triples the state space. With SIGINT alone the liveness
    search took two minutes, against half a minute without it, too close to
    the five-minute limit on a slower machine. Stop through a signal is the same
    `GlobalStop(TRUE)` as through `stop()`, and Quit's hard kill is
    `StopSlot(FALSE)`, whose `QuitProcess(a, FALSE)` the Process runs exercise.
  - The orphan run lets the console make one `start_service` call, and the
    worker write `loaded` or `cfgerror`.
- **View**: `MCController.cfg` checks states through a
  `VIEW` (`MCView`). It leaves out `up` (each supervisor's log of reports),
  `cmds` (the commands sent to a worker, which acts regardless of them),
  `stray`, and the ghost `from` of each mailbox report. No action reads
  them: a step posts to the mailbox only the reports it appends to `up`.
  No property of that run mentions them, so states that differ only in
  them have the same futures. Without the view, these histories multiplied
  the run's state graph by about 8.
- **CommandCenter**: two services, two `stop()` callers and two children.
  That is enough for an interleaving of two continuations, for two coalesced
  SIGCHLDs, and for a stop() that arrives late.

### Fairness

`FairSpec` puts weak fairness on the steps the event loop takes itself:
handling a ready message, timer or signal, and running a spawned continuation.
A tokio/actix reactor polls every ready future, so a step that stays enabled
is eventually taken. Nothing is assumed of the environment: the worker may
never write, a service may never send a command, and time gives no guarantee.
The one exception is `ServiceStopped` in `CommandCenter`, which is fair
because spec §4.3 says a stop always completes, by StopTimeout and SIGKILL
at worst.

In `Controller`, these steps are weakly fair, because all of them run on
the one event loop: the center's start, its handling of the channel and of
each signal stream (SIGCHLD included, which runs the reaper), the stop
continuation, the supervisors' handlers, and FeService's handling of its
mailbox. The console's calls, `stop()` callers, signal senders and the
worker are not fair.

## Not modelled

- Config, CLI, logging and the control socket: pure I/O or formatting.
- `exec_worker` and the worker side: not in `src/`. The worker is an
  arbitrary environment.
- `finished()` of the command center is unreachable, because the center holds
  its own sender and the signal streams never end.
- After `call()` returns Ready (a stream error), `Controller` stops: nothing
  reaps or dispatches any more. What `main` does next is not in `src/`.
- `service_status` and the pid queries change no state.
- `Reason` conversions are used only for text.
- In `System`, these are left out because spec 4.3 and spec 9 leave them
  open:
  - the worker's `reload` and `restart` requests, which are consumed with no
    effect;
  - any reaction to a heartbeat failure beyond the restart on `exited`;
  - the resolution of a start that is stopped before it resolves;
  - a second reload while one is in flight, which is not allowed.
- A restart happens at once, with no backoff.
- No passing run checks `System` alone. With the restart on `exited` taken
  from the spec, `Reap` forks the next incarnation only in the step that
  reaps the current one, so "a restart never doubles the worker" holds by
  the model's shape and says nothing about the code. `System` is checked
  through its violation runs and, composed, through `Controller`.
- FeService matches reports by the pid they carry, the only identity
  `process.rs` sends.
- A second slot in `System`, and two real services in `Controller`. One slot
  under `Controller`'s liveness run already takes about four minutes; a
  second slot multiplies the state space by the first's. The race between
  two services' stop continuations is checked in `CommandCenter`, over
  abstract services.
- The malformed payload at byte level. `Codec` shows the framing is a
  reliable FIFO (`ImplementsChannel`), and JSON parsing is a function of the
  frame's bytes, so `Process` models a frame that does not parse as the
  message `malformed` in its FIFO `pipe`, handled by `RecvMalformed`.
- The value a `stop()` caller receives. `exit()` always sends `true`, also on
  the stream-error exit (`cmd.rs` 79). The spec leaves the value open, so
  nothing is checked of it; `PROJECT.json` lists it as a hazard.
