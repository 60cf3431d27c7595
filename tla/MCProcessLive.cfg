\* Liveness of the supervisor's timeouts and teardown, under weak fairness
\* of the event loop's handling of ready frames and expired timers.
CONSTANTS
    a1 = a1
    p1 = p1
    p2 = p2
    Actors <- MCActors
    Pids <- MCOnePid
    MaxMsgs = 1
SPECIFICATION FairSpec
PROPERTY TransientStatesEnd
PROPERTY NoLingeringSupervisor
PROPERTY QuitEnds
PROPERTY HeartbeatLossReported
