\* The center driving the service: the shutdown and a reload in flight
\* complete under weak fairness of the event loop.
CONSTANTS
    p1 = p1
    i1 = i1
    i2 = i2
    w1 = w1
    Pids <- MCPids
    Others <- MCNoPid
    Inc <- MCInc
    MaxMsgs = 1
    MaxCalls = 1
    Ops <- MCReloadOp
    Waiters <- MCWaiters
    Signals <- MCNoSignal
    Writes <- MCLoads
SPECIFICATION FairSpec
PROPERTY ShutdownCompletes ReloadResolves
VIEW MCView
