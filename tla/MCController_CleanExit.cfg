\* A clean shutdown reported while a worker of the service still runs: a
\* console start of the Failed service abandons the cfgerror worker.
CONSTANTS
    p1 = p1
    i1 = i1
    i2 = i2
    w1 = w1
    Pids <- MCPids
    Others <- MCNoPid
    Inc <- MCInc
    MaxMsgs = 1
    MaxCalls = 1
    Ops <- MCStartOp
    Waiters <- MCWaiters
    Signals <- MCNoSignal
    Writes <- MCLoadsOrFails
SPECIFICATION Spec
INVARIANT CleanExitReapsAll
