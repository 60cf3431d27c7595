\* A stale ProcessLoaded of a restarted slot's predecessor, carrying the
\* reused pid, resolves start_service Success for a worker still starting.
CONSTANTS
    p1 = p1
    p2 = p2
    i1 = i1
    i2 = i2
    Pids <- MCPids
    Others <- MCPids
    Inc <- MCInc
    MaxMsgs = 1
    MaxCalls = 3
    Ops <- MCAllOps
SPECIFICATION Spec
SYMMETRY MCSymmetry
PROPERTY StartSuccessMeansLoaded
