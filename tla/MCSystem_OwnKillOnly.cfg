\* A restarted worker is SIGKILLed by the supervisor of the incarnation
\* before it when the fork reuses the pid the reaper just freed.
CONSTANTS
    p1 = p1
    p2 = p2
    i1 = i1
    i2 = i2
    Pids <- MCPids
    Others <- MCPids
    Inc <- MCInc
    MaxMsgs = 1
    MaxCalls = 3
    Ops <- MCAllOps
SPECIFICATION Spec
SYMMETRY MCSymmetry
PROPERTY OwnKillOnly
