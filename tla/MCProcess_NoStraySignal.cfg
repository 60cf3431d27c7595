\* Looks for a violation of NoStraySignal.
CONSTANTS
    a1 = a1
    p1 = p1
    p2 = p2
    Actors <- MCActors
    Pids <- MCPids
    MaxMsgs = 2
SPECIFICATION Spec
SYMMETRY MCSymmetry
INVARIANT NoStraySignal
