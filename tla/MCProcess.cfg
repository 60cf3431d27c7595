\* Safety of one Process supervisor per incarnation, against an arbitrary
\* worker, service, reaper and pid reuse.
CONSTANTS
    a1 = a1
    p1 = p1
    p2 = p2
    Actors <- MCActors
    Pids <- MCPids
    MaxMsgs = 2
SPECIFICATION Spec
SYMMETRY MCSymmetry
INVARIANT TypeOK
INVARIANT NoOrphanWorker
INVARIANT StaleTimersIgnored
PROPERTY ImplementsLifecycle
