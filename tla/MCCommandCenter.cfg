\* Global shutdown, reaping and the console's effect on them, with the
\* event loop fair to the center's own steps and to stopping services.
CONSTANTS
    s1 = s1
    s2 = s2
    w1 = w1
    w2 = w2
    c1 = c1
    c2 = c2
    Services <- MCServices
    Waiters <- MCWaiters
    Children <- MCChildren
SPECIFICATION FairSpec
INVARIANT TypeOK
INVARIANT CleanExitOnlyWhenDrained
PROPERTY ShutdownCompletes
PROPERTY ImplementsShutdown
PROPERTY EveryExitReaped
