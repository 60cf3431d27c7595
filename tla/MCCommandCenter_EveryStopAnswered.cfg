\* Looks for a stop() caller that is never answered.
CONSTANTS
    s1 = s1
    s2 = s2
    w1 = w1
    w2 = w2
    c1 = c1
    c2 = c2
    Services <- MCServices
    Waiters <- MCWaiters
    Children <- MCChildren
SPECIFICATION FairSpec
PROPERTY EveryStopAnswered
