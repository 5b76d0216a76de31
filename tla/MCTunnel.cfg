\* One start, one stop request and a shutdown, or two starts, at capacity 1, under fairness.
CONSTANTS
    t1 = t1
    t2 = t2
    t3 = t3
    Tunnels = {t1, t2, t3}
    Stoppers = {s1}
    MaxTunnels = 1
    Concurrent = 2
    NoTarget = NoTarget
    ShutsDown = TRUE
SPECIFICATION MCSpec
INVARIANTS
    CapacityBound
    AnswersAndWorkersAgree
PROPERTIES
    EveryoneIsAnswered
    ImplementsLifecycle
