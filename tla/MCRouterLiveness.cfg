\* Liveness and refinement where one of the two models admits zero sessions.
SPECIFICATION FairSpec
CONSTANTS
    s1 = s1
    s2 = s2
    s3 = s3
    small = small
    big = big
    n1 = n1
    n2 = n2
    a1 = a1
    a2 = a2
    a3 = a3
    NoSession = NoSession
    NoModel = NoModel
    NoNode = NoNode
    NoActor = NoActor
    NoRecord = NoRecord
    Session = {s1, s2}
    Model = {small, big}
    Node = {n1, n2}
    Actor = {a1, a2}
    MinVram <- MCZeroMinVram
    MaxSessions <- MCZeroMaxSessions
    Reading <- MCReading
PROPERTIES
    AcquireReturns
    PoolSpec
