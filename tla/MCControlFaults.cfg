\* Every failure, and the waits of the two components for each other.
SPECIFICATION FairSpec
CONSTANTS
    s1 = s1
    s2 = s2
    small = small
    big = big
    n1 = n1
    n2 = n2
    a1 = a1
    a2 = a2
    a3 = a3
    NoSession = NoSession
    NoModel = NoModel
    NoNode = NoNode
    NoActor = NoActor
    NoRecord = NoRecord
    NoBeat = NoBeat
    Session = {s1, s2}
    Model = {big}
    Node = {n1}
    Actor = {a1}
    MinVram <- MCMinVram
    MaxSessions <- MCZeroMaxSessions
    Gpu <- MCGpu
    Faults = {"container_dies", "docker_error", "gpu_query", "wm_crash", "replace"}
PROPERTIES
    NeverStopUsed
    AcquireReturns
