\* No failure at all: a heartbeat read while a model loads.
SPECIFICATION Spec
CONSTANTS
    s1 = s1
    s2 = s2
    small = small
    big = big
    n1 = n1
    n2 = n2
    a1 = a1
    a2 = a2
    a3 = a3
    NoSession = NoSession
    NoModel = NoModel
    NoNode = NoNode
    NoActor = NoActor
    NoRecord = NoRecord
    NoBeat = NoBeat
    Session = {s1, s2}
    Model = {small, big}
    Node = {n1}
    Actor = {a1, a2}
    MinVram <- MCMinVram
    MaxSessions <- MCMaxSessions
    Gpu <- MCGpu
    Faults = {}
INVARIANT
    NoOvercommit
