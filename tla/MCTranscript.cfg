\* Queues of two and one items, more chunks and results than they hold; the
\* functions of the audio path over small streams, chunks and windows.
SPECIFICATION Spec
CONSTANTS
    AudioCap = 2
    ResultsCap = 1
    MaxChunk = 3
    MaxResult = 3
    End = End
    Error = Error
    Rate = {0, 44, 110}
    Width = {2, 4}
    Warmup = {0, 2}
    Duration <- MCDuration
    Setting <- MCSetting
    Byte = {1, 2, 3, 4, 5, 6, 7, 8, 9, 10, 11, 12, 13, 14, 15}
    Stream <- MCStream
    Cutting <- MCCutting
    Hearing <- MCHearing
CHECK_DEADLOCK FALSE
INVARIANTS
    TypeOK
    TranscriptsInOrder
    EndIsComplete
    SessionInv
    AudioKept
    AudioDecodes
    GateRight
PROPERTIES
    ThreadEnds
    ReaderReleased
