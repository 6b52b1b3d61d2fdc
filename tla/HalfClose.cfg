\* One session, queues of one item each, two chunks, two results.
SPECIFICATION Spec
CONSTANTS
    AudioCap = 1
    ResultsCap = 1
    MaxChunk = 2
    MaxResult = 2
    End = End
    Error = Error
CHECK_DEADLOCK FALSE
PROPERTIES
    HalfCloseEnds
