SPECIFICATION Spec
CONSTANTS
    callA = callA
    callB = callB
    NoCall = NoCall
    NoUsage = NoUsage
    NoBlock = NoBlock
    EmptyObject = EmptyObject
    Calls = {callA, callB}
    Chunks <- AllChunks
    MaxChunks = 3
INVARIANT
    FragmentsReachTheirCall
CHECK_DEADLOCK FALSE
