SPECIFICATION Spec
CONSTANTS
    callA = callA
    callB = callB
    NoCall = NoCall
    NoUsage = NoUsage
    NoBlock = NoBlock
    EmptyObject = EmptyObject
    Calls = {callA, callB}
    Chunks <- AllChunks
    MaxChunks = 3
INVARIANT
    UsageReported
CHECK_DEADLOCK FALSE
