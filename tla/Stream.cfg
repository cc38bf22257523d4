SPECIFICATION Spec
CONSTANTS
    callA = callA
    callB = callB
    NoCall = NoCall
    NoUsage = NoUsage
    NoBlock = NoBlock
    EmptyObject = EmptyObject
    Calls = {callA, callB}
    Chunks <- AllChunks
    MaxChunks = 4
INVARIANTS
    TypeOK
    Orderly
    ShownAsSent
    ProseInItsOwnBlock
    OneBlockPerCall
    ContiguousCallsKeepTheirArguments
    ClosingTellsTheLast
    StreamedLikeWhole
PROPERTIES
    ImplementsAnthropicStream
CHECK_DEADLOCK FALSE
