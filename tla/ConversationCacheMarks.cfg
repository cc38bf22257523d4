SPECIFICATION Spec
CONSTANTS
    callA = callA
    callB = callB
    EmptyObject = EmptyObject
    Nil = Nil
    Malformed <- BrokenArguments
    Pieces <- AllPieces
    Ids <- CallIdsAsked
    OtherBlocks <- Documents
    Models <- AllModels
    Systems <- AllSystems
    Turns <- AllTurns
    Replies <- AllReplies
    MaxTurns = 3
    WantedTokens = 8
INVARIANT
    CacheMarksForwarded
CHECK_DEADLOCK FALSE
